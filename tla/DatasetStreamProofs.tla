------------------------- MODULE DatasetStreamProofs -------------------------
(***************************************************************************)
(* Proofs about the dataset stream, for datasets, caps, tables, flush      *)
(* intervals and numbers of runs of any size, over both transports: rows   *)
(* are handed on once and in order however the response is cut, a stream   *)
(* that ended is complete, and the display follows; and about the reading  *)
(* of a request by either host (DatasetRequests).                          *)
(***************************************************************************)
EXTENDS DatasetStream, DatasetRequests, SequenceTheorems, WellFoundedInduction, TLAPS

Rows == Runs \X Nat
Pieces == [row : Rows, part : 1 .. 3]
Conns == {"open", "ended", "broken", "dropped", "refused"}
Hosts == [state : {"idle", "asked", "sending", "done"}, item : Nat, part : 1 .. 3]
Views == [agg : Seq(Rows), rows : Seq(Rows), sinceFlush : Nat,
          live : BOOLEAN, shownAgg : Seq(Rows), shownRows : Seq(Rows)]
Parses == [text : Seq(Pieces), view : Views, lines : Seq(Rows), ok : BOOLEAN]

Window(n) == Min({RowWindow, n})

(* What the refs of the explorer and the rendered copies of them have to   *)
(* do with one another.  sinceFlush may count rows that were rendered when *)
(* a run ended.                                                            *)
DisplayOK(v) ==
    /\ v \in Views
    /\ v.sinceFlush < FlushEvery
    /\ v.rows = SubSeq(v.agg, 1, Window(Len(v.agg)))
    /\ v.live => v.shownRows = <<>> /\ v.sinceFlush = Len(v.agg)
    /\ ~v.live => /\ Len(v.shownAgg) <= Len(v.agg)
                  /\ Len(v.agg) - Len(v.shownAgg) <= v.sinceFlush
                  /\ v.shownRows = SubSeq(v.shownAgg, 1, Window(Len(v.shownAgg)))

(* The first k rows of the run, and no others, were handed on. *)
Handed(v, c, k) ==
    /\ DisplayOK(v) /\ c \in Seq(Rows)
    /\ FirstRows(v.agg) /\ FirstRows(c)
    /\ \A i \in DOMAIN c : c[i][1] = run
    /\ mode = "view" => Len(v.agg) = k /\ \A i \in DOMAIN v.agg : v.agg[i][1] = run
    /\ mode = "export" => Len(c) = k /\ ShownAgg(v) = v.agg

Count == IF mode = "view" THEN Len(view.agg) ELSE Len(lines)

(* m is what follows the first n pieces of the response of the run. *)
IsPiece(m, n) ==
    m \in Pieces /\ m.row[1] = run /\ n = 3 * (m.row[2] - 1) + m.part - 1

-----------------------------------------------------------------------------
Typed ==
    /\ transport \in {"http", "tauri"} /\ crashed \in BOOLEAN
    /\ transport = "tauri" => ~crashed
    /\ host \in [Runs -> Hosts]
    /\ wire \in [Runs -> Seq(IF transport = "http" THEN Pieces ELSE Rows)]
    /\ conn \in [Runs -> Conns]
    /\ run \in 0 .. MaxRuns /\ mode \in {"view", "export"}
    /\ running \in BOOLEAN /\ (running => run \in Runs)
    /\ cancelled \in BOOLEAN /\ calling \in BOOLEAN /\ ignoring \in BOOLEAN
    /\ ignoring => cancelled
    /\ buffer \in Seq(Pieces)

(* A host never goes past the end, and has sent whole rows when it is there. *)
HostsKeepWithin ==
    \A r \in Runs : /\ host[r].item <= Total
                    /\ host[r].state = "sending" /\ host[r].item = Total => host[r].part = 1

(* Nobody was asked for the runs to come. *)
Untouched == \A r \in Runs : r > run => host[r] = Idle /\ wire[r] = <<>> /\ conn[r] = "open"

NotAsked ==
    /\ host[run].state \in {"idle", "asked"} => Count = 0 /\ buffer = <<>> /\ wire[run] = <<>>
    /\ ~calling => host[run] = Idle /\ conn[run] = "open"

(* What was handed on, what the buffer and the wire hold and what the host *)
(* has yet to send follow one another without a gap.                       *)
PiecesInOrder ==
    LET read == 3 * Count + Len(buffer)
    IN /\ Len(buffer) < 3
       /\ \A j \in DOMAIN buffer : IsPiece(buffer[j], 3 * Count + j - 1)
       /\ \A j \in DOMAIN wire[run] : IsPiece(wire[run][j], read + j - 1)
       /\ host[run].state = "sending" /\ conn[run] = "open" =>
             read + Len(wire[run]) = 3 * host[run].item + host[run].part - 1
       /\ conn[run] = "ended" /\ ~crashed => read + Len(wire[run]) = 3 * Total

RowsInOrder ==
    /\ \A j \in DOMAIN wire[run] : wire[run][j] = <<run, Count + j>>
    /\ host[run].state = "sending" /\ conn[run] = "open" => Count + Len(wire[run]) = host[run].item
    /\ conn[run] = "ended" => Count + Len(wire[run]) = Total

Flowing ==
    running =>
        /\ outcome = "none" /\ file = NoFile
        /\ NotAsked
        /\ transport = "http" => PiecesInOrder
        /\ transport = "tauri" /\ ~ignoring => RowsInOrder

(* How runs that are over ended. *)
Over ==
    /\ ~running => ShownAgg(view) = view.agg
    /\ outcome = "resolved" /\ ~Cut => Count = Total
    /\ file # NoFile => FirstRows(file) /\ (Cut \/ Len(file) = Total)

IInv ==
    /\ Typed
    /\ HostsKeepWithin
    /\ Untouched
    /\ Handed(view, lines, Count)
    /\ Flowing
    /\ Over

-----------------------------------------------------------------------------
LEMMA MinOfTwo ==
    ASSUME NEW a \in Nat, NEW b \in Nat
    PROVE  Min({a, b}) = IF a <= b THEN a ELSE b
<1>1. CASE a <= b
  <2>1. \A x \in {a, b} : (\A y \in {a, b} : x <= y) <=> x = a
    BY <1>1
  <2> QED
    BY <1>1, <2>1 DEF Min
<1>2. CASE ~ (a <= b)
  <2>1. \A x \in {a, b} : (\A y \in {a, b} : x <= y) <=> x = b
    BY <1>2
  <2> QED
    BY <1>2, <2>1 DEF Min
<1> QED
  BY <1>1, <1>2

LEMMA Sizes ==
    /\ Items \in Nat /\ Cap \in Nat /\ RowWindow \in Nat /\ MaxRuns \in Nat
    /\ FlushEvery \in Nat /\ FlushEvery > 0
    /\ Total \in Nat /\ Runs \subseteq Nat
  BY SizesAssumption, MinOfTwo DEF Total, Runs

LEMMA WindowIs ==
    ASSUME NEW n \in Nat
    PROVE  Window(n) = (IF RowWindow <= n THEN RowWindow ELSE n) /\ Window(n) \in 0 .. n
  BY Sizes, MinOfTwo DEF Window

-----------------------------------------------------------------------------
(* Every nonempty set of naturals has a least one. *)
LEMMA LeastNatural ==
    ASSUME NEW T \in SUBSET Nat, T # {}
    PROVE  \E n \in T : \A m \in T : n <= m
<1> DEFINE R == {p \in Nat \X Nat : p[1] < p[2]}
<1>1. OpToRel(<, Nat) = R
  BY DEF OpToRel
<1>2. IsWellFoundedOn(R, Nat)
  BY NatLessThanWellFounded, <1>1
<1>3. PICK n \in T : \A m \in T : <<m, n>> \notin R
  <2> HIDE DEF R
  <2> QED
    BY <1>2, WFMin
<1>4. ASSUME NEW m \in T
      PROVE  n <= m
  <2>1. <<m, n>> \in Nat \X Nat /\ n \in Nat /\ m \in Nat
    OBVIOUS
  <2>2. ~ (m < n)
    BY <2>1, <1>3
  <2> QED
    BY <2>1, <2>2
<1> QED
  BY <1>4

-----------------------------------------------------------------------------
(* What happens to the explorer's view. *)
LEMMA Headed ==
    ASSUME NEW S, NEW s \in Seq(S), NEW n \in 0 .. Len(s)
    PROVE  /\ SubSeq(s, 1, n) \in Seq(S) /\ Len(SubSeq(s, 1, n)) = n
           /\ \A i \in 1 .. n : SubSeq(s, 1, n)[i] = s[i]
  BY SubSeqProperties, LenProperties

LEMMA HeadOfAppend ==
    ASSUME NEW S, NEW s \in Seq(S), NEW e \in S
    PROVE  /\ \A n \in 0 .. Len(s) : SubSeq(Append(s, e), 1, n) = SubSeq(s, 1, n)
           /\ SubSeq(s, 1, Len(s)) = s
           /\ SubSeq(Append(s, e), 1, Len(s) + 1) = Append(s, e)
<1>1. Append(s, e) \in Seq(S) /\ Len(Append(s, e)) = Len(s) + 1 /\ Len(s) \in Nat
      /\ \A i \in 1 .. Len(s) : Append(s, e)[i] = s[i]
  BY AppendProperties, LenProperties
<1>2. ASSUME NEW n \in 0 .. Len(s)
      PROVE  SubSeq(Append(s, e), 1, n) = SubSeq(s, 1, n)
  <2>1. n \in 0 .. Len(Append(s, e))
    BY <1>1
  <2>2. /\ SubSeq(s, 1, n) \in Seq(S) /\ Len(SubSeq(s, 1, n)) = n
        /\ \A i \in 1 .. n : SubSeq(s, 1, n)[i] = s[i]
    BY Headed
  <2>3. /\ SubSeq(Append(s, e), 1, n) \in Seq(S) /\ Len(SubSeq(Append(s, e), 1, n)) = n
        /\ \A i \in 1 .. n : SubSeq(Append(s, e), 1, n)[i] = Append(s, e)[i]
    BY <1>1, <2>1, Headed
  <2>4. \A i \in 1 .. n : SubSeq(Append(s, e), 1, n)[i] = SubSeq(s, 1, n)[i]
    BY <1>1, <2>2, <2>3
  <2> QED
    BY <2>2, <2>3, <2>4, SeqEqual
<1>3. ASSUME NEW t \in Seq(S)
      PROVE  SubSeq(t, 1, Len(t)) = t
  <2>1. Len(t) \in 0 .. Len(t)
    BY LenProperties
  <2>2. /\ SubSeq(t, 1, Len(t)) \in Seq(S) /\ Len(SubSeq(t, 1, Len(t))) = Len(t)
        /\ \A i \in 1 .. Len(t) : SubSeq(t, 1, Len(t))[i] = t[i]
    BY <2>1, Headed
  <2> QED
    BY <2>2, SeqEqual
<1> QED
  BY <1>1, <1>2, <1>3

LEMMA RenderedKeeps ==
    ASSUME NEW v, DisplayOK(v)
    PROVE  /\ DisplayOK(Rendered(v)) /\ Rendered(v).agg = v.agg
           /\ ShownAgg(Rendered(v)) = v.agg
           /\ DisplayOK(Flush(v)) /\ Flush(v).agg = v.agg
<1>1. v \in Views /\ Len(v.agg) \in Nat
  BY LenProperties DEF DisplayOK, Views
<1>2. /\ Rendered(v) \in Views
      /\ Rendered(v).agg = v.agg /\ Rendered(v).rows = v.rows
      /\ Rendered(v).sinceFlush = v.sinceFlush /\ ~Rendered(v).live
      /\ Rendered(v).shownAgg = v.agg /\ Rendered(v).shownRows = v.rows
  BY <1>1 DEF Rendered, Views
<1>3. /\ Flush(v) \in Views
      /\ Flush(v).agg = v.agg /\ Flush(v).rows = v.rows
      /\ Flush(v).sinceFlush = 0 /\ ~Flush(v).live
      /\ Flush(v).shownAgg = v.agg /\ Flush(v).shownRows = v.rows
  BY <1>2 DEF Flush, Views
<1>4. /\ v.sinceFlush \in Nat /\ v.sinceFlush < FlushEvery
      /\ v.rows = SubSeq(v.agg, 1, Window(Len(v.agg)))
  BY <1>1 DEF DisplayOK, Views
<1>5. DisplayOK(Rendered(v))
  BY <1>1, <1>2, <1>4, Sizes DEF DisplayOK
<1>6. DisplayOK(Flush(v))
  BY <1>1, <1>3, <1>4, Sizes DEF DisplayOK
<1> QED
  BY <1>2, <1>3, <1>5, <1>6 DEF ShownAgg

LEMMA LagGrows ==
    ASSUME NEW a \in Nat, NEW b \in Nat, NEW c \in Nat, a <= b, b - a <= c
    PROVE  a <= b + 1 /\ (b + 1) - a <= c + 1
  OBVIOUS

LEMMA ViewRowKeeps ==
    ASSUME NEW v, DisplayOK(v), NEW row \in Rows
    PROVE  DisplayOK(ViewRow(v, row)) /\ ViewRow(v, row).agg = Append(v.agg, row)
<1> DEFINE counted == [v EXCEPT !.agg = Append(@, row),
                                !.rows = IF Len(@) < RowWindow THEN Append(@, row) ELSE @,
                                !.sinceFlush = @ + 1]
<1>1. v \in Views /\ Len(v.agg) \in Nat /\ Len(v.rows) \in Nat /\ v.sinceFlush \in Nat
  BY LenProperties DEF DisplayOK, Views
<1> DEFINE table == IF Len(v.rows) < RowWindow THEN Append(v.rows, row) ELSE v.rows
<1>2. /\ counted \in Views
      /\ counted.agg = Append(v.agg, row) /\ Len(counted.agg) = Len(v.agg) + 1
      /\ counted.sinceFlush = v.sinceFlush + 1
      /\ counted.live = v.live
      /\ counted.shownAgg = v.shownAgg /\ counted.shownRows = v.shownRows
      /\ counted.rows = table
  <2>1. v.agg \in Seq(Rows) /\ v.rows \in Seq(Rows)
    BY <1>1 DEF Views
  <2>2. /\ Append(v.agg, row) \in Seq(Rows) /\ Len(Append(v.agg, row)) = Len(v.agg) + 1
        /\ Append(v.rows, row) \in Seq(Rows)
    BY <2>1, AppendProperties
  <2>3. table \in Seq(Rows)
    BY <2>1, <2>2
  <2> DEFINE more == Append(v.agg, row)
             since == v.sinceFlush + 1
  <2>4. counted = [v EXCEPT !.agg = more, !.rows = table, !.sinceFlush = since]
    BY <1>1 DEF Views
  <2>5. more \in Seq(Rows) /\ since \in Nat /\ table \in Seq(Rows)
    BY <1>1, <2>2, <2>3
  <2> HIDE DEF table, counted, more, since
  <2>6. /\ counted \in Views
        /\ counted.agg = more /\ counted.sinceFlush = since /\ counted.rows = table
        /\ counted.shownAgg = v.shownAgg /\ counted.shownRows = v.shownRows
    BY <1>1, <2>4, <2>5 DEF Views
  <2>7. counted.live = v.live
    BY <1>1, <2>4 DEF Views
  <2> QED
    BY <2>2, <2>6, <2>7 DEF more, since
<1>3. Window(Len(v.agg)) \in 0 .. Len(v.agg) /\ Len(v.rows) = Window(Len(v.agg))
  <2>1. v.agg \in Seq(Rows) /\ v.rows = SubSeq(v.agg, 1, Window(Len(v.agg)))
    BY <1>1 DEF Views, DisplayOK
  <2> QED
    BY <1>1, <2>1, WindowIs, Headed, SMTT(30)
<1>4. counted.rows = SubSeq(counted.agg, 1, Window(Len(counted.agg)))
  <2>1. v.agg \in Seq(Rows)
    BY <1>1 DEF Views
  <2>2. CASE Len(v.agg) < RowWindow
    <3>1. Window(Len(v.agg)) = Len(v.agg) /\ Window(Len(v.agg) + 1) = Len(v.agg) + 1
      BY <1>1, <2>2, Sizes, WindowIs, SMTT(30)
    <3>2. v.rows = v.agg
      BY <2>1, <3>1, HeadOfAppend DEF DisplayOK
    <3> QED
      BY <1>2, <1>3, <2>1, <2>2, <3>1, <3>2, HeadOfAppend
  <2>3. CASE ~ (Len(v.agg) < RowWindow)
    <3>1. Window(Len(v.agg)) = RowWindow /\ Window(Len(v.agg) + 1) = RowWindow
          /\ RowWindow \in 0 .. Len(v.agg)
      BY <1>1, <2>3, Sizes, WindowIs
    <3>2. counted.rows = SubSeq(v.agg, 1, RowWindow)
      BY <1>2, <1>3, <3>1, Sizes DEF DisplayOK
    <3> QED
      BY <1>2, <2>1, <3>1, <3>2, HeadOfAppend
  <2> QED
    BY <2>2, <2>3
<1> HIDE DEF counted
<1>5. CASE counted.sinceFlush >= FlushEvery
  <2>1. ViewRow(v, row) = Flush(counted)
    BY <1>5 DEF ViewRow, counted
  <2>2. /\ Rendered(counted) \in Views
        /\ Rendered(counted).agg = counted.agg /\ Rendered(counted).rows = counted.rows
        /\ ~Rendered(counted).live
        /\ Rendered(counted).shownAgg = counted.agg /\ Rendered(counted).shownRows = counted.rows
    BY <1>2 DEF Rendered, Views
  <2>3. /\ Flush(counted) \in Views
        /\ Flush(counted).agg = counted.agg /\ Flush(counted).rows = counted.rows
        /\ Flush(counted).sinceFlush = 0 /\ ~Flush(counted).live
        /\ Flush(counted).shownAgg = counted.agg /\ Flush(counted).shownRows = counted.rows
    BY <2>2 DEF Flush, Views
  <2>4. Len(counted.agg) \in Nat
    BY <1>1, <1>2
  <2>5. DisplayOK(Flush(counted))
    BY <1>4, <2>3, <2>4, Sizes DEF DisplayOK
  <2> QED
    BY <1>2, <2>1, <2>3, <2>5
<1>6. CASE ~ (counted.sinceFlush >= FlushEvery)
  <2>1. ViewRow(v, row) = counted
    BY <1>6 DEF ViewRow, counted
  <2>2. counted.sinceFlush < FlushEvery
    BY <1>1, <1>2, <1>6, Sizes
  <2>3. v.live => counted.shownRows = <<>> /\ counted.sinceFlush = Len(counted.agg)
    BY <1>2 DEF DisplayOK
  <2>4. ~v.live => /\ Len(counted.shownAgg) <= Len(counted.agg)
                   /\ Len(counted.agg) - Len(counted.shownAgg) <= counted.sinceFlush
                   /\ counted.shownRows = SubSeq(counted.shownAgg, 1, Window(Len(counted.shownAgg)))
    <3>1. Len(v.shownAgg) \in Nat
      BY <1>1, LenProperties DEF Views
    <3>2. ~v.live => /\ Len(v.shownAgg) <= Len(v.agg)
                     /\ Len(v.agg) - Len(v.shownAgg) <= v.sinceFlush
                     /\ v.shownRows = SubSeq(v.shownAgg, 1, Window(Len(v.shownAgg)))
      BY DEF DisplayOK
    <3>3. ASSUME ~counted.live
          PROVE  /\ Len(counted.shownAgg) <= Len(counted.agg)
                 /\ Len(counted.agg) - Len(counted.shownAgg) <= counted.sinceFlush
      <4>1. ~v.live
        BY <1>2, <3>3
      <4>2. Len(v.shownAgg) <= Len(v.agg) /\ Len(v.agg) - Len(v.shownAgg) <= v.sinceFlush
        BY <3>2, <4>1
      <4>3. /\ Len(v.shownAgg) <= Len(v.agg) + 1
            /\ (Len(v.agg) + 1) - Len(v.shownAgg) <= v.sinceFlush + 1
        BY <1>1, <3>1, <4>2, LagGrows
      <4>4. /\ Len(counted.shownAgg) = Len(v.shownAgg) /\ Len(counted.agg) = Len(v.agg) + 1
            /\ counted.sinceFlush = v.sinceFlush + 1
        BY <1>2
      <4> HIDE <1>1, <1>2, <3>1, <3>2
      <4> QED
        BY <4>3, <4>4
    <3>4. ASSUME ~counted.live
          PROVE  counted.shownRows = SubSeq(counted.shownAgg, 1, Window(Len(counted.shownAgg)))
      BY <1>2, <3>2, <3>4
    <3> QED
      BY <1>2, <3>3, <3>4
  <2> QED
    BY <1>2, <1>4, <2>1, <2>2, <2>3, <2>4 DEF DisplayOK
<1> QED
  BY <1>5, <1>6

-----------------------------------------------------------------------------
(* Handing one row on. *)
LEMMA ShownOf ==
    ASSUME NEW v, DisplayOK(v)
    PROVE  /\ v.agg \in Seq(Rows) /\ Len(v.agg) \in Nat /\ DOMAIN v.agg = 1 .. Len(v.agg)
           /\ v.shownAgg \in Seq(Rows)
  BY LenProperties DEF DisplayOK, Views

LEMMA FirstRowsGrow ==
    ASSUME NEW s \in Seq(Rows), FirstRows(s), run \in Runs,
           \A i \in DOMAIN s : s[i][1] = run
    PROVE  LET t == Append(s, <<run, Len(s) + 1>>)
           IN /\ t \in Seq(Rows) /\ Len(t) = Len(s) + 1 /\ FirstRows(t)
              /\ \A i \in DOMAIN t : t[i][1] = run
<1> DEFINE row == <<run, Len(s) + 1>>
           t == Append(s, row)
<1>1. Len(s) \in Nat /\ row \in Rows /\ DOMAIN s = 1 .. Len(s)
      /\ row[1] = run /\ row[2] = Len(s) + 1
  BY LenProperties DEF Rows
<1>2. /\ t \in Seq(Rows) /\ Len(t) = Len(s) + 1 /\ t[Len(s) + 1] = row
      /\ \A i \in 1 .. Len(s) : t[i] = s[i]
  BY <1>1, AppendProperties
<1>3. DOMAIN t = 1 .. Len(s) + 1
  BY <1>2, LenProperties
<1> HIDE DEF t, row
<1>4. ASSUME NEW i \in DOMAIN t
      PROVE  t[i][1] = run /\ t[i][2] = i
  <2>1. CASE i = Len(s) + 1
    BY <1>1, <1>2, <2>1
  <2>2. CASE i # Len(s) + 1
    <3>1. i \in 1 .. Len(s)
      BY <1>1, <1>3, <2>2
    <3> QED
      BY <1>1, <1>2, <3>1 DEF FirstRows
  <2> QED
    BY <2>1, <2>2
<1> QED
  BY <1>2, <1>4 DEF FirstRows, t, row

LEMMA HandOn ==
    ASSUME run \in Runs, mode \in {"view", "export"},
           NEW v, NEW c, NEW k \in Nat, Handed(v, c, k)
    PROVE  Handed(Viewed(v, <<run, k + 1>>), Collected(c, <<run, k + 1>>), k + 1)
<1> DEFINE row == <<run, k + 1>>
<1>1. row \in Rows
  BY DEF Rows
<1>2. CASE mode = "view"
  <2>1. Viewed(v, row) = ViewRow(v, row) /\ Collected(c, row) = c
    BY <1>2 DEF Viewed, Collected
  <2>2. DisplayOK(v) /\ Len(v.agg) = k /\ FirstRows(v.agg)
        /\ \A i \in DOMAIN v.agg : v.agg[i][1] = run
    BY <1>2 DEF Handed
  <2>3. DisplayOK(ViewRow(v, row)) /\ ViewRow(v, row).agg = Append(v.agg, row)
    BY <1>1, <2>2, ViewRowKeeps
  <2>4. /\ Len(Append(v.agg, row)) = k + 1 /\ FirstRows(Append(v.agg, row))
        /\ \A i \in DOMAIN Append(v.agg, row) : Append(v.agg, row)[i][1] = run
    BY <2>2, ShownOf, FirstRowsGrow
  <2> QED
    BY <1>2, <2>1, <2>3, <2>4 DEF Handed
<1>3. CASE mode = "export"
  <2>1. Viewed(v, row) = v /\ Collected(c, row) = Append(c, row)
    BY <1>3 DEF Viewed, Collected
  <2>2. c \in Seq(Rows) /\ Len(c) = k /\ FirstRows(c) /\ \A i \in DOMAIN c : c[i][1] = run
    BY <1>3 DEF Handed
  <2>3. /\ Append(c, row) \in Seq(Rows) /\ Len(Append(c, row)) = k + 1
        /\ FirstRows(Append(c, row))
        /\ \A i \in DOMAIN Append(c, row) : Append(c, row)[i][1] = run
    BY <2>2, FirstRowsGrow
  <2> QED
    BY <1>3, <2>1, <2>3 DEF Handed
<1> QED
  BY <1>2, <1>3

-----------------------------------------------------------------------------
(***************************************************************************)
(* The reader.  After i turns of its loop the first i rows of a text that  *)
(* begins at a row are handed on, and the rest of the text is left.        *)
(***************************************************************************)
FollowsFrom(text, n) == \A j \in DOMAIN text : IsPiece(text[j], n + j - 1)

ParseAt(p, text, k, i) ==
    /\ p \in Parses /\ p.ok
    /\ p.text = SubSeq(text, 3 * i + 1, Len(text))
    /\ Handed(p.view, p.lines, k + i)

LEMMA TailOf ==
    ASSUME NEW S, NEW text \in Seq(S), NEW m \in 0 .. Len(text)
    PROVE  LET t == SubSeq(text, m + 1, Len(text))
           IN /\ t \in Seq(S) /\ Len(t) = Len(text) - m /\ DOMAIN t = 1 .. Len(text) - m
              /\ \A j \in 1 .. Len(text) - m : t[j] = text[m + j]
<1> DEFINE t == SubSeq(text, m + 1, Len(text))
<1>1. Len(text) \in Nat /\ m \in Nat /\ m <= Len(text)
  BY LenProperties
<1>2. t \in Seq(S) /\ Len(t) = Len(text) - m
      /\ \A j \in 1 .. Len(text) - m : t[j] = text[m + j]
  <2>1. CASE m = Len(text)
    BY <1>1, <2>1, SubSeqProperties
  <2>2. CASE m # Len(text)
    BY <1>1, <2>2, SubSeqProperties
  <2> QED
    BY <2>1, <2>2
<1> QED
  BY <1>2, LenProperties

LEMMA PieceIs ==
    ASSUME NEW m, NEW k \in Nat, NEW j \in 1 .. 3, IsPiece(m, 3 * k + j - 1)
    PROVE  m \in Pieces /\ m.part = j /\ m.row = <<run, k + 1>>
<1>1. m \in Pieces /\ m.part \in 1 .. 3 /\ m.row \in Rows /\ m.row[1] = run
  BY DEF IsPiece, Pieces
<1>2. m.row[2] \in Nat /\ m.row = <<run, m.row[2]>>
  BY <1>1, Sizes DEF Rows
<1>3. 3 * k + j - 1 = 3 * (m.row[2] - 1) + m.part - 1
  BY DEF IsPiece
<1>4. \A n \in Nat, p \in 1 .. 3 : 3 * k + j - 1 = 3 * (n - 1) + p - 1 => p = j /\ n = k + 1
  OBVIOUS
<1>5. m.part = j /\ m.row[2] = k + 1
  BY <1>1, <1>2, <1>3, <1>4
<1> QED
  BY <1>1, <1>2, <1>5

LEMMA LineOfTwo ==
    ASSUME NEW text \in Seq(Pieces), NEW k \in Nat, FollowsFrom(text, 3 * k), Len(text) = 2
    PROVE  text # <<>> /\ IsRow(text) /\ text[1].row = <<run, k + 1>>
<1>1. 1 \in DOMAIN text /\ 2 \in DOMAIN text
  BY LenProperties
<1>2. IsPiece(text[1], 3 * k + 1 - 1) /\ IsPiece(text[2], 3 * k + 2 - 1)
  BY <1>1 DEF FollowsFrom
<1>3. text[1].part = 1 /\ text[1].row = <<run, k + 1>>
  BY <1>2, PieceIs
<1>4. text[2].part = 2 /\ text[2].row = <<run, k + 1>>
  BY <1>2, PieceIs
<1>5. text # <<>>
  BY LenProperties
<1> QED
  BY <1>3, <1>4, <1>5 DEF IsRow

LEMMA FirstNewline ==
    ASSUME NEW text \in Seq(Pieces), NEW k \in Nat, FollowsFrom(text, 3 * k)
    PROVE  /\ Len(text) < 3 => Newlines(text) = {}
           /\ Len(text) >= 3 => Newlines(text) # {} /\ Min(Newlines(text)) = 3
<1>1. Len(text) \in Nat /\ DOMAIN text = 1 .. Len(text)
  BY LenProperties
<1>2. ASSUME NEW j \in DOMAIN text, j <= 3
      PROVE  j \in Newlines(text) <=> j = 3
  <2>1. j \in 1 .. 3 /\ IsPiece(text[j], 3 * k + j - 1)
    BY <1>1, <1>2 DEF FollowsFrom
  <2>2. text[j].part = j
    BY <2>1, PieceIs
  <2> QED
    BY <2>2 DEF Newlines, NewlinePart
<1>3. Newlines(text) \subseteq 1 .. Len(text)
  BY <1>1 DEF Newlines
<1>4. CASE Len(text) < 3
  BY <1>1, <1>2, <1>3, <1>4
<1>5. CASE Len(text) >= 3
  <2>1. 3 \in Newlines(text)
    BY <1>1, <1>2, <1>5
  <2>2. \A j \in Newlines(text) : 3 <= j
    BY <1>1, <1>2, <1>3
  <2>3. \A x \in Newlines(text) : (\A y \in Newlines(text) : x <= y) <=> x = 3
    BY <1>3, <2>1, <2>2
  <2> QED
    BY <1>5, <2>1, <2>3 DEF Min
<1> QED
  BY <1>1, <1>4, <1>5

(* A turn of the loop hands one row on, or finds no newline. *)
LEMMA TurnOfTheLoop ==
    ASSUME run \in Runs, mode \in {"view", "export"},
           NEW text \in Seq(Pieces), NEW k \in Nat, FollowsFrom(text, 3 * k),
           NEW i \in Nat, 3 * i <= Len(text), NEW p, ParseAt(p, text, k, i)
    PROVE  /\ 3 * (i + 1) <= Len(text) => ParseAt(TakeLine(p), text, k, i + 1)
           /\ ~ (3 * (i + 1) <= Len(text)) => TakeLine(p) = p
<1> DEFINE t == p.text
           row == <<run, k + i + 1>>
<1>1. Len(text) \in Nat /\ DOMAIN text = 1 .. Len(text) /\ 3 * i \in 0 .. Len(text)
  BY LenProperties
<1>2. /\ t = SubSeq(text, 3 * i + 1, Len(text))
      /\ t \in Seq(Pieces) /\ Len(t) = Len(text) - 3 * i /\ DOMAIN t = 1 .. Len(text) - 3 * i
      /\ \A j \in 1 .. Len(text) - 3 * i : t[j] = text[3 * i + j]
  <2>1. t = SubSeq(text, 3 * i + 1, Len(text))
    BY DEF ParseAt
  <2> HIDE DEF t
  <2> QED
    BY <1>1, <2>1, TailOf
<1>3. p \in Parses /\ p.ok /\ Handed(p.view, p.lines, k + i)
  BY DEF ParseAt
<1> HIDE DEF t
<1>4. FollowsFrom(t, 3 * (k + i))
  <2> SUFFICES ASSUME NEW j \in DOMAIN t
               PROVE  IsPiece(t[j], 3 * (k + i) + j - 1)
    BY DEF FollowsFrom
  <2>1. 3 * i + j \in DOMAIN text /\ t[j] = text[3 * i + j]
    BY <1>1, <1>2
  <2>2. IsPiece(text[3 * i + j], 3 * k + (3 * i + j) - 1)
    BY <2>1 DEF FollowsFrom
  <2>3. 3 * k + (3 * i + j) - 1 = 3 * (k + i) + j - 1
    BY <1>2
  <2> QED
    BY <2>1, <2>2, <2>3
<1>5. /\ Len(t) < 3 => Newlines(t) = {}
      /\ Len(t) >= 3 => Newlines(t) # {} /\ Min(Newlines(t)) = 3
  <2>1. k + i \in Nat
    OBVIOUS
  <2> QED
    BY <1>2, <1>4, <2>1, FirstNewline
<1>6. CASE ~ (3 * (i + 1) <= Len(text))
  <2>1. Len(t) < 3
    BY <1>1, <1>2, <1>6
  <2> QED
    BY <1>5, <1>6, <2>1 DEF TakeLine, t
<1>7. CASE 3 * (i + 1) <= Len(text)
  <2> DEFINE line == SubSeq(t, 1, 2)
             rest == SubSeq(t, 4, Len(t))
  <2>1. Len(t) >= 3 /\ 2 \in 0 .. Len(t)
    BY <1>1, <1>2, <1>7
  <2>2. line \in Seq(Pieces) /\ Len(line) = 2 /\ FollowsFrom(line, 3 * (k + i))
    <3>1. /\ line \in Seq(Pieces) /\ Len(line) = 2
          /\ \A j \in 1 .. 2 : line[j] = t[j]
      BY <1>2, <2>1, Headed
    <3>2. DOMAIN line = 1 .. 2
      BY <3>1, LenProperties
    <3>3. 1 .. 2 \subseteq DOMAIN t
      BY <1>1, <1>2, <2>1
    <3> HIDE DEF line
    <3> QED
      BY <1>4, <3>1, <3>2, <3>3 DEF FollowsFrom
  <2>3. line # <<>> /\ IsRow(line) /\ line[1].row = row
    <3>1. k + i \in Nat
      OBVIOUS
    <3> HIDE DEF line
    <3> QED
      BY <2>2, <3>1, LineOfTwo
  <2>4. rest = SubSeq(text, 3 * (i + 1) + 1, Len(text)) /\ rest \in Seq(Pieces)
    <3>1. /\ rest \in Seq(Pieces) /\ Len(rest) = Len(t) - 3
          /\ \A j \in 1 .. Len(t) - 3 : rest[j] = t[3 + j]
      BY <1>1, <1>2, <2>1, TailOf, SMTT(30)
    <3> DEFINE rest2 == SubSeq(text, 3 * (i + 1) + 1, Len(text))
    <3>2. /\ rest2 \in Seq(Pieces) /\ Len(rest2) = Len(text) - 3 * (i + 1)
          /\ \A j \in 1 .. Len(text) - 3 * (i + 1) : rest2[j] = text[3 * (i + 1) + j]
      <4>1. 3 * (i + 1) \in 0 .. Len(text)
        BY <1>1, <1>7
      <4> QED
        BY <4>1, TailOf
    <3> HIDE DEF rest, rest2
    <3>3. Len(rest) = Len(rest2)
      BY <1>1, <1>2, <3>1, <3>2
    <3>4. ASSUME NEW j \in 1 .. Len(rest)
          PROVE  rest[j] = rest2[j]
      <4>1. j \in 1 .. Len(t) - 3 /\ 3 + j \in 1 .. Len(text) - 3 * i
            /\ j \in 1 .. Len(text) - 3 * (i + 1) /\ 3 * i + (3 + j) = 3 * (i + 1) + j
        BY <1>1, <1>2, <3>1
      <4> QED
        BY <1>2, <3>1, <3>2, <4>1
    <3>5. rest = rest2
      BY <3>1, <3>2, <3>3, <3>4, SeqEqual
    <3> QED
      BY <3>1, <3>5 DEF rest2
  <2> DEFINE next == [p EXCEPT !.text = rest]
             taken == [next EXCEPT !.view = Viewed(@, row), !.lines = Collected(@, row)]
  <2>5. next \in Parses /\ next.text = rest /\ next.ok = p.ok
        /\ next.view = p.view /\ next.lines = p.lines
    BY <1>3, <2>4 DEF Parses
  <2>6. TakeLine(p) = taken
    <3>1. TakeLine(p) = OnLine(next, line)
      <4>1. 3 + 1 = 4 /\ 3 - 1 = 2
        OBVIOUS
      <4> QED
        BY <1>3, <1>5, <2>1, <4>1 DEF TakeLine, t
    <3> QED
      BY <2>3, <3>1 DEF OnLine
  <2>7. Handed(Viewed(p.view, row), Collected(p.lines, row), k + i + 1)
    BY <1>3, HandOn
  <2>8. Viewed(p.view, row) \in Views /\ Collected(p.lines, row) \in Seq(Rows)
    BY <2>7 DEF Handed, DisplayOK
  <2> DEFINE w == Viewed(p.view, row)
             c == Collected(p.lines, row)
  <2>9. taken = [next EXCEPT !.view = w, !.lines = c]
    BY <2>5 DEF Parses
  <2> HIDE DEF rest, next, w, c, row, taken
  <2>10. taken \in Parses /\ taken.ok = p.ok /\ taken.text = rest
         /\ taken.view = w /\ taken.lines = c
    BY <2>5, <2>8, <2>9 DEF Parses, w, c
  <2>11. taken \in Parses /\ taken.ok
    BY <1>3, <2>10
  <2>12. Handed(w, c, k + (i + 1))
    <3>1. k + i + 1 = k + (i + 1)
      OBVIOUS
    <3> QED
      BY <2>7, <3>1 DEF w, c
  <2> QED
    BY <1>7, <2>4, <2>6, <2>10, <2>11, <2>12 DEF ParseAt
<1> QED
  BY <1>6, <1>7

(***************************************************************************)
(* That the recursive function of Parsed exists, by the least length for   *)
(* which it did not.                                                       *)
(***************************************************************************)
Turns(g, text, n) ==
    g = [j \in 0 .. n |-> IF j = 0 THEN Parse(text) ELSE TakeLine(g[j - 1])]

LEMMA TurnsExist ==
    ASSUME NEW text
    PROVE  \A n \in Nat : \E g : Turns(g, text, n)
<1> DEFINE T == {n \in Nat : ~ \E g : Turns(g, text, n)}
<1>1. ASSUME NEW n \in T, \A m \in T : n <= m
      PROVE  FALSE
  <2>1. n \in Nat /\ ~ \E g : Turns(g, text, n)
    OBVIOUS
  <2>2. CASE n = 0
    <3> DEFINE g == [j \in 0 .. 0 |-> Parse(text)]
    <3>1. g = [j \in 0 .. 0 |-> IF j = 0 THEN Parse(text) ELSE TakeLine(g[j - 1])]
      OBVIOUS
    <3> QED
      BY <2>1, <2>2, <3>1 DEF Turns
  <2>3. CASE n # 0
    <3>1. n - 1 \in Nat /\ n - 1 \notin T
      BY <1>1, <2>1, <2>3
    <3>2. PICK g : Turns(g, text, n - 1)
      BY <3>1
    <3> DEFINE h == [j \in 0 .. n |-> IF j < n THEN g[j] ELSE TakeLine(g[n - 1])]
               again == [j \in 0 .. n |-> IF j = 0 THEN Parse(text) ELSE TakeLine(h[j - 1])]
    <3>3. \A j \in 0 .. n - 1 : g[j] = IF j = 0 THEN Parse(text) ELSE TakeLine(g[j - 1])
      BY <3>2 DEF Turns
    <3>4. ASSUME NEW j \in 0 .. n
          PROVE  h[j] = IF j = 0 THEN Parse(text) ELSE TakeLine(h[j - 1])
      <4>1. CASE j = n
        <5>1. h[j] = TakeLine(g[n - 1])
          BY <2>1, <4>1
        <5>2. h[j - 1] = g[n - 1] /\ j # 0
          BY <2>1, <2>3, <4>1
        <5> HIDE DEF h
        <5> QED
          BY <5>1, <5>2
      <4>2. CASE j # n
        <5>1. j \in 0 .. n - 1 /\ j < n
          BY <2>1, <4>2
        <5>2. h[j] = g[j]
          BY <5>1
        <5>3. j # 0 => h[j - 1] = g[j - 1]
          BY <2>1, <5>1
        <5> HIDE DEF h
        <5> QED
          BY <3>3, <5>1, <5>2, <5>3
      <4> QED
        BY <4>1, <4>2
    <3>5. h = again
      <4>1. \A j \in 0 .. n : h[j] = again[j]
        <5>1. \A j \in 0 .. n : again[j] = IF j = 0 THEN Parse(text) ELSE TakeLine(h[j - 1])
          OBVIOUS
        <5> HIDE DEF h, again
        <5> QED
          BY <3>4, <5>1
      <4>2. h = [j \in 0 .. n |-> h[j]] /\ again = [j \in 0 .. n |-> again[j]]
        OBVIOUS
      <4> HIDE DEF h, again
      <4> QED
        BY <4>1, <4>2
    <3>6. Turns(h, text, n)
      BY <3>5 DEF Turns
    <3> QED
      BY <2>1, <3>6
  <2> QED
    BY <2>2, <2>3
<1>2. T = {}
  <2>1. T \in SUBSET Nat
    OBVIOUS
  <2> HIDE DEF T
  <2> QED
    BY <1>1, <2>1, LeastNatural
<1> QED
  BY <1>2

(* All whole rows of a text are handed on, and what is left has no newline. *)
LEMMA ParsedIs ==
    ASSUME run \in Runs, mode \in {"view", "export"},
           NEW text \in Seq(Pieces), NEW k \in Nat, FollowsFrom(text, 3 * k),
           Handed(view, lines, k)
    PROVE  \E m \in Nat : /\ 3 * m <= Len(text) /\ Len(text) < 3 * (m + 1)
                          /\ ParseAt(Parsed(text), text, k, m)
<1> DEFINE L == Len(text)
           after == CHOOSE g : Turns(g, text, L)
           At(j) == \E i \in Nat : /\ 3 * i <= L /\ ParseAt(after[j], text, k, i)
                                   /\ i = j \/ L < 3 * (i + 1)
           T == {j \in Nat : j <= L /\ ~ At(j)}
<1>1. L \in Nat
  BY LenProperties
<1>2. Turns(after, text, L)
  BY <1>1, TurnsExist
<1>3. Parsed(text) = after[L]
  BY DEF Parsed, Turns
<1> HIDE DEF after
<1>4. ASSUME NEW j \in 0 .. L
      PROVE  after[j] = IF j = 0 THEN Parse(text) ELSE TakeLine(after[j - 1])
  BY <1>2 DEF Turns
<1>5. ASSUME NEW j \in T, \A n \in T : j <= n
      PROVE  FALSE
  <2>1. j \in 0 .. L /\ ~ At(j)
    BY <1>1
  <2>2. CASE j = 0
    <3>1. after[0] = Parse(text)
      BY <1>1, <1>4
    <3>2. Parse(text) \in Parses /\ Parse(text).ok /\ Parse(text).text = text
          /\ Parse(text).view = view /\ Parse(text).lines = lines
      BY DEF Parse, Parses, Handed, DisplayOK
    <3>3. text = SubSeq(text, 3 * 0 + 1, Len(text))
      <4>1. SubSeq(text, 0 + 1, Len(text)) \in Seq(Pieces)
            /\ Len(SubSeq(text, 0 + 1, Len(text))) = Len(text) - 0
            /\ \A n \in 1 .. Len(text) - 0 : SubSeq(text, 0 + 1, Len(text))[n] = text[0 + n]
        BY <1>1, TailOf
      <4>2. \A n \in 1 .. Len(text) : SubSeq(text, 0 + 1, Len(text))[n] = text[n]
        BY <1>1, <4>1
      <4>3. text = SubSeq(text, 0 + 1, Len(text))
        BY <1>1, <4>1, <4>2, SeqEqual
      <4>4. 3 * 0 + 1 = 0 + 1
        OBVIOUS
      <4> QED
        BY <4>3, <4>4
    <3>4. ParseAt(after[0], text, k, 0)
      BY <3>1, <3>2, <3>3 DEF ParseAt
    <3> QED
      BY <1>1, <2>1, <2>2, <3>4
  <2>3. CASE j # 0
    <3>1. j - 1 \in Nat /\ j - 1 <= L /\ j - 1 \notin T
      <4>1. j - 1 \in Nat /\ j - 1 <= L /\ ~ (j <= j - 1)
        BY <1>1, <2>1, <2>3
      <4> HIDE DEF T
      <4> QED
        BY <1>5, <4>1
    <3>2. At(j - 1)
      BY <3>1
    <3>3. PICK i \in Nat : /\ 3 * i <= L /\ ParseAt(after[j - 1], text, k, i)
                           /\ i = j - 1 \/ L < 3 * (i + 1)
      BY <3>2
    <3>4. after[j] = TakeLine(after[j - 1])
      BY <1>4, <2>1, <2>3
    <3>5. /\ 3 * (i + 1) <= Len(text) => ParseAt(TakeLine(after[j - 1]), text, k, i + 1)
          /\ ~ (3 * (i + 1) <= Len(text)) => TakeLine(after[j - 1]) = after[j - 1]
      BY <3>3, TurnOfTheLoop
    <3>6. CASE 3 * (i + 1) <= Len(text)
      <4>1. ParseAt(after[j], text, k, i + 1)
        BY <3>4, <3>5, <3>6
      <4>2. i + 1 = j /\ i + 1 \in Nat
        BY <1>1, <2>1, <3>3, <3>6
      <4> QED
        BY <2>1, <3>6, <4>1, <4>2
    <3>7. CASE ~ (3 * (i + 1) <= Len(text))
      <4>1. ParseAt(after[j], text, k, i)
        BY <3>3, <3>4, <3>5, <3>7
      <4>2. L < 3 * (i + 1)
        BY <1>1, <3>7
      <4> QED
        BY <2>1, <3>3, <4>1, <4>2
    <3> QED
      BY <3>6, <3>7
  <2> QED
    BY <2>2, <2>3
<1>6. T = {}
  <2>1. T \in SUBSET Nat
    OBVIOUS
  <2> HIDE DEF T
  <2> QED
    BY <1>5, <2>1, LeastNatural
<1>7. PICK m \in Nat : /\ 3 * m <= L /\ ParseAt(after[L], text, k, m)
                       /\ m = L \/ L < 3 * (m + 1)
  BY <1>1, <1>6
<1>8. L < 3 * (m + 1)
  BY <1>1, <1>7
<1> QED
  BY <1>3, <1>7, <1>8

-----------------------------------------------------------------------------
LEMMA InitInv == Init => IInv
<1> SUFFICES ASSUME Init PROVE IInv
  OBVIOUS
<1>1. run = 0 /\ ~running /\ mode = "view" /\ view = EmptyView /\ lines = <<>> /\ file = NoFile
      /\ outcome = "none" /\ 0 \in 0 .. MaxRuns
  BY Sizes DEF Init
<1>2. Idle \in Hosts /\ Idle.item = 0 /\ Idle.state = "idle"
  BY DEF Idle, Hosts
<1>3. Typed
  <2>1. host \in [Runs -> Hosts] /\ conn \in [Runs -> Conns]
    BY <1>2 DEF Init, Conns
  <2>2. wire \in [Runs -> Seq(IF transport = "http" THEN Pieces ELSE Rows)]
    <3> DEFINE Messages == IF transport = "http" THEN Pieces ELSE Rows
    <3>1. <<>> \in Seq(Messages)
      BY EmptySeq
    <3> HIDE DEF Messages
    <3>2. wire \in [Runs -> Seq(Messages)]
      BY <3>1 DEF Init
    <3> QED
      BY <3>2 DEF Messages
  <2>3. buffer \in Seq(Pieces)
    BY EmptySeq DEF Init
  <2> QED
    BY <1>1, <2>1, <2>2, <2>3 DEF Init, Typed
<1>4. HostsKeepWithin /\ Untouched
  <2>1. \A r \in Runs : host[r] = Idle /\ wire[r] = <<>> /\ conn[r] = "open"
    BY DEF Init
  <2> QED
    BY <1>2, <2>1, Sizes DEF HostsKeepWithin, Untouched
<1>5. DisplayOK(EmptyView) /\ EmptyView.agg = <<>> /\ ShownAgg(EmptyView) = <<>>
  <2>1. /\ EmptyView \in Views /\ EmptyView.agg = <<>> /\ EmptyView.rows = <<>>
        /\ EmptyView.sinceFlush = 0 /\ EmptyView.live /\ EmptyView.shownRows = <<>>
    BY DEF EmptyView, Views
  <2>2. Len(<<>>) = 0 /\ Window(0) = 0 /\ SubSeq(<<>>, 1, 0) = <<>>
    BY WindowIs, SubSeqEmpty
  <2> QED
    BY <2>1, <2>2, Sizes DEF DisplayOK, ShownAgg
<1>6. Handed(view, lines, Count)
  BY <1>1, <1>5 DEF Handed, FirstRows, Count
<1> QED
  BY <1>1, <1>3, <1>4, <1>5, <1>6 DEF IInv, Flowing, Over

-----------------------------------------------------------------------------
(***************************************************************************)
(* Steps of the hosts, which leave the page alone.                         *)
(***************************************************************************)
LEMMA PageLeftAlone ==
    ASSUME IInv, UNCHANGED clientVars, UNCHANGED <<transport, crashed>>
    PROVE  Handed(view, lines, Count)' /\ Over' /\ Count' = Count
  BY DEF IInv, clientVars, abortVars, Handed, DisplayOK, FirstRows, ShownAgg, Over, Count, Cut

LEMMA FlowsOn ==
    ASSUME IInv, UNCHANGED clientVars, UNCHANGED <<transport, crashed>>,
           running => host'[run] = host[run] /\ wire'[run] = wire[run] /\ conn'[run] = conn[run]
    PROVE  Flowing'
<1> SUFFICES ASSUME running PROVE Flowing'
  BY DEF Flowing, clientVars
<1>1. /\ host'[run] = host[run] /\ wire'[run] = wire[run] /\ conn'[run] = conn[run]
      /\ Count' = Count
  BY DEF Count, clientVars
<1>2. outcome = "none" /\ file = NoFile /\ NotAsked
      /\ (transport = "http" => PiecesInOrder)
      /\ (transport = "tauri" /\ ~ignoring => RowsInOrder)
  BY DEF IInv, Flowing
<1>3. NotAsked'
  BY <1>1, <1>2 DEF NotAsked, clientVars, abortVars
<1>4. PiecesInOrder => PiecesInOrder'
  BY <1>1 DEF PiecesInOrder, IsPiece, clientVars
<1>5. RowsInOrder => RowsInOrder'
  BY <1>1 DEF RowsInOrder, clientVars
<1> QED
  BY <1>2, <1>3, <1>4, <1>5 DEF Flowing, clientVars, abortVars

(* A step of the thread that serves run r: what it owes is the order of    *)
(* the response, if r is the latest run.                                   *)
LEMMA HostMoves ==
    ASSUME IInv, NEW r \in Runs, NEW h \in Hosts, NEW w, NEW c \in Conns,
           w \in Seq(IF transport = "http" THEN Pieces ELSE Rows),
           host[r].state # "idle",
           host' = [host EXCEPT ![r] = h], wire' = [wire EXCEPT ![r] = w],
           conn' = [conn EXCEPT ![r] = c],
           UNCHANGED <<transport, crashed>>, UNCHANGED clientVars,
           h.state \in {"sending", "done"}, h.item <= Total,
           h.state = "sending" /\ h.item = Total => h.part = 1,
           running /\ r = run /\ transport = "http" /\ PiecesInOrder => PiecesInOrder',
           running /\ r = run /\ transport = "tauri" /\ RowsInOrder => RowsInOrder'
    PROVE  IInv'
<1>1. host \in [Runs -> Hosts] /\ conn \in [Runs -> Conns]
      /\ wire \in [Runs -> Seq(IF transport = "http" THEN Pieces ELSE Rows)]
      /\ run \in Nat /\ running \in BOOLEAN /\ (running => run \in Runs)
  BY Sizes DEF IInv, Typed
<1>2. /\ host'[r] = h /\ wire'[r] = w /\ conn'[r] = c
      /\ \A q \in Runs : q # r => host'[q] = host[q] /\ wire'[q] = wire[q] /\ conn'[q] = conn[q]
  BY <1>1
<1>3. Typed'
  <2> DEFINE Messages == IF transport = "http" THEN Pieces ELSE Rows
  <2>1. wire \in [Runs -> Seq(Messages)] /\ w \in Seq(Messages)
    BY <1>1
  <2> HIDE DEF Messages
  <2>2. wire' \in [Runs -> Seq(Messages)]
    BY <2>1
  <2>3. wire' \in [Runs -> Seq(IF transport' = "http" THEN Pieces ELSE Rows)]
    BY <2>2 DEF Messages
  <2>4. host' \in [Runs -> Hosts] /\ conn' \in [Runs -> Conns]
    BY <1>1
  <2> QED
    BY <2>3, <2>4 DEF IInv, Typed, clientVars, abortVars
<1>4. HostsKeepWithin'
  BY <1>2 DEF IInv, HostsKeepWithin, Total
<1>5. Untouched'
  <2>1. ~ (r > run)
    BY DEF IInv, Untouched, Idle
  <2> QED
    BY <1>2, <2>1 DEF IInv, Untouched, clientVars
<1>6. Flowing'
  <2>1. CASE running /\ r = run
    <3>1. outcome = "none" /\ file = NoFile /\ calling
          /\ (transport = "http" => PiecesInOrder)
          /\ (transport = "tauri" /\ ~ignoring => RowsInOrder)
      BY <2>1 DEF IInv, Flowing, NotAsked, Idle
    <3>2. host'[run'] = h /\ calling'
      BY <1>2, <2>1, <3>1 DEF clientVars, abortVars
    <3>3. NotAsked'
      BY <3>2 DEF NotAsked
    <3> QED
      BY <2>1, <3>1, <3>3 DEF Flowing, clientVars, abortVars
  <2>2. CASE ~ (running /\ r = run)
    BY <1>1, <1>2, <2>2, FlowsOn
  <2> QED
    BY <2>1, <2>2
<1> QED
  BY <1>3, <1>4, <1>5, <1>6, PageLeftAlone DEF IInv

(* Steps that send nothing. *)
LEMMA SilentMove ==
    ASSUME IInv, NEW r \in Runs, NEW h \in Hosts, NEW c \in Conns,
           host[r].state # "idle",
           host' = [host EXCEPT ![r] = h], conn' = [conn EXCEPT ![r] = c],
           UNCHANGED <<transport, crashed, wire>>, UNCHANGED clientVars,
           h.state \in {"sending", "done"}, h.item = 0, h.part = 1,
           h.state = "sending" => host[r].state = "asked" /\ c = conn[r],
           c = "ended" => conn[r] = "ended" \/ (conn[r] = "open" /\ host[r].state = "sending"
                                                                  /\ host[r].item = Total)
    PROVE  IInv'
<1>1. /\ host \in [Runs -> Hosts] /\ conn \in [Runs -> Conns]
      /\ wire \in [Runs -> Seq(IF transport = "http" THEN Pieces ELSE Rows)]
      /\ h.item <= Total /\ Total \in Nat
  BY Sizes DEF IInv, Typed
<1>2. /\ wire[r] \in Seq(IF transport = "http" THEN Pieces ELSE Rows)
      /\ wire' = [wire EXCEPT ![r] = wire[r]]
      /\ host'[r] = h /\ conn'[r] = c /\ wire'[r] = wire[r]
  BY <1>1
<1>3. Count' = Count /\ buffer' = buffer /\ run' = run /\ crashed' = crashed
  BY PageLeftAlone DEF clientVars
<1>4. ASSUME running, r = run, h.state = "sending"
      PROVE  Count = 0 /\ buffer = <<>> /\ wire[run] = <<>> /\ Len(<<>>) = 0
  BY <1>4 DEF IInv, Flowing, NotAsked
<1>5. host[r].state = "sending" /\ host[r].item = Total => host[r].part = 1
  BY DEF IInv, HostsKeepWithin
<1>6. ASSUME running, r = run, transport = "http", PiecesInOrder
      PROVE  PiecesInOrder'
  <2> DEFINE read == 3 * Count + Len(buffer)
  <2>1. /\ Len(buffer) < 3
        /\ \A j \in DOMAIN buffer : IsPiece(buffer[j], 3 * Count + j - 1)
        /\ \A j \in DOMAIN wire[run] : IsPiece(wire[run][j], read + j - 1)
        /\ host[run].state = "sending" /\ conn[run] = "open" =>
              read + Len(wire[run]) = 3 * host[run].item + host[run].part - 1
        /\ conn[run] = "ended" /\ ~crashed => read + Len(wire[run]) = 3 * Total
    BY <1>6 DEF PiecesInOrder
  <2>2. h.state = "sending" => read + Len(wire[run]) = 3 * h.item + h.part - 1
    BY <1>4, <1>6
  <2>3. c = "ended" /\ ~crashed => read + Len(wire[run]) = 3 * Total
    BY <1>1, <1>5, <1>6, <2>1
  <2> QED
    BY <1>2, <1>3, <1>6, <2>1, <2>2, <2>3 DEF PiecesInOrder, IsPiece, Total
<1>7. ASSUME running, r = run, transport = "tauri", RowsInOrder
      PROVE  RowsInOrder'
  <2>1. h.state = "sending" => Count + Len(wire[run]) = h.item
    BY <1>4, <1>7
  <2>2. c = "ended" => Count + Len(wire[run]) = Total
    BY <1>7 DEF RowsInOrder
  <2> QED
    BY <1>2, <1>3, <1>7, <2>1, <2>2 DEF RowsInOrder, Total
<1>8. h.state = "sending" /\ h.item = Total => h.part = 1
  OBVIOUS
<1>9. UNCHANGED <<transport, crashed>>
  OBVIOUS
<1> QED
  BY <1>1, <1>2, <1>6, <1>7, <1>8, <1>9, HostMoves

LEMMA SilentKeeps ==
    ASSUME IInv, NEW r \in Runs, Accept(r) \/ Refuse(r) \/ End(r) \/ SendFails(r)
    PROVE  IInv'
<1> DEFINE Done == [state |-> "done", item |-> 0, part |-> 1]
           Sending == [state |-> "sending", item |-> 0, part |-> 1]
<1>1. Done \in Hosts /\ Sending \in Hosts /\ Done.state = "done" /\ Sending.state = "sending"
      /\ Done.item = 0 /\ Done.part = 1 /\ Sending.item = 0 /\ Sending.part = 1
  BY DEF Hosts
<1>2. conn \in [Runs -> Conns] /\ conn[r] \in Conns /\ conn = [conn EXCEPT ![r] = conn[r]]
  BY DEF IInv, Typed
<1>3. CASE Accept(r)
  <2>1. /\ host[r].state = "asked" /\ host' = [host EXCEPT ![r] = Sending]
        /\ conn' = [conn EXCEPT ![r] = conn[r]]
        /\ UNCHANGED <<transport, crashed, wire>> /\ UNCHANGED clientVars
    BY <1>2, <1>3 DEF Accept, HostIs
  <2> HIDE DEF Sending
  <2> QED
    BY <1>1, <1>2, <2>1, SilentMove
<1>4. CASE Refuse(r)
  <2> DEFINE c == IF conn[r] = "open" THEN "refused" ELSE conn[r]
  <2>1. /\ host[r].state = "asked" /\ host' = [host EXCEPT ![r] = Done]
        /\ conn' = [conn EXCEPT ![r] = c]
        /\ UNCHANGED <<transport, crashed, wire>> /\ UNCHANGED clientVars
    BY <1>2, <1>4 DEF Refuse, HostIs
  <2>2. c \in Conns /\ (c = "ended" => conn[r] = "ended")
    BY <1>2 DEF Conns
  <2> HIDE DEF Done, c
  <2> QED
    BY <1>1, <2>1, <2>2, SilentMove
<1>5. CASE End(r)
  <2> DEFINE c == IF conn[r] = "open" THEN "ended" ELSE conn[r]
  <2>1. /\ host[r].state = "sending" /\ host[r].item = Total /\ host' = [host EXCEPT ![r] = Done]
        /\ conn' = [conn EXCEPT ![r] = c]
        /\ UNCHANGED <<transport, crashed, wire>> /\ UNCHANGED clientVars
    BY <1>2, <1>5 DEF End, HostIs
  <2>2. c \in Conns /\ (c = "ended" => conn[r] \in {"ended", "open"})
    BY <1>2 DEF Conns
  <2> HIDE DEF Done, c
  <2> QED
    BY <1>1, <2>1, <2>2, SilentMove
<1>6. CASE SendFails(r)
  <2>1. /\ host[r].state = "sending" /\ conn[r] = "dropped" /\ host' = [host EXCEPT ![r] = Done]
        /\ conn' = [conn EXCEPT ![r] = conn[r]]
        /\ UNCHANGED <<transport, crashed, wire>> /\ UNCHANGED clientVars
    BY <1>2, <1>6 DEF SendFails, HostIs
  <2> HIDE DEF Done
  <2> QED
    BY <1>1, <1>2, <2>1, SilentMove
<1> QED
  BY <1>3, <1>4, <1>5, <1>6

LEMMA SendKeeps ==
    ASSUME IInv, NEW r \in Runs, Send(r)
    PROVE  IInv'
<1> DEFINE item == host[r].item
           part == host[r].part
           row == <<r, item + 1>>
           message == IF transport = "tauri" THEN row ELSE [row |-> row, part |-> part]
           w == IF conn[r] = "open" THEN Append(wire[r], message) ELSE wire[r]
           whole == transport = "tauri" \/ part = NewlinePart
           h == IF whole THEN [state |-> "sending", item |-> item + 1, part |-> 1]
                ELSE [state |-> "sending", item |-> item, part |-> part + 1]
           Messages == IF transport = "http" THEN Pieces ELSE Rows
<1>1. /\ host \in [Runs -> Hosts] /\ conn \in [Runs -> Conns] /\ conn[r] \in Conns
      /\ wire \in [Runs -> Seq(Messages)] /\ wire[r] \in Seq(Messages)
      /\ item \in Nat /\ part \in 1 .. 3 /\ Total \in Nat /\ transport \in {"http", "tauri"}
  BY Sizes DEF IInv, Typed, Hosts
<1>2. host[r].state = "sending" /\ item < Total
  BY DEF Send
<1>3. wire' = [wire EXCEPT ![r] = w]
  BY DEF Send
<1>4. host' = [host EXCEPT ![r] = h]
  BY DEF Send, Sent, HostIs
<1>5. /\ conn' = [conn EXCEPT ![r] = conn[r]]
      /\ UNCHANGED <<transport, crashed>> /\ UNCHANGED clientVars
  BY <1>1 DEF Send
<1>6. row \in Rows /\ message \in Messages /\ row[1] = r /\ row[2] = item + 1
  <2>1. row \in Rows
    BY <1>1 DEF Rows
  <2> QED
    BY <1>1, <2>1 DEF Pieces
<1>7. w \in Seq(Messages)
  BY <1>1, <1>6, AppendProperties
<1>8. /\ h \in Hosts /\ h.state = "sending" /\ h.item <= Total
      /\ h.item = Total => h.part = 1
      /\ 3 * h.item + h.part - 1 = IF transport = "http" THEN 3 * item + part ELSE 3 * (item + 1)
      /\ transport = "tauri" => h.item = item + 1
  <2>1. CASE whole
    <3> DEFINE to == [state |-> "sending", item |-> item + 1, part |-> 1]
    <3>1. h = to /\ (transport = "http" => part = 3)
      BY <2>1 DEF NewlinePart
    <3> HIDE DEF h, item, part
    <3>2. to \in Hosts /\ to.state = "sending" /\ to.item = item + 1 /\ to.part = 1
      BY <1>1 DEF Hosts
    <3>3. item + 1 <= Total /\ 3 * (item + 1) + 1 - 1 = 3 * (item + 1)
      BY <1>1, <1>2
    <3>4. part = 3 => 3 * (item + 1) = 3 * item + part
      BY <1>1
    <3> HIDE DEF to
    <3> QED
      BY <1>1, <3>1, <3>2, <3>3, <3>4
  <2>2. CASE ~whole
    BY <1>1, <1>2, <2>2 DEF Hosts, NewlinePart
  <2> QED
    BY <2>1, <2>2
<1>9. host'[r] = h /\ wire'[r] = w /\ conn'[r] = conn[r]
  BY <1>1, <1>3, <1>4, <1>5
<1>10. Count' = Count /\ Count \in Nat /\ buffer' = buffer /\ run' = run /\ crashed' = crashed
       /\ Len(buffer) \in Nat /\ Len(wire[r]) \in Nat
  <2>1. Count \in Nat
    BY ShownOf, LenProperties DEF IInv, Handed, Count
  <2> QED
    BY <1>1, <1>5, <2>1, PageLeftAlone, LenProperties DEF clientVars, IInv, Typed
<1> HIDE DEF w, h
<1>11. CASE conn[r] = "open"
  <2>1. /\ w \in Seq(Messages) /\ Len(w) = Len(wire[r]) + 1 /\ w[Len(wire[r]) + 1] = message
        /\ \A j \in 1 .. Len(wire[r]) : w[j] = wire[r][j]
        /\ DOMAIN w = 1 .. Len(wire[r]) + 1 /\ DOMAIN wire[r] = 1 .. Len(wire[r])
    <3> HIDE DEF message, Messages
    <3>1. w = Append(wire[r], message)
      BY <1>11 DEF w
    <3> QED
      BY <1>1, <1>6, <3>1, AppendProperties, LenProperties
  <2>2. ASSUME running, r = run, transport = "http", PiecesInOrder
        PROVE  PiecesInOrder'
    <3> DEFINE read == 3 * Count + Len(buffer)
    <3>1. /\ Len(buffer) < 3
          /\ \A j \in DOMAIN buffer : IsPiece(buffer[j], 3 * Count + j - 1)
          /\ \A j \in DOMAIN wire[run] : IsPiece(wire[run][j], read + j - 1)
          /\ read + Len(wire[r]) = 3 * item + part - 1
          /\ conn[run] = "ended" /\ ~crashed => read + Len(wire[run]) = 3 * Total
      BY <1>2, <1>11, <2>2 DEF PiecesInOrder
    <3>2. IsPiece(message, 3 * item + part - 1)
      <4>1. message \in Pieces /\ message.row = row /\ message.part = part
        BY <1>6, <2>2
      <4>2. message.row[1] = run /\ message.row[2] = item + 1
        BY <1>6, <2>2, <4>1
      <4>3. 3 * item + part - 1 = 3 * ((item + 1) - 1) + part - 1
        BY <1>1
      <4> QED
        BY <4>1, <4>2, <4>3 DEF IsPiece
    <3> HIDE DEF message, read, row
    <3>3. read + (Len(wire[r]) + 1) - 1 = 3 * item + part - 1 /\ read \in Nat
      BY <1>1, <1>10, <3>1 DEF read
    <3>4. ASSUME NEW j \in DOMAIN w
          PROVE  IsPiece(w[j], read + j - 1)
      <4>1. CASE j = Len(wire[r]) + 1
        BY <2>1, <3>2, <3>3, <4>1
      <4>2. CASE j # Len(wire[r]) + 1
        <5>1. j \in 1 .. Len(wire[r])
          BY <1>10, <2>1, <4>2
        <5> QED
          BY <2>1, <2>2, <3>1, <5>1
      <4> QED
        BY <4>1, <4>2
    <3>5. read + Len(w) = 3 * h.item + h.part - 1
      <4>1. 3 * h.item + h.part - 1 = 3 * item + part
        BY <1>8, <2>2
      <4>2. Len(w) = Len(wire[r]) + 1 /\ item \in Nat /\ part \in Nat
        BY <1>1, <2>1
      <4> HIDE DEF item, part
      <4> QED
        BY <1>10, <3>3, <4>1, <4>2
    <3>6. conn'[run] # "ended"
      BY <1>9, <1>11, <2>2
    <3> QED
      BY <1>9, <1>10, <2>2, <3>1, <3>4, <3>5, <3>6 DEF PiecesInOrder, IsPiece, read
  <2>3. ASSUME running, r = run, transport = "tauri", RowsInOrder
        PROVE  RowsInOrder'
    <3>1. /\ \A j \in DOMAIN wire[r] : wire[r][j] = <<run, Count + j>>
          /\ Count + Len(wire[r]) = item
      BY <1>2, <1>11, <2>3 DEF RowsInOrder
    <3>2. message = <<run, item + 1>>
      BY <2>3
    <3>3. Count + (Len(wire[r]) + 1) = item + 1
      BY <1>1, <1>10, <3>1
    <3> HIDE DEF message, row
    <3>4. ASSUME NEW j \in DOMAIN w
          PROVE  w[j] = <<run, Count + j>>
      <4>1. CASE j = Len(wire[r]) + 1
        BY <2>1, <3>2, <3>3, <4>1
      <4>2. CASE j # Len(wire[r]) + 1
        <5>1. j \in 1 .. Len(wire[r])
          BY <1>10, <2>1, <4>2
        <5> QED
          BY <2>1, <3>1, <5>1
      <4> QED
        BY <4>1, <4>2
    <3>5. Count + Len(w) = h.item
      BY <1>8, <2>1, <2>3, <3>3
    <3>6. conn'[run] # "ended"
      BY <1>9, <1>11, <2>3
    <3> QED
      BY <1>9, <1>10, <2>3, <3>4, <3>5, <3>6 DEF RowsInOrder
  <2> HIDE DEF Messages, message, row, item, part, whole
  <2> QED
    BY <1>1, <1>3, <1>4, <1>5, <1>7, <1>8, <1>2, <2>2, <2>3, HostMoves DEF Messages
<1>12. CASE conn[r] # "open"
  <2>1. w = wire[r]
    BY <1>12 DEF w
  <2>2. ASSUME running, r = run, transport = "http", PiecesInOrder
        PROVE  PiecesInOrder'
    BY <1>9, <1>10, <1>12, <2>1, <2>2, ZenonT(40) DEF PiecesInOrder, IsPiece, Total
  <2>3. ASSUME running, r = run, transport = "tauri", RowsInOrder
        PROVE  RowsInOrder'
    BY <1>9, <1>10, <1>12, <2>1, <2>3 DEF RowsInOrder, Total
  <2> HIDE DEF Messages, message, row, item, part, whole
  <2> QED
    BY <1>1, <1>3, <1>4, <1>5, <1>7, <1>8, <1>2, <2>2, <2>3, HostMoves DEF Messages
<1> QED
  BY <1>11, <1>12

(* A crash stops the hosts, and ends responses at any place. *)
LEMMA CrashKeeps ==
    ASSUME IInv, Crash
    PROVE  IInv'
<1>1. transport = "http" /\ crashed' /\ UNCHANGED <<transport, wire>> /\ UNCHANGED clientVars
      /\ crashed' \in BOOLEAN
  BY DEF Crash
<1>2. PICK how \in {"ended", "broken"} :
          conn' = [r \in Runs |->
                     IF conn[r] # "open" \/ host[r].state = "idle" THEN conn[r]
                     ELSE IF host[r].state = "asked" THEN "broken" ELSE how]
  BY DEF Crash
<1>3. host' = [r \in Runs |-> IF host[r] = Idle THEN Idle ELSE [Idle EXCEPT !.state = "done"]]
  BY DEF Crash
<1>4. host' \in [Runs -> Hosts] /\ conn' \in [Runs -> Conns]
  BY <1>2, <1>3 DEF IInv, Typed, Hosts, Conns, Idle
<1>5. \A r \in Runs : host'[r].item = 0 /\ host'[r].part = 1
  BY <1>3 DEF Idle
<1>6. Typed'
  BY <1>1, <1>4 DEF IInv, Typed, clientVars, abortVars
<1>7. HostsKeepWithin'
  BY <1>5, Sizes DEF HostsKeepWithin, Total
<1>8. \A r \in Runs : host[r] = Idle => host'[r] = Idle /\ conn'[r] = conn[r]
  BY <1>2, <1>3 DEF Idle
<1>9. Untouched'
  BY <1>1, <1>8 DEF IInv, Untouched, clientVars
<1>10. Handed(view, lines, Count)' /\ Count' = Count
  BY <1>1 DEF IInv, clientVars, abortVars, Handed, DisplayOK, FirstRows, ShownAgg, Count
<1>11. Over'
  BY <1>1 DEF IInv, Over, Cut, FirstRows, clientVars, ShownAgg
<1>12. ASSUME running
       PROVE  Flowing'
  <2>1. run \in Runs /\ run' = run /\ wire' = wire /\ buffer' = buffer
        /\ outcome = "none" /\ file = NoFile /\ NotAsked /\ PiecesInOrder
    BY <1>1, <1>12 DEF IInv, Typed, Flowing, clientVars
  <2>2. host'[run].state \in {"idle", "done"} /\ (host'[run].state = "idle" => host[run] = Idle)
    BY <1>3, <2>1 DEF Idle
  <2>3. NotAsked'
    BY <1>1, <1>8, <1>10, <2>1, <2>2 DEF NotAsked, clientVars, abortVars, Idle
  <2>4. PiecesInOrder'
    BY <1>1, <1>10, <2>1, <2>2 DEF PiecesInOrder, IsPiece
  <2> QED
    BY <1>1, <2>1, <2>3, <2>4 DEF Flowing, clientVars
<1> QED
  BY <1>1, <1>6, <1>7, <1>9, <1>10, <1>11, <1>12 DEF IInv, Flowing, clientVars

-----------------------------------------------------------------------------
(***************************************************************************)
(* Steps of the page.                                                      *)
(***************************************************************************)
LEMMA CountIs ==
    ASSUME IInv
    PROVE  /\ Count \in Nat /\ mode \in {"view", "export"}
           /\ run \in Nat /\ (running => run \in Runs)
  BY ShownOf, LenProperties, Sizes DEF IInv, Typed, Handed, Count

LEMMA HandedNext ==
    ASSUME mode \in {"view", "export"}, NEW v, NEW c, NEW k, Handed(v, c, k),
           view' = v, lines' = c, UNCHANGED <<run, mode>>
    PROVE  Handed(view, lines, Count)' /\ Count' = k
<1>1. Count' = k
  BY DEF Handed, Count
<1> QED
  BY <1>1 DEF Handed, DisplayOK, FirstRows, ShownAgg

(* The promise settles, and what was handed on by then is the whole        *)
(* dataset if it resolved.                                                 *)
LEMMA SettleKeeps ==
    ASSUME IInv, running, NEW how, NEW v, NEW c, NEW k \in Nat, Handed(v, c, k),
           Settle(how, v, c),
           UNCHANGED <<transport, crashed, host, run, mode, calling>>,
           NEW w \in Seq(IF transport = "http" THEN Pieces ELSE Rows), NEW d \in Conns,
           wire' = [wire EXCEPT ![run] = w], conn' = [conn EXCEPT ![run] = d],
           cancelled' \in BOOLEAN, ignoring' \in BOOLEAN, ignoring' => cancelled',
           how = "resolved" /\ ~Cut' => k = Total
    PROVE  IInv'
<1> DEFINE Messages == IF transport = "http" THEN Pieces ELSE Rows
           shown == IF mode = "view" THEN Rendered(v) ELSE v
<1>1. /\ mode \in {"view", "export"} /\ run \in Runs /\ Runs \subseteq Nat
      /\ wire \in [Runs -> Seq(Messages)] /\ conn \in [Runs -> Conns] /\ w \in Seq(Messages)
      /\ file = NoFile
  BY CountIs, Sizes DEF IInv, Typed, Flowing
<1>2. /\ ~running' /\ running' \in BOOLEAN /\ outcome' = how /\ buffer' = <<>>
      /\ view' = shown /\ lines' = c
      /\ file' = IF mode = "export" /\ how = "resolved" THEN c ELSE file
  BY DEF Settle
<1>3. DisplayOK(v)
  BY DEF Handed
<1>4. Handed(shown, c, k) /\ ShownAgg(shown) = shown.agg
  <2>1. CASE mode = "view"
    BY <1>3, <2>1, RenderedKeeps DEF Handed
  <2>2. CASE mode = "export"
    BY <1>3, <2>2 DEF Handed
  <2> QED
    BY <1>1, <2>1, <2>2
<1> HIDE DEF shown
<1>5. Handed(view, lines, Count)' /\ Count' = k
  BY <1>1, <1>2, <1>4, HandedNext
<1>6. Typed'
  <2> HIDE DEF Messages
  <2>1. wire' \in [Runs -> Seq(Messages)] /\ conn' \in [Runs -> Conns]
    BY <1>1
  <2>2. wire' \in [Runs -> Seq(IF transport' = "http" THEN Pieces ELSE Rows)]
    BY <2>1 DEF Messages
  <2>3. buffer' \in Seq(Pieces)
    BY <1>2, EmptySeq
  <2> QED
    BY <1>2, <2>1, <2>2, <2>3 DEF IInv, Typed
<1>7. HostsKeepWithin'
  BY DEF IInv, HostsKeepWithin, Total
<1>8. Untouched'
  <2>1. \A r \in Runs : r > run => wire'[r] = wire[r] /\ conn'[r] = conn[r]
    BY <1>1
  <2> QED
    BY <2>1 DEF IInv, Untouched
<1>9. Over'
  <2>1. ShownAgg(view') = view'.agg
    BY <1>2, <1>4
  <2>2. FirstRows(c) /\ (mode = "export" => Len(c) = k)
    BY <1>4 DEF Handed
  <2> QED
    BY <1>1, <1>2, <1>5, <2>1, <2>2 DEF Over, ShownAgg, Total, FirstRows
<1> QED
  BY <1>2, <1>5, <1>6, <1>7, <1>8, <1>9 DEF IInv, Flowing

LEMMA StartKeeps ==
    ASSUME IInv, NEW how \in {"view", "export"}, Start(how)
    PROVE  IInv'
<1>1. /\ ~running /\ run < MaxRuns /\ run \in Nat /\ run' = run + 1 /\ mode' = how /\ running'
      /\ ~cancelled' /\ ~calling' /\ ~ignoring' /\ outcome' = "none" /\ buffer' = <<>>
      /\ view' = (IF how = "view" THEN EmptyView ELSE view)
      /\ lines' = <<>> /\ file' = NoFile
      /\ UNCHANGED <<transport, crashed, host, wire, conn>>
      /\ {running', cancelled', calling', ignoring'} \subseteq BOOLEAN
  BY CountIs DEF Start, hostVars
<1>2. run' \in Runs /\ run' > run /\ run' \in 0 .. MaxRuns /\ \A r \in Runs : r > run' => r > run
  BY <1>1, Sizes DEF Runs
<1>3. /\ host'[run'] = Idle /\ wire'[run'] = <<>> /\ conn'[run'] = "open"
      /\ Idle.state = "idle"
  BY <1>1, <1>2 DEF IInv, Untouched, Idle
<1>4. DisplayOK(EmptyView) /\ EmptyView.agg = <<>> /\ ShownAgg(EmptyView) = <<>>
  <2>1. /\ EmptyView \in Views /\ EmptyView.agg = <<>> /\ EmptyView.rows = <<>>
        /\ EmptyView.sinceFlush = 0 /\ EmptyView.live /\ EmptyView.shownRows = <<>>
    BY DEF EmptyView, Views
  <2>2. Len(<<>>) = 0 /\ Window(0) = 0 /\ SubSeq(<<>>, 1, 0) = <<>>
    BY WindowIs, SubSeqEmpty
  <2> QED
    BY <2>1, <2>2, Sizes DEF DisplayOK, ShownAgg
<1>5. DisplayOK(view') /\ FirstRows(view'.agg) /\ (how = "view" => view'.agg = <<>>)
      /\ (how = "export" => ShownAgg(view') = view'.agg)
  <2>1. DisplayOK(view) /\ FirstRows(view.agg) /\ ShownAgg(view) = view.agg
    BY <1>1 DEF IInv, Handed, Over
  <2> QED
    BY <1>1, <1>4, <2>1 DEF FirstRows
<1>6. Count' = 0
  BY <1>1, <1>5 DEF Count
<1>7. Handed(view, lines, Count)'
  <2>1. Len(<<>>) = 0 /\ <<>> \in Seq(Rows) /\ DOMAIN <<>> = {}
    BY EmptySeq
  <2> QED
    BY <1>1, <1>5, <1>6, <2>1 DEF Handed, DisplayOK, FirstRows, ShownAgg
<1>8. Typed'
  <2>1. buffer' \in Seq(Pieces)
    BY <1>1, EmptySeq
  <2> QED
    BY <1>1, <1>2, <2>1 DEF IInv, Typed
<1>9. HostsKeepWithin' /\ Untouched'
  BY <1>1, <1>2 DEF IInv, HostsKeepWithin, Untouched, Total
<1>10. Flowing'
  <2>1. Len(<<>>) = 0 /\ DOMAIN <<>> = {}
    OBVIOUS
  <2>2. NotAsked'
    BY <1>1, <1>3, <1>6 DEF NotAsked
  <2>3. PiecesInOrder' /\ RowsInOrder'
    BY <1>1, <1>3, <1>6, <2>1 DEF PiecesInOrder, RowsInOrder
  <2> QED
    BY <1>1, <2>2, <2>3 DEF Flowing
<1>11. Over'
  BY <1>1 DEF Over
<1> QED
  BY <1>7, <1>8, <1>9, <1>10, <1>11 DEF IInv

LEMMA CallKeeps ==
    ASSUME IInv, Call
    PROVE  IInv'
<1>1. /\ running /\ run \in Runs /\ ~calling /\ calling'
      /\ UNCHANGED <<transport, crashed, wire, run, mode, running, cancelled, ignoring,
                     outcome, buffer, view, lines, file>>
  BY DEF Call, Streaming
<1>2. /\ host \in [Runs -> Hosts] /\ conn \in [Runs -> Conns]
      /\ host[run] = Idle /\ conn[run] = "open"
      /\ Count = 0 /\ buffer = <<>> /\ wire[run] = <<>>
  BY <1>1 DEF IInv, Typed, Flowing, NotAsked, Idle
<1>3. \/ crashed /\ conn' = [conn EXCEPT ![run] = "broken"] /\ host' = host
      \/ host' = [host EXCEPT ![run] = [Idle EXCEPT !.state = "asked"]] /\ conn' = conn
  <2>1. CASE crashed
    BY <2>1 DEF Call
  <2>2. CASE ~crashed
    <3>1. host' = [host EXCEPT ![run].state = "asked"] /\ conn' = conn
      BY <2>2 DEF Call
    <3> QED
      BY <1>2, <3>1
  <2> QED
    BY <2>1, <2>2
<1>4. /\ host' \in [Runs -> Hosts] /\ conn' \in [Runs -> Conns]
      /\ host'[run].state \in {"idle", "asked"} /\ host'[run].item = 0 /\ host'[run].part = 1
      /\ conn'[run] \in {"open", "broken"}
      /\ \A r \in Runs : r # run => host'[r] = host[r] /\ conn'[r] = conn[r]
  BY <1>1, <1>2, <1>3 DEF Hosts, Conns, Idle
<1>5. Typed'
  BY <1>1, <1>4 DEF IInv, Typed
<1>6. HostsKeepWithin'
  <2> SUFFICES ASSUME NEW r \in Runs
               PROVE  /\ host'[r].item <= Total'
                      /\ host'[r].state = "sending" /\ host'[r].item = Total' => host'[r].part = 1
    BY DEF HostsKeepWithin
  <2>1. Total' = Total /\ 0 <= Total
    BY Sizes DEF Total
  <2>2. CASE r = run
    BY <1>4, <2>1, <2>2
  <2>3. CASE r # run
    BY <1>4, <2>1, <2>3 DEF IInv, HostsKeepWithin
  <2> QED
    BY <2>2, <2>3
<1>7. Untouched'
  <2>1. \A r \in Runs : r > run => r # run
    BY <1>1, Sizes
  <2> QED
    BY <1>1, <1>4, <2>1 DEF IInv, Untouched
<1>8. Handed(view, lines, Count)' /\ Count' = Count /\ Over'
  BY <1>1 DEF IInv, Handed, DisplayOK, FirstRows, ShownAgg, Over, Count, Cut
<1>9. Flowing'
  <2>1. outcome = "none" /\ file = NoFile
    BY <1>1 DEF IInv, Flowing
  <2>2. NotAsked'
    BY <1>1, <1>2, <1>8 DEF NotAsked
  <2>3. Len(<<>>) = 0 /\ DOMAIN <<>> = {}
    OBVIOUS
  <2>4. PiecesInOrder' /\ RowsInOrder'
    BY <1>1, <1>2, <1>4, <1>8, <2>3 DEF PiecesInOrder, RowsInOrder
  <2> QED
    BY <1>1, <2>1, <2>2, <2>4 DEF Flowing
<1> QED
  BY <1>5, <1>6, <1>7, <1>8, <1>9 DEF IInv

(* What follows what was handed on is what the buffer and the wire hold. *)
LEMMA ArrivedFollows ==
    ASSUME IInv, running, transport = "http", NEW n \in 0 .. Len(wire[run])
    PROVE  LET text == Arrived(SubSeq(wire[run], 1, n))
           IN text \in Seq(Pieces) /\ Len(text) = Len(buffer) + n /\ FollowsFrom(text, 3 * Count)
<1> DEFINE chunk == SubSeq(wire[run], 1, n)
           text == buffer \o chunk
           read == 3 * Count + Len(buffer)
<1>1. /\ buffer \in Seq(Pieces) /\ wire[run] \in Seq(Pieces) /\ run \in Runs
      /\ Len(buffer) \in Nat /\ DOMAIN buffer = 1 .. Len(buffer)
      /\ Len(wire[run]) \in Nat /\ DOMAIN wire[run] = 1 .. Len(wire[run])
      /\ Count \in Nat /\ n \in Nat
  <2>1. buffer \in Seq(Pieces) /\ wire[run] \in Seq(Pieces) /\ run \in Runs
    BY DEF IInv, Typed
  <2> QED
    BY <2>1, LenProperties, CountIs
<1>2. /\ \A j \in DOMAIN buffer : IsPiece(buffer[j], 3 * Count + j - 1)
      /\ \A j \in DOMAIN wire[run] : IsPiece(wire[run][j], read + j - 1)
  BY DEF IInv, Flowing, PiecesInOrder
<1>3. /\ chunk \in Seq(Pieces) /\ Len(chunk) = n
      /\ \A j \in 1 .. n : chunk[j] = wire[run][j]
  BY <1>1, Headed
<1> HIDE DEF chunk
<1>4. /\ text \in Seq(Pieces) /\ Len(text) = Len(buffer) + n
      /\ \A j \in 1 .. Len(buffer) + n :
            text[j] = IF j <= Len(buffer) THEN buffer[j] ELSE chunk[j - Len(buffer)]
  BY <1>1, <1>3, ConcatProperties
<1>5. DOMAIN text = 1 .. Len(buffer) + n
  BY <1>4, LenProperties
<1> HIDE DEF text
<1>6. ASSUME NEW j \in DOMAIN text
      PROVE  IsPiece(text[j], 3 * Count + j - 1)
  <2>1. j \in 1 .. Len(buffer) + n
    BY <1>5
  <2>2. CASE j <= Len(buffer)
    <3>1. j \in DOMAIN buffer /\ text[j] = buffer[j]
      BY <1>1, <1>4, <2>1, <2>2
    <3> QED
      BY <1>2, <3>1
  <2>3. CASE ~ (j <= Len(buffer))
    <3> DEFINE i == j - Len(buffer)
    <3>1. i \in 1 .. n /\ i \in DOMAIN wire[run] /\ text[j] = chunk[i]
      BY <1>1, <1>4, <2>1, <2>3
    <3>2. read + i - 1 = 3 * Count + j - 1
      BY <1>1, <2>1
    <3> HIDE DEF i, read
    <3>3. text[j] = wire[run][i] /\ IsPiece(wire[run][i], read + i - 1)
      BY <1>2, <1>3, <3>1
    <3> QED
      BY <3>2, <3>3
  <2> QED
    BY <2>2, <2>3
<1> QED
  BY <1>4, <1>6 DEF FollowsFrom, Arrived, text, chunk

LEMMA ReadChunkKeeps ==
    ASSUME IInv, ReadChunk
    PROVE  IInv'
<1>1. PICK n \in 1 .. Len(wire[run]) :
          LET parse == Parsed(Arrived(SubSeq(wire[run], 1, n)))
          IN /\ wire' = [wire EXCEPT ![run] = SubSeq(@, n + 1, Len(@))]
             /\ IF parse.ok
                THEN /\ view' = parse.view /\ lines' = parse.lines /\ buffer' = parse.text
                     /\ UNCHANGED <<running, outcome, file>>
                ELSE Settle("error", parse.view, parse.lines)
  BY DEF ReadChunk
<1>2. /\ running /\ run \in Runs /\ transport = "http" /\ wire[run] # <<>>
      /\ UNCHANGED <<transport, crashed, host, conn, run, mode, abortVars>>
  BY DEF ReadChunk, Streaming
<1> DEFINE text == Arrived(SubSeq(wire[run], 1, n))
           p == Parsed(text)
           L == Len(wire[run])
<1>3. /\ wire \in [Runs -> Seq(Pieces)] /\ wire[run] \in Seq(Pieces)
      /\ L \in Nat /\ n \in 0 .. L /\ n \in Nat
      /\ buffer \in Seq(Pieces) /\ Len(buffer) \in Nat /\ Count \in Nat
  <2>1. wire \in [Runs -> Seq(Pieces)] /\ buffer \in Seq(Pieces) /\ wire[run] \in Seq(Pieces)
    BY <1>2 DEF IInv, Typed
  <2> QED
    BY <2>1, CountIs, LenProperties
<1>4. text \in Seq(Pieces) /\ Len(text) = Len(buffer) + n /\ FollowsFrom(text, 3 * Count)
  BY <1>2, <1>3, ArrivedFollows
<1> HIDE DEF text
<1>5. PICK m \in Nat : /\ 3 * m <= Len(text) /\ Len(text) < 3 * (m + 1)
                       /\ ParseAt(Parsed(text), text, Count, m)
  BY <1>2, <1>3, <1>4, CountIs, ParsedIs DEF IInv
<1>6. /\ p \in Parses /\ p.ok /\ p.text = SubSeq(text, 3 * m + 1, Len(text))
      /\ Handed(p.view, p.lines, Count + m)
  BY <1>5 DEF ParseAt
<1>7. /\ wire' = [wire EXCEPT ![run] = SubSeq(wire[run], n + 1, L)]
      /\ view' = p.view /\ lines' = p.lines /\ buffer' = p.text
      /\ UNCHANGED <<running, outcome, file>>
  BY <1>1, <1>6 DEF text
<1> HIDE DEF p
<1>8. /\ buffer' \in Seq(Pieces) /\ Len(buffer') = Len(text) - 3 * m
      /\ DOMAIN buffer' = 1 .. Len(text) - 3 * m
      /\ \A j \in 1 .. Len(text) - 3 * m : buffer'[j] = text[3 * m + j]
  <2>1. 3 * m \in 0 .. Len(text)
    BY <1>3, <1>4, <1>5
  <2>2. buffer' = SubSeq(text, 3 * m + 1, Len(text))
    BY <1>6, <1>7
  <2> QED
    BY <1>4, <2>1, <2>2, TailOf
<1>9. /\ wire'[run] \in Seq(Pieces) /\ Len(wire'[run]) = L - n
      /\ DOMAIN wire'[run] = 1 .. L - n
      /\ \A j \in 1 .. L - n : wire'[run][j] = wire[run][n + j]
  BY <1>2, <1>3, <1>7, TailOf
<1>10. wire' \in [Runs -> Seq(Pieces)] /\ \A r \in Runs : r # run => wire'[r] = wire[r]
  <2>1. wire' = [wire EXCEPT ![run] = wire'[run]]
    BY <1>2, <1>3, <1>7
  <2> QED
    BY <1>2, <1>3, <1>9, <2>1
<1>11. Handed(view, lines, Count)' /\ Count' = Count + m
  BY <1>2, <1>6, <1>7, CountIs, HandedNext
<1>12. Typed'
  BY <1>2, <1>7, <1>8, <1>10 DEF IInv, Typed, abortVars
<1>13. HostsKeepWithin' /\ Untouched'
  <2>1. \A r \in Runs : r > run => r # run
    BY <1>2, Sizes
  <2> QED
    BY <1>2, <1>10, <2>1 DEF IInv, HostsKeepWithin, Untouched, Total
<1>14. outcome = "none" /\ file = NoFile /\ NotAsked /\ PiecesInOrder
  BY <1>2 DEF IInv, Flowing
<1>15. calling /\ ~ (host[run].state \in {"idle", "asked"})
  BY <1>2, <1>14 DEF NotAsked, Idle
<1>16. NotAsked'
  BY <1>2, <1>15 DEF NotAsked, abortVars
<1>17. PiecesInOrder'
  <2> DEFINE read == 3 * Count + Len(buffer)
             now == 3 * Count' + Len(buffer')
  <2>1. now = read + n /\ now + (L - n) = read + L /\ Len(buffer') < 3
    BY <1>3, <1>4, <1>5, <1>8, <1>11, SMTT(30)
  <2>2. ASSUME NEW j \in DOMAIN buffer'
        PROVE  IsPiece(buffer'[j], 3 * Count' + j - 1)
    <3>1. 3 * m + j \in DOMAIN text /\ buffer'[j] = text[3 * m + j]
      <4>1. /\ j \in 1 .. Len(text) - 3 * m /\ buffer'[j] = text[3 * m + j]
            /\ Len(text) \in Nat /\ DOMAIN text = 1 .. Len(text)
        BY <1>4, <1>8, LenProperties
      <4> QED
        BY <1>5, <4>1
    <3>2. IsPiece(text[3 * m + j], 3 * Count + (3 * m + j) - 1)
      BY <1>4, <3>1 DEF FollowsFrom
    <3>3. 3 * Count + (3 * m + j) - 1 = 3 * Count' + j - 1
      BY <1>3, <1>8, <1>11
    <3> QED
      BY <3>1, <3>2, <3>3
  <2>3. ASSUME NEW j \in DOMAIN wire'[run]
        PROVE  IsPiece(wire'[run][j], now + j - 1)
    <3>1. n + j \in DOMAIN wire[run] /\ wire'[run][j] = wire[run][n + j]
      BY <1>3, <1>9, LenProperties, SMTT(30)
    <3>2. IsPiece(wire[run][n + j], read + (n + j) - 1)
      BY <1>14, <3>1 DEF PiecesInOrder
    <3>3. read + (n + j) - 1 = now + j - 1
      BY <1>3, <1>9, <2>1
    <3> HIDE DEF read, now
    <3> QED
      BY <3>1, <3>2, <3>3
  <2>4. /\ host[run].state = "sending" /\ conn[run] = "open" =>
              read + L = 3 * host[run].item + host[run].part - 1
        /\ conn[run] = "ended" /\ ~crashed => read + L = 3 * Total
    BY <1>14 DEF PiecesInOrder
  <2>5. now + Len(wire'[run]) = read + L
    BY <1>9, <2>1
  <2> HIDE DEF read, L
  <2> QED
    BY <1>2, <2>1, <2>2, <2>3, <2>4, <2>5 DEF PiecesInOrder, IsPiece, Total
<1>18. Flowing'
  BY <1>2, <1>7, <1>14, <1>16, <1>17 DEF Flowing
<1>19. Over'
  BY <1>2, <1>7, <1>14 DEF Over
<1> QED
  BY <1>11, <1>12, <1>13, <1>18, <1>19 DEF IInv

LEMMA ReadEndKeeps ==
    ASSUME IInv, ReadEnd
    PROVE  IInv'
<1> DEFINE last == OnLine(Parse(buffer), buffer)
           how == IF last.ok THEN "resolved" ELSE "error"
<1>1. /\ running /\ run \in Runs /\ transport = "http" /\ wire[run] = <<>> /\ conn[run] = "ended"
      /\ Settle(how, last.view, last.lines)
      /\ UNCHANGED <<transport, crashed, host, wire, conn, run, mode, abortVars>>
  BY DEF ReadEnd, Streaming
<1>2. /\ Count \in Nat /\ mode \in {"view", "export"} /\ Handed(view, lines, Count)
      /\ buffer \in Seq(Pieces) /\ Len(buffer) \in Nat /\ DOMAIN buffer = 1 .. Len(buffer)
      /\ Total \in Nat /\ wire[run] \in Seq(Pieces)
      /\ wire = [wire EXCEPT ![run] = wire[run]] /\ conn = [conn EXCEPT ![run] = conn[run]]
      /\ conn[run] \in Conns
  <2>1. /\ Handed(view, lines, Count) /\ buffer \in Seq(Pieces)
        /\ wire \in [Runs -> Seq(Pieces)] /\ conn \in [Runs -> Conns]
    BY <1>1 DEF IInv, Typed
  <2> QED
    BY <1>1, <2>1, CountIs, Sizes, LenProperties
<1>3. /\ Len(buffer) < 3 /\ FollowsFrom(buffer, 3 * Count)
      /\ ~crashed => 3 * Count + Len(buffer) + Len(<<>>) = 3 * Total
  BY <1>1 DEF IInv, Flowing, PiecesInOrder, FollowsFrom
<1>4. ~crashed => Len(buffer) = 0 /\ Count = Total
  BY <1>2, <1>3
<1>5. Parse(buffer).view = view /\ Parse(buffer).lines = lines /\ Parse(buffer).ok
  BY DEF Parse
<1>6. \E k \in Nat : Handed(last.view, last.lines, k) /\ (~crashed => k = Total)
  <2>1. CASE Len(buffer) = 0
    <3>1. buffer = <<>>
      BY <1>2, <2>1, EmptySeq
    <3> QED
      BY <1>2, <1>4, <1>5, <3>1 DEF OnLine
  <2>2. CASE Len(buffer) = 1
    <3>1. buffer # <<>> /\ ~IsRow(buffer)
      BY <2>2 DEF IsRow
    <3>2. last.view = view /\ last.lines = lines
      BY <3>1 DEF OnLine, Parse
    <3> QED
      BY <1>2, <1>4, <3>2
  <2>3. CASE Len(buffer) = 2
    <3> DEFINE row == <<run, Count + 1>>
    <3>1. buffer # <<>> /\ IsRow(buffer) /\ buffer[1].row = row
      BY <1>2, <1>3, <2>3, LineOfTwo
    <3>2. last.view = Viewed(view, row) /\ last.lines = Collected(lines, row)
      BY <3>1 DEF OnLine, Parse
    <3>3. Handed(Viewed(view, row), Collected(lines, row), Count + 1)
      BY <1>1, <1>2, HandOn
    <3>4. crashed /\ Count + 1 \in Nat
      BY <1>2, <1>4, <2>3
    <3> HIDE DEF last
    <3> QED
      BY <3>2, <3>3, <3>4
  <2> QED
    BY <1>2, <1>3, <2>1, <2>2, <2>3
<1>7. PICK k \in Nat : Handed(last.view, last.lines, k) /\ (~crashed => k = Total)
  BY <1>6
<1>8. /\ cancelled' \in BOOLEAN /\ ignoring' \in BOOLEAN /\ (ignoring' => cancelled')
      /\ calling' = calling
  BY <1>1 DEF IInv, Typed, abortVars
<1> HIDE DEF last, how
<1>9. wire[run] \in Seq(IF transport = "http" THEN Pieces ELSE Rows)
  BY <1>1, <1>2
<1>10. wire' = [wire EXCEPT ![run] = wire[run]] /\ conn' = [conn EXCEPT ![run] = conn[run]]
  BY <1>1, <1>2
<1>11. how = "resolved" /\ ~Cut' => k = Total
  BY <1>1, <1>7 DEF Cut
<1>12. /\ UNCHANGED <<transport, crashed, host, run, mode, calling>>
       /\ Handed(last.view, last.lines, k) /\ Settle(how, last.view, last.lines)
       /\ running /\ conn[run] \in Conns
  BY <1>1, <1>2, <1>7, <1>8
<1> DEFINE v == last.view
           c == last.lines
           w == wire[run]
           d == conn[run]
<1>13. /\ Handed(v, c, k) /\ Settle(how, v, c) /\ d \in Conns
       /\ w \in Seq(IF transport = "http" THEN Pieces ELSE Rows)
       /\ wire' = [wire EXCEPT ![run] = w] /\ conn' = [conn EXCEPT ![run] = d]
  BY <1>9, <1>10, <1>12
<1> HIDE DEF v, c, w, d
<1> QED
  BY <1>8, <1>11, <1>12, <1>13, SettleKeeps

LEMMA ReadErrorKeeps ==
    ASSUME IInv, ReadError
    PROVE  IInv'
<1>1. /\ running /\ run \in Runs /\ Settle("error", view, lines)
      /\ wire' = [wire EXCEPT ![run] = <<>>]
      /\ UNCHANGED <<transport, crashed, host, conn, run, mode, abortVars>>
  BY DEF ReadError, Streaming
<1>2. Count \in Nat /\ Handed(view, lines, Count)
  BY CountIs DEF IInv
<1>3. conn' = [conn EXCEPT ![run] = conn[run]] /\ conn[run] \in Conns
  BY <1>1 DEF IInv, Typed
<1>4. /\ cancelled' \in BOOLEAN /\ ignoring' \in BOOLEAN /\ (ignoring' => cancelled')
      /\ calling' = calling
  BY <1>1 DEF IInv, Typed, abortVars
<1>5. <<>> \in Seq(IF transport = "http" THEN Pieces ELSE Rows)
  BY EmptySeq
<1>6. "error" # "resolved"
  OBVIOUS
<1> QED
  BY <1>1, <1>2, <1>3, <1>4, <1>5, <1>6, SettleKeeps

LEMMA ResolveKeeps ==
    ASSUME IInv, Resolve
    PROVE  IInv'
<1>1. /\ running /\ run \in Runs /\ transport = "tauri" /\ wire[run] = <<>> /\ conn[run] = "ended"
      /\ Settle("resolved", view, lines)
      /\ UNCHANGED <<transport, crashed, host, wire, conn, run, mode, abortVars>>
  BY DEF Resolve, Streaming
<1>2. Count \in Nat /\ Handed(view, lines, Count)
  BY CountIs DEF IInv
<1>3. /\ wire' = [wire EXCEPT ![run] = wire[run]] /\ conn' = [conn EXCEPT ![run] = conn[run]]
      /\ wire[run] \in Seq(IF transport = "http" THEN Pieces ELSE Rows) /\ conn[run] \in Conns
  BY <1>1 DEF IInv, Typed
<1>4. /\ cancelled' \in BOOLEAN /\ ignoring' \in BOOLEAN /\ (ignoring' => cancelled')
      /\ calling' = calling
  BY <1>1 DEF IInv, Typed, abortVars
<1>5. ~Cut' => Count = Total
  <2>1. Cut' = ignoring
    BY <1>1 DEF abortVars, Cut
  <2>2. ~ignoring => Count + Len(<<>>) = Total
    BY <1>1 DEF IInv, Flowing, RowsInOrder
  <2> QED
    BY <1>2, <2>1, <2>2
<1> QED
  BY <1>1, <1>2, <1>3, <1>4, <1>5, SettleKeeps

LEMMA DeliverKeeps ==
    ASSUME IInv, Deliver
    PROVE  IInv'
<1> DEFINE L == Len(wire[run])
           head == Head(wire[run])
           k == IF ignoring THEN Count ELSE Count + 1
           v == IF ignoring THEN view ELSE Viewed(view, head)
           c == IF ignoring THEN lines ELSE Collected(lines, head)
<1>1. /\ running /\ run \in Runs /\ transport = "tauri" /\ wire[run] # <<>>
      /\ wire' = [wire EXCEPT ![run] = Tail(wire[run])] /\ view' = v /\ lines' = c
      /\ UNCHANGED <<transport, crashed, host, conn, run, mode, running, abortVars,
                     outcome, buffer, file>>
  BY DEF Deliver, Streaming
<1>2. /\ wire \in [Runs -> Seq(Rows)] /\ wire[run] \in Seq(Rows)
      /\ Count \in Nat /\ mode \in {"view", "export"} /\ Handed(view, lines, Count)
      /\ ignoring \in BOOLEAN
  BY <1>1, CountIs DEF IInv, Typed
<1>3. /\ Tail(wire[run]) \in Seq(Rows) /\ Len(Tail(wire[run])) = L - 1 /\ L \in Nat /\ L > 0
      /\ head = wire[run][1] /\ 1 \in DOMAIN wire[run] /\ DOMAIN wire[run] = 1 .. L
      /\ \A j \in 1 .. L - 1 : Tail(wire[run])[j] = wire[run][j + 1]
  BY <1>1, <1>2, HeadTailProperties, LenProperties, EmptySeq
<1>4. DOMAIN Tail(wire[run]) = 1 .. L - 1
  BY <1>3, LenProperties
<1>5. outcome = "none" /\ file = NoFile /\ NotAsked /\ (~ignoring => RowsInOrder)
  BY <1>1 DEF IInv, Flowing
<1>6. ~ignoring => head = <<run, Count + 1>>
  BY <1>3, <1>5 DEF RowsInOrder
<1>7. Handed(v, c, k) /\ k \in Nat
  <2>1. CASE ignoring
    BY <1>2, <2>1
  <2>2. CASE ~ignoring
    <3>1. v = Viewed(view, <<run, Count + 1>>) /\ c = Collected(lines, <<run, Count + 1>>)
          /\ k = Count + 1
      BY <1>6, <2>2
    <3> HIDE DEF v, c, k
    <3>2. Handed(Viewed(view, <<run, Count + 1>>), Collected(lines, <<run, Count + 1>>), Count + 1)
      BY <1>1, <1>2, HandOn
    <3> QED
      BY <1>2, <3>1, <3>2
  <2> QED
    BY <2>1, <2>2
<1> HIDE DEF v, c, k, head, L
<1>8. Handed(view, lines, Count)' /\ Count' = k
  BY <1>1, <1>2, <1>7, HandedNext
<1>9. wire' \in [Runs -> Seq(Rows)] /\ wire'[run] = Tail(wire[run])
      /\ \A r \in Runs : r # run => wire'[r] = wire[r]
  BY <1>1, <1>2, <1>3
<1>10. Typed'
  BY <1>1, <1>9 DEF IInv, Typed, abortVars
<1>11. HostsKeepWithin' /\ Untouched'
  <2>1. \A r \in Runs : r > run => r # run
    BY <1>1, Sizes
  <2> QED
    BY <1>1, <1>9, <2>1 DEF IInv, HostsKeepWithin, Untouched, Total
<1>12. NotAsked'
  <2>1. calling /\ ~ (host[run].state \in {"idle", "asked"})
    BY <1>1, <1>5 DEF NotAsked, Idle
  <2> QED
    BY <1>1, <2>1 DEF NotAsked, abortVars
<1>13. ASSUME ~ignoring
       PROVE  RowsInOrder'
  <2>1. Count' = Count + 1
    BY <1>8, <1>13 DEF k
  <2>2. ASSUME NEW j \in DOMAIN wire'[run]
        PROVE  wire'[run][j] = <<run, Count' + j>>
    <3>1. j \in 1 .. L - 1 /\ j + 1 \in DOMAIN wire[run] /\ Count + (j + 1) = Count' + j
      <4>1. j \in 1 .. L - 1
        BY <1>4, <1>9
      <4> QED
        BY <1>2, <1>3, <2>1, <4>1
    <3>2. wire[run][j + 1] = <<run, Count + (j + 1)>>
      BY <1>5, <1>13, <3>1 DEF RowsInOrder
    <3>3. wire'[run][j] = wire[run][j + 1]
      BY <1>3, <1>9, <3>1
    <3> QED
      BY <3>1, <3>2, <3>3
  <2>3. Count' + Len(wire'[run]) = Count + L
    <3>1. Len(wire'[run]) = L - 1 /\ L \in Nat /\ Count \in Nat
      BY <1>2, <1>3, <1>9
    <3> QED
      BY <2>1, <3>1
  <2>4. /\ host[run].state = "sending" /\ conn[run] = "open" => Count + L = host[run].item
        /\ conn[run] = "ended" => Count + L = Total
    BY <1>5, <1>13 DEF RowsInOrder, L
  <2> QED
    BY <1>1, <2>2, <2>3, <2>4 DEF RowsInOrder, Total
<1>14. Flowing'
  BY <1>1, <1>5, <1>12, <1>13 DEF Flowing, abortVars
<1>15. Over'
  BY <1>1, <1>5 DEF Over
<1> QED
  BY <1>8, <1>10, <1>11, <1>14, <1>15 DEF IInv

LEMMA StopKeeps ==
    ASSUME IInv, Stop
    PROVE  IInv'
<1>1. /\ running /\ run \in Runs /\ cancelled'
      /\ UNCHANGED <<transport, crashed, host, run, mode, calling>>
      /\ transport \in {"http", "tauri"} /\ cancelled' \in BOOLEAN
  BY DEF Stop, Streaming, IInv, Typed
<1>2. CASE transport = "http"
  <2>1. /\ Settle("aborted", view, lines)
        /\ conn' = [conn EXCEPT ![run] = "dropped"] /\ wire' = [wire EXCEPT ![run] = <<>>]
        /\ ignoring' = ignoring /\ ignoring' \in BOOLEAN
    BY <1>2 DEF Stop, IInv, Typed
  <2>2. Count \in Nat /\ Handed(view, lines, Count)
    BY CountIs DEF IInv
  <2>3. <<>> \in Seq(IF transport = "http" THEN Pieces ELSE Rows) /\ "dropped" \in Conns
    BY EmptySeq DEF Conns
  <2>4. "aborted" # "resolved"
    OBVIOUS
  <2> QED
    BY <1>1, <2>1, <2>2, <2>3, <2>4, SettleKeeps
<1>3. CASE transport = "tauri"
  <2>1. /\ ignoring' = calling
        /\ UNCHANGED <<running, outcome, buffer, view, lines, file, conn, wire>>
    BY <1>3 DEF Stop
  <2>2. Typed' /\ HostsKeepWithin' /\ Untouched'
    BY <1>1, <2>1 DEF IInv, Typed, HostsKeepWithin, Untouched, Total
  <2>3. Handed(view, lines, Count)' /\ Count' = Count
    BY <1>1, <2>1 DEF IInv, Handed, DisplayOK, FirstRows, ShownAgg, Count
  <2>4. outcome = "none" /\ file = NoFile /\ NotAsked /\ (~ignoring => RowsInOrder)
    BY <1>1, <1>3 DEF IInv, Flowing
  <2>5. NotAsked'
    BY <1>1, <2>1, <2>3, <2>4 DEF NotAsked
  <2>6. ~ignoring' => RowsInOrder'
    <3>1. CASE calling
      BY <2>1, <3>1
    <3>2. CASE ~calling
      <4>1. /\ host[run] = Idle /\ conn[run] = "open" /\ wire[run] = <<>>
            /\ Idle.state = "idle" /\ DOMAIN <<>> = {}
        BY <2>4, <3>2 DEF NotAsked, Idle
      <4> QED
        BY <1>1, <2>1, <4>1 DEF RowsInOrder
    <3> QED
      BY <3>1, <3>2
  <2>7. Flowing'
    BY <1>1, <1>3, <2>1, <2>4, <2>5, <2>6 DEF Flowing
  <2>8. Over'
    BY <1>1, <1>3, <2>1, <2>4 DEF Over
  <2> QED
    BY <2>2, <2>3, <2>7, <2>8 DEF IInv
<1> QED
  BY <1>1, <1>2, <1>3

LEMMA StandsStill ==
    ASSUME IInv, UNCHANGED vars
    PROVE  IInv'
<1>1. UNCHANGED <<transport, crashed, host, wire, conn>> /\ UNCHANGED clientVars
  BY DEF vars, hostVars
<1>2. Typed' /\ HostsKeepWithin' /\ Untouched'
  BY <1>1 DEF IInv, Typed, HostsKeepWithin, Untouched, Total, clientVars, abortVars
<1> QED
  BY <1>1, <1>2, PageLeftAlone, FlowsOn DEF IInv

-----------------------------------------------------------------------------
(* What is handed on, buffered, on the wire and still to send follow one   *)
(* another without a gap, whatever the hosts, the page and the user do     *)
(* (for_each_summary, streamDataset, DatasetExplorer.tsx).                 *)
THEOREM Invariance == Spec => []IInv
<1>1. Init => IInv
  BY InitInv
<1>2. IInv /\ [Next]_vars => IInv'
  <2> SUFFICES ASSUME IInv, [Next]_vars PROVE IInv'
    OBVIOUS
  <2>1. ASSUME NEW r \in Runs, HostStep(r) \/ Refuse(r) \/ SendFails(r)
        PROVE  IInv'
    BY <2>1, SilentKeeps, SendKeeps DEF HostStep
  <2>2. CASE Call
    BY <2>2, CallKeeps
  <2>3. CASE ReadChunk
    BY <2>3, ReadChunkKeeps
  <2>4. CASE ReadEnd
    BY <2>4, ReadEndKeeps
  <2>5. CASE ReadError
    BY <2>5, ReadErrorKeeps
  <2>6. CASE Deliver
    BY <2>6, DeliverKeeps
  <2>7. CASE Resolve
    BY <2>7, ResolveKeeps
  <2>8. ASSUME NEW how \in {"view", "export"}, Start(how)
        PROVE  IInv'
    BY <2>8, StartKeeps
  <2>9. CASE Stop
    BY <2>9, StopKeeps
  <2>10. CASE Crash
    BY <2>10, CrashKeeps
  <2>11. CASE Quiet \/ UNCHANGED vars
    BY <2>11, StandsStill DEF Quiet
  <2> QED
    BY <2>1, <2>2, <2>3, <2>4, <2>5, <2>6, <2>7, <2>8, <2>9, <2>10, <2>11 DEF Next, ClientStep
<1> QED
  BY <1>1, <1>2, PTL DEF Spec

(* Over both transports, however a response is cut and whatever an earlier *)
(* run still sends, what the explorer folds, or collects for a file, is    *)
(* the first rows of one run, each once and in order (streamDataset,       *)
(* DatasetExplorer.tsx).                                                   *)
THEOREM RowsInPlace == Spec => []RowsAreAPrefix
<1>1. IInv => RowsAreAPrefix
  BY DEF IInv, Handed, RowsAreAPrefix
<1> QED
  BY <1>1, Invariance, PTL

(* What a run that resolved handed on, and every file, begin with the first *)
(* row and have none missing; and they are the whole dataset up to the cap  *)
(* unless the server died or, under Tauri, a stop was heeded               *)
(* (for_each_summary, streamDataset, exportCsv).                           *)
THEOREM EndIsComplete == Spec => []EndedIsComplete
<1>1. IInv => EndedIsComplete
  BY DEF IInv, Over, Handed, Count, Total, EndedIsComplete
<1> QED
  BY <1>1, Invariance, PTL

(* The display is less than FLUSH_EVERY rows behind, is everything once a  *)
(* run is over, and its table is the head of its aggregate, for every size *)
(* of the table and every flush interval (DatasetExplorer.tsx).            *)
THEOREM DisplayIsTrue == Spec => []DisplayFollows
<1>1. IInv => DisplayFollows
  <2> SUFFICES ASSUME IInv PROVE DisplayFollows
    OBVIOUS
  <2> DEFINE shown == ShownAgg(view)
  <2>1. DisplayOK(view) /\ (~running => shown = view.agg)
    BY DEF IInv, Handed, Over
  <2>2. /\ Len(view.agg) \in Nat /\ Len(view.shownAgg) \in Nat
        /\ view.sinceFlush \in Nat /\ view.sinceFlush < FlushEvery
    BY <2>1, ShownOf, LenProperties DEF DisplayOK, Views
  <2>3. CASE view.live
    <3>1. shown = view.agg /\ view.shownRows = <<>> /\ view.sinceFlush = Len(view.agg)
      BY <2>1, <2>3 DEF ShownAgg, DisplayOK
    <3>2. Len(view.agg) - Len(shown) < FlushEvery /\ Len(shown) < FlushEvery
      <4> HIDE DEF shown
      <4> QED
        BY <2>2, <3>1, Sizes
    <3> QED
      BY <2>1, <2>3, <3>1, <3>2 DEF DisplayFollows
  <2>4. CASE ~view.live
    <3>1. /\ shown = view.shownAgg /\ Len(view.shownAgg) <= Len(view.agg)
          /\ Len(view.agg) - Len(view.shownAgg) <= view.sinceFlush
          /\ view.shownRows = SubSeq(view.shownAgg, 1, Window(Len(view.shownAgg)))
      BY <2>1, <2>4 DEF ShownAgg, DisplayOK
    <3>2. Len(view.agg) - Len(shown) < FlushEvery
      <4>1. \A a, b, c, d \in Nat : a - b <= c /\ c < d => a - b < d
        OBVIOUS
      <4> HIDE DEF shown
      <4> QED
        BY <2>2, <3>1, <4>1, Sizes
    <3> QED
      BY <2>1, <3>1, <3>2 DEF DisplayFollows, Window
  <2> QED
    BY <2>3, <2>4
<1> QED
  BY <1>1, Invariance, PTL

-----------------------------------------------------------------------------
(* How the hosts read a request. *)
USE DEF Absent, Empty

(* A plain parameter is read alike, whatever its default. *)
LEMMA PlainIsReadAlike ==
    ASSUME NEW value \in Parameters, value # Empty, value <= LargestExact, NEW default \in Nat
    PROVE  JsNum(value, default) = Num(value, default)
  BY DEF JsNum, Num, Exactly, Parameters

LEMMA NumIsNat ==
    ASSUME NEW value \in Parameters, NEW default \in Nat
    PROVE  Num(value, default) \in Nat
  BY DEF Num, Parameters

LEMMA SmallIsKept ==
    ASSUME NEW n \in Nat, n < U32Size
    PROVE  AsU32(n) = n
  BY RequestAssumption DEF AsU32

LEMMA AsU32Shrinks ==
    ASSUME NEW n \in Nat
    PROVE  AsU32(n) \in Nat /\ AsU32(n) <= n
<1>1. U32Size \in Nat /\ U32Size > 32
  BY RequestAssumption
<1>2. AsU32(n) \in 0 .. U32Size - 1
  BY <1>1 DEF AsU32
<1>3. CASE n < U32Size
  BY <1>3, SmallIsKept
<1>4. CASE n >= U32Size
  BY <1>1, <1>2, <1>4
<1> QED
  BY <1>1, <1>3, <1>4

(* The verdict on one request. *)
ReadAlike(r, http, tauri) ==
    /\ Plain(r) => http = tauri
    /\ http.type = tauri.type
    /\ "count" \in DOMAIN r => http.count <= Num(r.count, 100)

LEMMA RequestsAreReadAlike ==
    ASSUME NEW r \in Asks
    PROVE  ReadAlike(r, SpecFromRequest(r), ToTauriSpec(r))
<1> DEFINE http == SpecFromRequest(r)
           tauri == ToTauriSpec(r)
<1>1. CASE r \in [type : {"range", "even", "odd"}, start : Parameters, end : Parameters]
  <2>1. DOMAIN r = {"type", "start", "end"} /\ r.type \in {"range", "even", "odd"}
        /\ r.start \in Parameters /\ r.end \in Parameters
    BY <1>1
  <2>2. /\ http = [type |-> r.type, start |-> Num(r.start, 1), end |-> Num(r.end, 100)]
        /\ tauri = [type |-> r.type, start |-> JsNum(r.start, 1), end |-> JsNum(r.end, 100)]
    BY <2>1 DEF SpecFromRequest, ToTauriSpec
  <2>3. ASSUME Plain(r) PROVE http = tauri
    <3>1. r.start # Empty /\ r.start <= LargestExact /\ r.end # Empty /\ r.end <= LargestExact
      BY <2>1, <2>3 DEF Plain
    <3>2. 1 \in Nat /\ 100 \in Nat
      OBVIOUS
    <3>3. JsNum(r.start, 1) = Num(r.start, 1) /\ JsNum(r.end, 100) = Num(r.end, 100)
      BY <2>1, <3>1, <3>2, PlainIsReadAlike
    <3> QED
      BY <2>2, <3>3
  <2>4. http.type = tauri.type
    BY <2>2
  <2>5. "count" \notin DOMAIN r
    BY <2>1
  <2> QED
    BY <2>3, <2>4, <2>5 DEF ReadAlike
<1>2. CASE r \in [type : {"primes", "powers-of-two"}, count : Parameters]
  <2>1. DOMAIN r = {"type", "count"} /\ r.type \in {"primes", "powers-of-two"} /\ r.count \in Parameters
    BY <1>2
  <2>2. 100 \in Nat /\ 32 \in Nat /\ 32 <= 100 /\ U32Size \in Nat /\ 32 < U32Size
    BY RequestAssumption
  <2>3. ASSUME Plain(r) PROVE r.count # Empty /\ r.count <= LargestExact /\ r.count < U32Size
    BY <2>1, <2>3 DEF Plain
  <2>4. CASE r.type = "primes"
    <3>1. /\ http = [type |-> "primes", count |-> Num(r.count, 100)]
          /\ tauri = [type |-> "primes", count |-> JsNum(r.count, 100)]
      BY <2>4 DEF SpecFromRequest, ToTauriSpec
    <3>2. Plain(r) => JsNum(r.count, 100) = Num(r.count, 100)
      BY <2>1, <2>2, <2>3, PlainIsReadAlike
    <3>3. Plain(r) => http = tauri
      BY <3>1, <3>2
    <3>4. http.count <= Num(r.count, 100)
      BY <2>1, <2>2, <3>1, NumIsNat
    <3>5. http.type = tauri.type
      BY <3>1
    <3> QED
      BY <3>3, <3>4, <3>5 DEF ReadAlike
  <2>5. CASE r.type = "powers-of-two"
    <3>1. /\ http = [type |-> "powers-of-two", count |-> AsU32(Num(r.count, 32))]
          /\ tauri = [type |-> "powers-of-two", count |-> JsNum(r.count, 32)]
      BY <2>5 DEF SpecFromRequest, ToTauriSpec
    <3>2. Num(r.count, 32) \in Nat /\ Num(r.count, 100) \in Nat /\ Num(r.count, 32) <= Num(r.count, 100)
      BY <2>1, <2>2 DEF Num, Parameters
    <3>3. ASSUME Plain(r) PROVE http = tauri
      <4>1. JsNum(r.count, 32) = Num(r.count, 32)
        BY <2>1, <2>2, <2>3, <3>3, PlainIsReadAlike
      <4>2. Num(r.count, 32) < U32Size
        BY <2>1, <2>2, <2>3, <3>3 DEF Num
      <4>3. AsU32(Num(r.count, 32)) = Num(r.count, 32)
        BY <3>2, <4>2, SmallIsKept
      <4> QED
        BY <3>1, <4>1, <4>3
    <3>4. http.count <= Num(r.count, 100)
      <4>1. AsU32(Num(r.count, 32)) \in Nat /\ AsU32(Num(r.count, 32)) <= Num(r.count, 32)
        BY <3>2, AsU32Shrinks
      <4>2. http.count = AsU32(Num(r.count, 32))
        BY <3>1
      <4> QED
        BY <3>2, <4>1, <4>2
    <3>5. http.type = tauri.type
      BY <3>1
    <3> QED
      BY <3>3, <3>4, <3>5 DEF ReadAlike
  <2> QED
    BY <2>1, <2>4, <2>5
<1>3. CASE r \in [type : {"random"}, count : Parameters, max : Parameters, seed : Parameters]
  <2>1. DOMAIN r = {"type", "count", "max", "seed"} /\ r.type = "random"
        /\ r.count \in Parameters /\ r.max \in Parameters /\ r.seed \in Parameters
    BY <1>3
  <2>2. /\ http = [type |-> "random", count |-> Num(r.count, 100),
                   max |-> AtLeastOne(Num(r.max, 10000)), seed |-> Num(r.seed, 42)]
        /\ tauri = [type |-> "random", count |-> JsNum(r.count, 100),
                    max |-> AtLeastOne(JsNum(r.max, 10000)), seed |-> JsNum(r.seed, 42)]
    BY <2>1 DEF SpecFromRequest, ToTauriSpec
  <2>3. 100 \in Nat /\ 10000 \in Nat /\ 42 \in Nat
    OBVIOUS
  <2>4. ASSUME Plain(r) PROVE http = tauri
    <3>1. /\ r.count # Empty /\ r.count <= LargestExact /\ r.max # Empty /\ r.max <= LargestExact
          /\ r.seed # Empty /\ r.seed <= LargestExact
      BY <2>1, <2>4 DEF Plain
    <3>2. /\ JsNum(r.count, 100) = Num(r.count, 100) /\ JsNum(r.max, 10000) = Num(r.max, 10000)
          /\ JsNum(r.seed, 42) = Num(r.seed, 42)
      BY <2>1, <2>3, <3>1, PlainIsReadAlike
    <3> QED
      BY <2>2, <3>2
  <2>5. http.count <= Num(r.count, 100)
    <3>1. Num(r.count, 100) \in Nat
      BY <2>1, <2>3, NumIsNat
    <3> QED
      BY <2>2, <3>1
  <2>6. http.type = tauri.type
    BY <2>2
  <2> QED
    BY <2>4, <2>5, <2>6 DEF ReadAlike
<1>4. CASE r \in [type : {"csv"}, csv : Seq(STRING)]
  <2>1. DOMAIN r = {"type", "csv"} /\ r.type = "csv"
    BY <1>4
  <2>2. http = CsvFromText(r.csv) /\ tauri = CsvFromText(r.csv)
    BY <2>1 DEF SpecFromRequest, ToTauriSpec
  <2>3. "count" \notin DOMAIN r
    BY <2>1
  <2> QED
    BY <2>2, <2>3 DEF ReadAlike
<1> QED
  BY <1>1, <1>2, <1>3, <1>4 DEF Asks

(* The two hosts give any request one meaning (dataset.rs:11,              *)
(* invoke.ts:198), as long as no text is empty, no number is beyond what   *)
(* JavaScript holds exactly and the count of powers of two fits 32 bits;   *)
(* and beyond that no host makes a stream longer than was asked for.       *)
THEOREM HostsAgree == RequestsSpec => []HostsReadTheSameSpec
<1> DEFINE Read == call = None \/ \E r \in Requests :
              call = [op |-> "spec", request |-> r, http |-> SpecFromRequest(r), tauri |-> ToTauriSpec(r)]
<1>1. RequestsInit => Read
  BY DEF RequestsInit
<1>2. Read /\ [RequestsNext]_call => Read'
  BY DEF RequestsNext, ReadsSpec
<1>3. Read => HostsReadTheSameSpec
  <2> SUFFICES ASSUME Read, call.op = "spec" PROVE HostsReadTheSameSpec
    BY DEF HostsReadTheSameSpec
  <2>1. PICK r \in Requests : 
           call = [op |-> "spec", request |-> r, http |-> SpecFromRequest(r), tauri |-> ToTauriSpec(r)]
    BY DEF None
  <2>2. call.request = r /\ call.http = SpecFromRequest(r) /\ call.tauri = ToTauriSpec(r)
    BY <2>1
  <2>3. r \in Asks
    BY RequestAssumption
  <2>4. ReadAlike(r, SpecFromRequest(r), ToTauriSpec(r))
    BY <2>3, RequestsAreReadAlike
  <2> QED
    BY <2>2, <2>4 DEF HostsReadTheSameSpec, ReadAlike
<1> QED
  BY <1>1, <1>2, <1>3, PTL DEF RequestsSpec
=============================================================================
