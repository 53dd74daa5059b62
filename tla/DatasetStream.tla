---------------------------- MODULE DatasetStream ----------------------------
(***************************************************************************)
(* The dataset stream, end to end: the host generates, runs and summarizes *)
(* one item at a time (statelab-dataset/src/lib.rs) and sends a row per    *)
(* item, over an HTTP response delimited by the close of the connection    *)
(* (statelab-app) or over a Tauri channel (src-tauri); the client          *)
(* (src/lib/invoke.ts) hands each row on, and DatasetExplorer.tsx folds it *)
(* into what it shows, or collects it for a CSV file.                      *)
(*                                                                         *)
(* A row is the run it belongs to and its number.  On the HTTP wire it is  *)
(* three pieces, two parts of its JSON and the newline, so that the reader *)
(* may be given a chunk that ends anywhere; a Tauri message is a row.      *)
(***************************************************************************)
EXTENDS Naturals, Sequences, FiniteSetsExt

CONSTANTS Items,         \* size of the dataset asked for
          Cap,           \* MAX_DATASET_ITEMS
          RowWindow,     \* ROW_WINDOW
          FlushEvery,    \* FLUSH_EVERY
          MaxRuns        \* bound on the runs a user starts

ASSUME SizesAssumption ==
    {Items, Cap, RowWindow, FlushEvery, MaxRuns} \subseteq Nat /\ FlushEvery > 0

Runs == 1 .. MaxRuns
NewlinePart == 3
NoFile == <<"no file">>

VARIABLES transport,  \* "http" or "tauri"
          host,       \* host[r]: the thread serving run r
          wire,       \* wire[r]: what it sent and the client has not read
          conn,       \* conn[r]: open, ended, broken, or dropped by the client
          crashed,    \* the HTTP server process is gone
          run, mode,  \* the latest run, shown ("view") or exported ("export")
          running,
          cancelled,  \* the AbortSignal of the latest run has fired
          calling,    \* its request has been issued: no import is awaited
          ignoring,   \* Tauri: the abort listener ran, rows are ignored
          outcome,    \* how the latest run ended
          buffer,     \* what the reader holds of an unfinished line
          view,       \* the refs of the explorer and what is rendered of them
          lines, file \* the CSV lines of an export, and what was downloaded

hostVars == <<transport, crashed, host>>
abortVars == <<cancelled, calling, ignoring>>
clientVars == <<run, mode, running, abortVars, outcome, buffer, view, lines, file>>
vars == <<hostVars, wire, conn, clientVars>>

(* Mutation of Total: the cap is not applied. *)
UncappedTotal == Items

(* take(MAX_DATASET_ITEMS) *)
Total == Min({Items, Cap})

Idle == [state |-> "idle", item |-> 0, part |-> 1]

(***************************************************************************)
(* The refs of the explorer, and the state it renders.  start_ hands the   *)
(* ref's own aggregate to React, and accumulate mutates it in place: until *)
(* the first copy, any rendering shows it live.                            *)
(***************************************************************************)
EmptyView == [agg |-> <<>>, rows |-> <<>>, sinceFlush |-> 0,
              live |-> TRUE, shownAgg |-> <<>>, shownRows |-> <<>>]

ShownAgg(v) == IF v.live THEN v.agg ELSE v.shownAgg

Init ==
    /\ transport \in {"http", "tauri"}
    /\ host = [r \in Runs |-> Idle]
    /\ wire = [r \in Runs |-> <<>>]
    /\ conn = [r \in Runs |-> "open"]
    /\ crashed = FALSE
    /\ run = 0 /\ mode = "view"
    /\ running = FALSE
    /\ cancelled = FALSE /\ calling = FALSE /\ ignoring = FALSE
    /\ outcome = "none"
    /\ buffer = <<>>
    /\ view = EmptyView
    /\ lines = <<>> /\ file = NoFile

-----------------------------------------------------------------------------
(***************************************************************************)
(* The host: for_each_summary and its two sinks.                           *)
(***************************************************************************)
HostIs(r, state, item, part) ==
    host' = [host EXCEPT ![r] = [state |-> state, item |-> item, part |-> part]]

Accept(r) ==
    /\ host[r].state = "asked"
    /\ HostIs(r, "sending", 0, 1)
    /\ UNCHANGED <<transport, crashed, wire, conn>>
    /\ UNCHANGED clientVars

(* 400 for an unreadable spec; a Tauri argument that does not deserialize. *)
Refuse(r) ==
    /\ host[r].state = "asked"
    /\ HostIs(r, "done", 0, 1)
    /\ conn' = [conn EXCEPT ![r] = IF @ = "open" THEN "refused" ELSE @]
    /\ UNCHANGED <<transport, crashed, wire>>
    /\ UNCHANGED clientVars

(* Mutation of End: the connection is not closed. *)
KeepOpen(r) ==
    /\ host[r].state = "sending" /\ host[r].item = Total
    /\ HostIs(r, "done", 0, 1)
    /\ UNCHANGED <<transport, crashed, wire, conn>>
    /\ UNCHANGED clientVars

(* The end of the dataset; the HTTP handler closes its connection. *)
End(r) ==
    /\ host[r].state = "sending" /\ host[r].item = Total
    /\ HostIs(r, "done", 0, 1)
    /\ conn' = [conn EXCEPT ![r] = IF @ = "open" THEN "ended" ELSE @]
    /\ UNCHANGED <<transport, crashed, wire>>
    /\ UNCHANGED clientVars

Sent(r, part) ==
    IF transport = "tauri" \/ part = NewlinePart
    THEN HostIs(r, "sending", host[r].item + 1, 1)
    ELSE HostIs(r, "sending", host[r].item, part + 1)

(* Run the engine on the next item, summarize, and send: a row over the    *)
(* channel, or one of its three pieces over the socket.  What is written   *)
(* to a connection the client has dropped goes nowhere.                    *)
Send(r) ==
    /\ host[r].state = "sending" /\ host[r].item < Total
    /\ LET row == <<r, host[r].item + 1>>
           message == IF transport = "tauri" THEN row
                      ELSE [row |-> row, part |-> host[r].part]
       IN wire' = [wire EXCEPT ![r] =
                     IF conn[r] = "open" THEN Append(@, message) ELSE @]
    /\ Sent(r, host[r].part)
    /\ UNCHANGED <<transport, crashed, conn>>
    /\ UNCHANGED clientVars

(* A write to a dropped connection fails, now or later: generation stops. *)
SendFails(r) ==
    /\ host[r].state = "sending" /\ host[r].item < Total
    /\ conn[r] = "dropped"
    /\ HostIs(r, "done", 0, 1)
    /\ UNCHANGED <<transport, crashed, wire, conn>>
    /\ UNCHANGED clientVars

(* The server process ends.  The system closes its sockets: to the reader  *)
(* that is the end of the response, or an error when it was a reset.       *)
Crash ==
    /\ transport = "http" /\ ~crashed
    /\ crashed' = TRUE
    /\ host' = [r \in Runs |-> IF host[r] = Idle THEN Idle
                               ELSE [Idle EXCEPT !.state = "done"]]
    /\ \E how \in {"ended", "broken"} :
          conn' = [r \in Runs |->
                     IF conn[r] # "open" \/ host[r].state = "idle" THEN conn[r]
                     ELSE IF host[r].state = "asked" THEN "broken" ELSE how]
    /\ UNCHANGED <<transport, wire>>
    /\ UNCHANGED clientVars

-----------------------------------------------------------------------------
(***************************************************************************)
(* The explorer: what start_, exportCsv and their onRow do.                *)
(***************************************************************************)
Start(how) ==
    /\ ~running /\ run < MaxRuns
    /\ run' = run + 1 /\ mode' = how
    /\ running' = TRUE
    /\ cancelled' = FALSE /\ calling' = FALSE /\ ignoring' = FALSE
    /\ outcome' = "none"
    /\ buffer' = <<>>
    /\ view' = IF how = "view" THEN EmptyView ELSE view
    /\ lines' = <<>> /\ file' = NoFile
    /\ UNCHANGED <<hostVars, wire, conn>>

Streaming == running /\ run \in Runs

(***************************************************************************)
(* The request goes out: in the browser at once (before a Stop), under     *)
(* Tauri when the dynamic import of its API has been awaited.  Only then   *)
(* is the abort listener added, which a signal already fired does not call. *)
(***************************************************************************)
Call ==
    /\ Streaming /\ ~calling
    /\ calling' = TRUE
    /\ IF crashed
       THEN conn' = [conn EXCEPT ![run] = "broken"] /\ UNCHANGED host
       ELSE host' = [host EXCEPT ![run].state = "asked"] /\ UNCHANGED conn
    /\ UNCHANGED <<transport, crashed, wire, run, mode, running, cancelled, ignoring,
                   outcome, buffer, view, lines, file>>

Rendered(v) == [v EXCEPT !.live = FALSE, !.shownAgg = v.agg, !.shownRows = v.rows]
Flush(v) == [Rendered(v) EXCEPT !.sinceFlush = 0]

ViewRow(v, row) ==
    LET counted == [v EXCEPT !.agg = Append(@, row),
                             !.rows = IF Len(@) < RowWindow THEN Append(@, row) ELSE @,
                             !.sinceFlush = @ + 1]
    IN IF counted.sinceFlush >= FlushEvery THEN Flush(counted) ELSE counted

Viewed(v, row) == IF mode = "view" THEN ViewRow(v, row) ELSE v
Collected(c, row) == IF mode = "export" THEN Append(c, row) ELSE c

(* Mutation of Settle: no final flush. *)
SettleUnrendered(how, v, collected) ==
    /\ running' = FALSE
    /\ outcome' = how
    /\ buffer' = <<>>
    /\ view' = v
    /\ lines' = collected
    /\ file' = IF mode = "export" /\ how = "resolved" THEN collected ELSE file

(* The promise settles.  The finally block of start_ renders what arrived, *)
(* however it ended; a file is made only if it resolved.                   *)
Settle(how, v, collected) ==
    /\ running' = FALSE
    /\ outcome' = how
    /\ buffer' = <<>>
    /\ view' = IF mode = "view" THEN Rendered(v) ELSE v
    /\ lines' = collected
    /\ file' = IF mode = "export" /\ how = "resolved" THEN collected ELSE file

(***************************************************************************)
(* The HTTP reader.  A newline ends a line; an empty line is skipped, and  *)
(* JSON.parse throws at one that is not exactly a row.  A parse in course  *)
(* has the text left, what the rows so far were folded or made into, and   *)
(* whether none threw.  The inner loop is a recursive function, not a      *)
(* fold, since it stops early and is proved about.                         *)
(***************************************************************************)
Parse(text) == [text |-> text, view |-> view, lines |-> lines, ok |-> TRUE]

Newlines(text) == {i \in DOMAIN text : text[i].part = NewlinePart}

IsRow(line) ==
    /\ Len(line) = 2
    /\ line[1].row = line[2].row /\ line[1].part = 1 /\ line[2].part = 2

OnLine(parse, line) ==
    IF line = <<>> THEN parse
    ELSE IF IsRow(line)
    THEN [parse EXCEPT !.view = Viewed(@, line[1].row), !.lines = Collected(@, line[1].row)]
    ELSE [parse EXCEPT !.ok = FALSE]

(* One turn of the loop, while a newline is left. *)
TakeLine(parse) ==
    LET newline == Min(Newlines(parse.text))
    IN IF ~parse.ok \/ Newlines(parse.text) = {} THEN parse
       ELSE OnLine([parse EXCEPT !.text = SubSeq(@, newline + 1, Len(@))],
                   SubSeq(parse.text, 1, newline - 1))

(* As many turns as there could be newlines. *)
Parsed(text) ==
    LET after[n \in 0 .. Len(text)] ==
            IF n = 0 THEN Parse(text) ELSE TakeLine(after[n - 1])
    IN after[Len(text)]

(* Mutation of Arrived: the tail of the last chunk is not kept. *)
ArrivedAlone(chunk) == chunk

Arrived(chunk) == buffer \o chunk

(* reader.read() resolves with a chunk, cut anywhere. *)
ReadChunk ==
    /\ Streaming /\ transport = "http" /\ wire[run] # <<>>
    /\ \E n \in 1 .. Len(wire[run]) :
          LET parse == Parsed(Arrived(SubSeq(wire[run], 1, n)))
          IN /\ wire' = [wire EXCEPT ![run] = SubSeq(@, n + 1, Len(@))]
             /\ IF parse.ok
                THEN /\ view' = parse.view /\ lines' = parse.lines /\ buffer' = parse.text
                     /\ UNCHANGED <<running, outcome, file>>
                ELSE Settle("error", parse.view, parse.lines)
    /\ UNCHANGED <<transport, crashed, host, conn, run, mode, abortVars>>

(* The response ended: what is left in the buffer is tried as a last line. *)
ReadEnd ==
    /\ Streaming /\ transport = "http" /\ wire[run] = <<>> /\ conn[run] = "ended"
    /\ LET last == OnLine(Parse(buffer), buffer)
       IN Settle(IF last.ok THEN "resolved" ELSE "error", last.view, last.lines)
    /\ UNCHANGED <<transport, crashed, host, wire, conn, run, mode, abortVars>>

(* A status that is not ok, or a reset, whose unread data is lost.  The    *)
(* Tauri promise rejects.                                                  *)
ReadError ==
    /\ Streaming /\ conn[run] \in {"refused", "broken"}
    /\ Settle("error", view, lines)
    /\ wire' = [wire EXCEPT ![run] = <<>>]
    /\ UNCHANGED <<transport, crashed, host, conn, run, mode, abortVars>>

(* The Tauri channel delivers the rows in order; an aborted one is ignored. *)
Deliver ==
    /\ Streaming /\ transport = "tauri" /\ wire[run] # <<>>
    /\ wire' = [wire EXCEPT ![run] = Tail(@)]
    /\ view' = IF ignoring THEN view ELSE Viewed(view, Head(wire[run]))
    /\ lines' = IF ignoring THEN lines ELSE Collected(lines, Head(wire[run]))
    /\ UNCHANGED <<transport, crashed, host, conn, run, mode, running, abortVars,
                   outcome, buffer, file>>

(* The command's promise resolves once the host is done. *)
Resolve ==
    /\ Streaming /\ transport = "tauri" /\ wire[run] = <<>> /\ conn[run] = "ended"
    /\ Settle("resolved", view, lines)
    /\ UNCHANGED <<transport, crashed, host, wire, conn, run, mode, abortVars>>

(***************************************************************************)
(* Stop.  The fetch, or the pending read, rejects with an AbortError and   *)
(* the connection is dropped; under Tauri only a flag is set.              *)
(***************************************************************************)
Stop ==
    /\ Streaming /\ ~cancelled /\ (transport = "http" => calling)
    /\ cancelled' = TRUE
    /\ IF transport = "http"
       THEN /\ Settle("aborted", view, lines)
            /\ conn' = [conn EXCEPT ![run] = "dropped"]
            /\ wire' = [wire EXCEPT ![run] = <<>>]
            /\ UNCHANGED ignoring
       ELSE /\ ignoring' = calling
            /\ UNCHANGED <<running, outcome, buffer, view, lines, file, conn, wire>>
    /\ UNCHANGED <<transport, crashed, host, run, mode, calling>>

-----------------------------------------------------------------------------
HostStep(r) == Accept(r) \/ Send(r) \/ End(r)
ClientStep == Call \/ ReadChunk \/ ReadEnd \/ ReadError \/ Deliver \/ Resolve

(* Nothing more is asked and every thread is done. *)
Quiet ==
    /\ ~running /\ run = MaxRuns
    /\ \A r \in Runs : host[r].state \in {"idle", "done"}
    /\ UNCHANGED vars

Next ==
    \/ \E r \in Runs : HostStep(r) \/ Refuse(r) \/ SendFails(r)
    \/ ClientStep
    \/ \E how \in {"view", "export"} : Start(how)
    \/ Stop
    \/ Crash
    \/ Quiet

(***************************************************************************)
(* The host thread is scheduled, an item takes finitely long, and the      *)
(* event loop reads what has arrived.  Nobody is obliged to press Stop.    *)
(***************************************************************************)
Fairness == WF_vars(ClientStep) /\ \A r \in Runs : WF_vars(HostStep(r))

Spec == Init /\ [][Next]_vars

FairSpec == Spec /\ Fairness

-----------------------------------------------------------------------------
FirstRows(rows) == \A i \in DOMAIN rows : rows[i][2] = i

(* What the explorer folds is the first rows of one run, each once and in  *)
(* order: however the response is cut into chunks, wherever it stops, and  *)
(* whatever an earlier, aborted run still sends (invoke.ts, streamDataset).*)
RowsAreAPrefix ==
    /\ FirstRows(view.agg) /\ FirstRows(lines)
    /\ \A i \in DOMAIN view.agg : mode = "view" => view.agg[i][1] = run
    /\ \A i \in DOMAIN lines : lines[i][1] = run

(* What may cut a stream that resolves all the same: the server crashed,   *)
(* or the abort listener ran under Tauri.                                  *)
Cut == IF transport = "http" THEN crashed ELSE ignoring

(* A stream that resolves has handed on the whole dataset, up to the cap:  *)
(* nothing is left in a buffer or on the wire (for_each_summary,           *)
(* streamDataset), and the file made of it is whole too, stopped or not    *)
(* (exportCsv).  A cut one is the head of the dataset, and nothing else is *)
(* ever shorter: over HTTP no stop makes a file, and under Tauri a stop    *)
(* that was lost makes a whole one.                                        *)
EndedIsComplete ==
    LET Whole(rows) == FirstRows(rows) /\ (Cut \/ Len(rows) = Min({Items, Cap}))
    IN /\ outcome = "resolved" => Whole(IF mode = "view" THEN view.agg ELSE lines)
       /\ file # NoFile => Whole(file)

(* What is rendered is never FLUSH_EVERY rows behind, is everything once   *)
(* the run is over, and the table is the head of it, but for the rows that *)
(* the first flush has yet to show (DatasetExplorer.tsx).                  *)
DisplayFollows ==
    LET shown == ShownAgg(view)
    IN /\ Len(view.agg) - Len(shown) < FlushEvery
       /\ run > 0 /\ ~running => shown = view.agg
       /\ \/ view.shownRows = SubSeq(shown, 1, Min({RowWindow, Len(shown)}))
          \/ view.live /\ view.shownRows = <<>> /\ Len(shown) < FlushEvery

(* A run ends: no transport, stop, refusal or crash leaves the explorer    *)
(* with only its Stop button.                                              *)
EveryRunEnds == running ~> ~running

(* invoke.ts:144 has the stream aborted through the signal: no row of a    *)
(* stopped run is handed on.  Checked to fail: a signal that fires while   *)
(* the Tauri API is being imported is never noticed.                       *)
NoRowAfterStop ==
    [][cancelled /\ run' = run => view'.agg = view.agg /\ lines' = lines]_vars
=============================================================================
