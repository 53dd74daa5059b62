---------------------------- MODULE DatasetRequests ----------------------------
(***************************************************************************)
(* The two ways a request becomes the specification of a dataset: the      *)
(* query string of the HTTP host (crates/statelab-app/src/dataset.rs) and  *)
(* the typed argument of the Tauri command, which the page builds          *)
(* (src/lib/invoke.ts), read one at a time.                                *)
(*                                                                         *)
(* A parameter is a natural number, Empty or Absent; every other text is   *)
(* refused by both parsers and behaves as Absent does.  CSV text is the    *)
(* sequence of its fields, "" where two separators touch.                  *)
(***************************************************************************)
EXTENDS Integers, Sequences, SequencesExt, FiniteSetsExt, CallState

CONSTANTS U32Size,       \* 2^32
          LargestExact,  \* 2^53, from which a JavaScript number skips odd ones
          Requests       \* what the Dataset Explorer asks a host for

Absent == -1
Empty == -2

Parameters == Nat \cup {Absent, Empty}

(* A request has a type, its parameters, and the fields of a CSV body. *)
Asks ==
    [type : {"range", "even", "odd"}, start : Parameters, end : Parameters]
    \cup [type : {"primes", "powers-of-two"}, count : Parameters]
    \cup [type : {"random"}, count : Parameters, max : Parameters, seed : Parameters]
    \cup [type : {"csv"}, csv : Seq(STRING)]

(* The default count of powers fits 32 bits. *)
ASSUME RequestAssumption ==
    /\ U32Size \in Nat /\ U32Size > 32
    /\ LargestExact \in Nat \ {0}
    /\ Requests \subseteq Asks

AtLeastOne(n) == Max({n, 1})

Filled(fields) == SelectSeq(fields, LAMBDA field : field # "")

CsvFromText(fields) == [type |-> "csv", values |-> Filled(fields)]

-----------------------------------------------------------------------------
(* dataset.rs, num: an empty text does not parse. *)
Num(value, default) == IF value \in {Absent, Empty} THEN default ELSE value

AsU32(n) == n % U32Size

SpecFromRequest(r) ==
    CASE r.type \in {"range", "even", "odd"} ->
            [type |-> r.type, start |-> Num(r.start, 1), end |-> Num(r.end, 100)]
      [] r.type = "random" ->
            [type |-> "random", count |-> Num(r.count, 100),
             max |-> AtLeastOne(Num(r.max, 10000)), seed |-> Num(r.seed, 42)]
      [] r.type = "primes" -> [type |-> "primes", count |-> Num(r.count, 100)]
      [] r.type = "powers-of-two" ->
            [type |-> "powers-of-two", count |-> AsU32(Num(r.count, 32))]
      [] r.type = "csv" -> CsvFromText(r.csv)

(* From LargestExact to its double a number is rounded to an even one,     *)
(* ties to the multiple of four; the requests enumerated stay below that.  *)
Exactly(n) ==
    IF n <= LargestExact \/ n % 2 = 0 THEN n ELSE IF n % 4 = 1 THEN n - 1 ELSE n + 1

(* Mutation of JsNum: an absent parameter is zero too.                     *)
JsNumOrZero(value, fallback) == IF value \in {Absent, Empty} THEN 0 ELSE Exactly(value)

(* invoke.ts, n: Number("") is zero, Number(undefined) is not a number. *)
JsNum(value, fallback) ==
    IF value = Absent THEN fallback ELSE IF value = Empty THEN 0 ELSE Exactly(value)

ToTauriSpec(r) ==
    CASE r.type \in {"range", "even", "odd"} ->
            [type |-> r.type, start |-> JsNum(r.start, 1), end |-> JsNum(r.end, 100)]
      [] r.type = "random" ->
            [type |-> "random", count |-> JsNum(r.count, 100),
             max |-> AtLeastOne(JsNum(r.max, 10000)), seed |-> JsNum(r.seed, 42)]
      [] r.type \in {"primes", "powers-of-two"} ->
            [type |-> r.type,
             count |-> JsNum(r.count, IF r.type = "primes" THEN 100 ELSE 32)]
      [] r.type = "csv" -> CsvFromText(r.csv)

ReadsSpec(r) ==
    call' = [op |-> "spec", request |-> r, http |-> SpecFromRequest(r), tauri |-> ToTauriSpec(r)]

RequestsInit == call = None

RequestsNext == \E r \in Requests : ReadsSpec(r)

RequestsSpec == RequestsInit /\ [][RequestsNext]_call

-----------------------------------------------------------------------------
(* The two hosts give one request one meaning (dataset.rs:11,              *)
(* invoke.ts:198), as long as no text is empty, no number is beyond what   *)
(* JavaScript holds exactly and the count of powers of two fits 32 bits;   *)
(* and beyond that no host makes a stream longer than was asked for.       *)
Plain(r) ==
    \A field \in DOMAIN r \ {"type", "csv"} :
        r[field] # Empty /\ r[field] <= LargestExact /\ (field = "count" => r[field] < U32Size)

HostsReadTheSameSpec ==
    call.op = "spec" =>
        /\ Plain(call.request) => call.http = call.tauri
        /\ call.http.type = call.tauri.type
        /\ "count" \in DOMAIN call.request =>
              call.http.count <= Num(call.request.count, 100)
=============================================================================
