----------------------------- MODULE Presentation -----------------------------
(***************************************************************************)
(* What the page makes of a finished trajectory without keeping state, one *)
(* call at a time: feature vectors and their normalization                 *)
(* (comparison-lab/features.ts), the table of metrics                      *)
(* (feature-analysis/metrics.ts), the CSV export and its metadata          *)
(* (export-center), the charts (chartCanvas.ts, OverlayChart, toSvg) and   *)
(* the turtle path of the coral (coralPath.ts).                            *)
(*                                                                         *)
(* Floating point is replaced by thousandths, pixels by integers; the      *)
(* logarithm of a chart by the bit length, which grows with it; an angle   *)
(* is a number of quarter turns, so that every point is exact.             *)
(***************************************************************************)
EXTENDS NumberSystems

CONSTANTS Series,      \* sequences of values to draw, NA where not finite
          Canvases,    \* widths and heights of a picture
          Comparisons, \* lists of inputs to compare, of which Refused ones
          Corals,      \* turtle parameters
          Parities     \* parity sequences

(* What is compared is not empty, and a picture larger than its margins.   *)
ASSUME PictureAssumption ==
    /\ Series \subseteq Seq(Nat \cup {NA})
    /\ Canvases \subseteq {n \in Nat : n > 48} \X {n \in Nat : n > 48}
    /\ Comparisons \subseteq Seq(Nat \cup {NA}) \ {<<>>}
    /\ Corals \subseteq [oddAngle : Int, evenAngle : Int, lineLength : Nat, rotation : Int]
    /\ Parities \subseteq Seq({0, 1})

Undefined == -2

(* Trajectory::assemble, and system_error for input that was refused. *)
Finished(system, n, limit) ==
    LET run == RunSystem(system, n, limit)
    IN [initial_state |-> n, status |-> run.status, states |-> run.states,
        metrics |-> Metrics(run.states)]

(* What was typed comes back as the only state: NA unless it is a number.  *)
SystemError(raw) ==
    [initial_state |-> raw, status |-> "SystemError", states |-> <<raw>>, metrics |-> [key \in {} |-> NA]]

Metric(t, key) == IF key \in DOMAIN t.metrics THEN t.metrics[key] ELSE Undefined

-----------------------------------------------------------------------------
(* features.ts *)
ComparisonFeatures ==
    <<"total_stopping_time", "stopping_time", "peak_index", "maximum_bit_length", "odd_count",
      "even_count", "odd_ratio", "even_ratio", "average_growth", "average_decline">>

ToNumber(v) == IF v \in {NA, Undefined} THEN 0 ELSE v

FeatureVector(t) == [i \in DOMAIN ComparisonFeatures |-> ToNumber(Metric(t, ComparisonFeatures[i]))]

DotProduct(a, b) ==
    LET sum[i \in 0 .. Len(a)] == IF i = 0 THEN 0 ELSE sum[i - 1] + a[i] * b[i]
    IN sum[Len(a)]

(* Kept as its dot product and the squares of the norms: zero if one is.   *)
CosineSimilarity(a, b) ==
    LET norms == {DotProduct(a, a), DotProduct(b, b)}
    IN [dot |-> IF 0 \in norms THEN 0 ELSE DotProduct(a, b), norms |-> norms]

SimilarityMatrix(vectors) ==
    [i \in DOMAIN vectors |-> [j \in DOMAIN vectors |-> CosineSimilarity(vectors[i], vectors[j])]]

Column(vectors, i) == {v[i] : v \in ToSet(vectors)}

Stretch(x, values) ==
    IF Max(values) = Min(values) THEN 0
    ELSE ((x - Min(values)) * Scale) \div (Max(values) - Min(values))

MinMaxNormalizeSet(vectors) ==
    [k \in DOMAIN vectors |->
        [i \in DOMAIN vectors[k] |-> Stretch(vectors[k][i], Column(vectors, i))]]

(* Mutation of Finite: what is no number is not left out. *)
FiniteOrNot(values) == ToSet(values)

Finite(values) == {v \in ToSet(values) : v # NA}

NormalizeSeries(values) ==
    [i \in DOMAIN values |->
        IF Finite(values) = {} THEN 0
        ELSE IF values[i] = NA /\ Cardinality(Finite(values)) > 1 THEN NA
        ELSE Stretch(values[i], Finite(values))]

-----------------------------------------------------------------------------
(* feature-analysis/metrics.ts *)
MetricsTable ==
    <<"stopping_time", "total_stopping_time", "peak_value", "peak_index", "maximum_bit_length",
      "odd_count", "even_count", "odd_ratio", "even_ratio", "average_growth", "average_decline",
      "parity_sequence", "bit_length_evolution", "binary_transition_statistics",
      "run_length_statistics">>

Lists == {"parity_sequence", "bit_length_evolution", "run_length_statistics"}
MaxArrayItems == 60

(* What a cell shows: a wording, or a value with the items left out of it.  *)
FormatMetric(t, key) ==
    IF key \notin DOMAIN t.metrics THEN [wording |-> "Metric Not Supported"]
    ELSE LET v == t.metrics[key]
         IN IF key \in Lists
            THEN [value |-> SubSeq(v, 1, Min({MaxArrayItems, Len(v)})),
                  hidden |-> Max({0, Len(v) - MaxArrayItems})]
            ELSE IF key # "binary_transition_statistics" /\ v = NA THEN [wording |-> "N/A"]
            ELSE [value |-> v, hidden |-> 0]

-----------------------------------------------------------------------------
(* exporters.ts, metadata.ts *)
RequiredMetadataFields ==
    {"application_version", "engine_version", "trajectory_schema_version",
     "visualization_version", "iteration_limit", "cycle_detection", "dataset_definition",
     "rendering_parameters", "timestamp", "platform_information"}

(* Versions, times and platforms are opaque: only where they come from is kept. *)
BuildMetadata(limit, source, definition, rendering) ==
    [application_version |-> "application", engine_version |-> source,
     trajectory_schema_version |-> source, visualization_version |-> "visualization",
     iteration_limit |-> limit, cycle_detection |-> limit,
     dataset_definition |-> definition, rendering_parameters |-> rendering,
     timestamp |-> "now", platform_information |-> source]

ExportMetadata(t, limit, rendering) ==
    BuildMetadata(limit, "trajectory", <<"single", t.initial_state>>, rendering)

DatasetMetadata(definition, limit) == BuildMetadata(limit, "stream", definition, <<>>)

CsvCell(values, i) == IF i \in DOMAIN values THEN values[i] ELSE Undefined

(* One comment line per field, the header, one row per state. *)
ToCsv(t, metadata) ==
    LET List(key) == IF key \in DOMAIN t.metrics THEN t.metrics[key] ELSE <<>>
    IN [comments |-> Cardinality(DOMAIN metadata),
        rows |-> [i \in DOMAIN t.states |->
                    <<i - 1, t.states[i], CsvCell(List("bit_length_evolution"), i),
                      CsvCell(List("parity_sequence"), i)>>]]

-----------------------------------------------------------------------------
(* A chart puts value number i of n at a point of the frame left..right by *)
(* top..bottom; y grows downwards and values that are not finite are left  *)
(* out.                                                                    *)
SeriesBounds(finite) ==
    IF finite = {} THEN [min |-> 0, max |-> 1]
    ELSE [min |-> Min(finite \cup {0}), max |-> Max(finite)]

Across(i, n, frame) ==
    frame.left + IF n <= 1 THEN 0 ELSE ((i - 1) * (frame.right - frame.left)) \div (n - 1)

Height(v, bounds, frame) ==
    LET span == IF bounds.max = bounds.min THEN 1 ELSE bounds.max - bounds.min
    IN frame.bottom - ((v - bounds.min) * (frame.bottom - frame.top)) \div span

Plot(values, bounds, frame) ==
    LET n == Len(values)
        points[i \in 0 .. n] ==
            IF i = 0 THEN <<>>
            ELSE IF values[i] = NA THEN points[i - 1]
            ELSE Append(points[i - 1], <<Across(i, n, frame), Height(values[i], bounds, frame)>>)
    IN points[n]

ApplyScale(values, scale) ==
    [i \in DOMAIN values |->
        IF scale = "linear" \/ values[i] = NA THEN values[i] ELSE Bits[values[i] + 1] - 1]

Frame(width, height, side, top) ==
    [left |-> side, right |-> width - side, top |-> top, bottom |-> height - side]

DrawTrajectory(values, scale, width, height) ==
    LET scaled == ApplyScale(values, scale)
    IN Plot(scaled, SeriesBounds(Finite(scaled)), Frame(width, height, 10, 14))

ToSvg(values, scale, width, height) ==
    LET scaled == ApplyScale(values, scale)
    IN Plot(scaled, SeriesBounds(Finite(scaled)), Frame(width, height, 24, 24))

Transformed(values, mode) ==
    IF mode = "normalized" THEN NormalizeSeries(values)
    ELSE ApplyScale(values, IF mode = "log" THEN "log" ELSE "linear")

DrawOverlay(series, mode, width, height) ==
    LET shown == [k \in DOMAIN series |-> Transformed(series[k], mode)]
        all == UNION {Finite(s) : s \in ToSet(shown)}
    IN IF all = {} THEN <<>>
       ELSE [k \in DOMAIN shown |-> Plot(shown[k], SeriesBounds(all), Frame(width, height, 10, 14))]

-----------------------------------------------------------------------------
(* coralPath.ts *)
DirectionRules ==
    {"relative", "absolute", "rotate-before", "rotate-after", "alternating", "aesthetic"}

Cos(quarters) == <<1, 0, -1, 0>>[(quarters % 4) + 1]
Sin(quarters) == <<0, 1, 0, -1>>[(quarters % 4) + 1]

Turn(bit, params) == IF bit = 1 THEN params.oddAngle ELSE params.evenAngle

Walk(parity, rule) == IF rule = "aesthetic" THEN Reverse(parity) ELSE parity

Bend(pen, i, bit, params, rule) ==
    LET turn == Turn(bit, params)
    IN CASE rule = "absolute" -> params.rotation + turn
         [] rule = "alternating" -> pen.heading + IF i % 2 = 1 THEN turn ELSE -turn
         [] OTHER -> pen.heading + turn

(* One bit: the pen turns and draws a segment, in the order of the rule. *)
Draw(pen, i, bit, params, rule) ==
    LET heading == Bend(pen, i, bit, params, rule)
        drawn == IF rule = "rotate-after" THEN pen.heading ELSE heading
        from == Last(pen.points)
    IN [heading |-> heading,
        points |-> Append(pen.points, <<from[1] + Cos(drawn) * params.lineLength,
                                        from[2] + Sin(drawn) * params.lineLength>>)]

CoralPath(parity, params, rule) ==
    LET walk == Walk(parity, rule)
        pen[i \in 0 .. Len(walk)] ==
            IF i = 0 THEN [heading |-> params.rotation, points |-> <<<<0, 0>>>>]
            ELSE Draw(pen[i - 1], i, walk[i], params, rule)
    IN pen[Len(walk)].points

PathBounds(points) ==
    IF points = <<>> THEN <<0, 1, 0, 1>>
    ELSE LET xs == {p[1] : p \in ToSet(points)}
             ys == {p[2] : p \in ToSet(points)}
         IN <<Min(xs), Max(xs), Min(ys), Max(ys)>>

-----------------------------------------------------------------------------
(* The calls. *)
Draws(values, scale, size) ==
    call' = [op |-> "draw", values |-> values, size |-> size,
             canvas |-> DrawTrajectory(values, scale, size[1], size[2]),
             svg |-> ToSvg(values, scale, size[1], size[2])]

Overlays(pair, mode, size) ==
    call' = [op |-> "overlay", series |-> pair, mode |-> mode, size |-> size,
             out |-> DrawOverlay(pair, mode, size[1], size[2])]

(* What a run of the page comes to.  What is refused here is 0 or no       *)
(* number; other refused texts that JavaScript reads as one are left out.  *)
Refused == {0, NA}

Candidate(system, n, limit) ==
    IF n \in Refused THEN SystemError(n) ELSE Finished(system, n, limit)

Compares(system, list, limit) ==
    LET vectors == [k \in DOMAIN list |-> FeatureVector(Candidate(system, list[k], limit))]
    IN call' = [op |-> "compare", list |-> list, vectors |-> vectors, out |-> MinMaxNormalizeSet(vectors),
                similarity |-> SimilarityMatrix(vectors)]

Grows(parity, params, rule) ==
    call' = [op |-> "coral", parity |-> parity, params |-> params, rule |-> rule,
             out |-> CoralPath(parity, params, rule)]

Exports(t, limit) ==
    LET metadata == ExportMetadata(t, limit, <<>>)
    IN call' = [op |-> "csv", of |-> t, metadata |-> metadata, out |-> ToCsv(t, metadata),
                dataset |-> DatasetMetadata(<<"dataset", t.initial_state>>, limit),
                cells |-> [key \in ToSet(MetricsTable) |-> FormatMetric(t, key)]]

Charts ==
    \/ \E values \in Series, scale \in {"linear", "log"}, size \in Canvases : Draws(values, scale, size)
    \/ \E pair \in Series \X Series, mode \in {"raw", "log", "normalized"}, size \in Canvases :
          Overlays(pair, mode, size)
    \/ \E parity \in Parities, params \in Corals, rule \in DirectionRules :
          Grows(parity, params, rule)

Tables ==
    \E system \in DOMAIN Multiplier, limit \in Limits :
        \/ \E list \in Comparisons : Compares(system, list, limit)
        \/ \E n \in Starts \cup Refused : Exports(Candidate(system, n, limit), limit)

PicturesInit == call = None

PicturesNext == call = None /\ (Charts \/ Tables)

PicturesSpec == PicturesInit /\ [][PicturesNext]_call

-----------------------------------------------------------------------------
Inside(points, frame) ==
    \A k \in DOMAIN points : /\ points[k][1] \in frame.left .. frame.right
                             /\ points[k][2] \in frame.top .. frame.bottom

(* How many of the first i values are drawn. *)
Drawn(values, i) == Cardinality({j \in 1 .. i : values[j] # NA})

(* Larger values are never drawn lower, and later ones never further left. *)
Keeps(values, points) ==
    LET finite == {i \in DOMAIN values : values[i] # NA}
        At(i) == points[Drawn(values, i)]
    IN /\ Len(points) = Cardinality(finite)
       /\ \A i, j \in finite :
             /\ i < j => At(i)[1] <= At(j)[1]
             /\ values[i] <= values[j] => At(i)[2] >= At(j)[2]

(* The states of a refused entry, or nothing. *)
Undrawn(values) == ToSet(values) \subseteq Refused

DrawnAlone(values, mode, size) == DrawOverlay(<<values>>, mode, size[1], size[2])[1]

ColumnIsSpread(column) ==
    /\ column \subseteq 0 .. Scale
    /\ 0 \in column
    /\ column # {0} => Scale \in column

Segments(points) ==
    [k \in 1 .. Len(points) - 1 |->
        <<points[k + 1][1] - points[k][1], points[k + 1][2] - points[k][2]>>]

SquaredLength(d) == d[1] * d[1] + d[2] * d[2]

(* What a cell leaves out of a list is counted. *)
Accounted(t, cells) ==
    \A key \in Lists \cap DOMAIN t.metrics :
        Len(cells[key].value) + cells[key].hidden = Len(t.metrics[key])

(* A chart stays in its frame and in the order of its values, and an entry *)
(* that was refused, for zero or no number, moves no other curve of an     *)
(* overlay and is similar to nothing; normalized features span the whole   *)
(* scale column by column; a coral has one segment of the same length per  *)
(* transition, the aesthetic rule draws what two trajectories have in      *)
(* common at their ends as one trunk, rotate-after lags rotate-before by a *)
(* segment; and an exported table has every state and every required       *)
(* field, a shown one all its items or their number (chartCanvas.ts:70,    *)
(* OverlayChart.tsx:81, features.ts:63, coralPath.ts:83, exporters.ts:27,  *)
(* feature-analysis/metrics.ts:94).                                        *)
PicturesStayTrue ==
    /\ call.op = "draw" =>
         /\ Inside(call.canvas, Frame(call.size[1], call.size[2], 10, 14))
         /\ Inside(call.svg, Frame(call.size[1], call.size[2], 24, 24))
         /\ Keeps(call.values, call.canvas) /\ Keeps(call.values, call.svg)
    /\ call.op = "overlay" =>
         \A k \in DOMAIN call.out :
             /\ Inside(call.out[k], Frame(call.size[1], call.size[2], 10, 14))
             /\ call.mode # "normalized" => Keeps(call.series[k], call.out[k])
             /\ /\ ~ (ToSet(call.series[k]) \subseteq {NA})
                /\ \A j \in DOMAIN call.out \ {k} : Undrawn(call.series[j])
                => call.out[k] = DrawnAlone(call.series[k], call.mode, call.size)
    /\ call.op = "compare" =>
         /\ \A i \in DOMAIN ComparisonFeatures : ColumnIsSpread(Column(call.out, i))
         /\ \A i, j \in DOMAIN call.vectors :
               /\ call.similarity[i][j] = call.similarity[j][i]
               /\ call.list[i] \in Refused => call.similarity[i][j].dot = 0
               /\ call.vectors[i] = call.vectors[j] =>
                     call.similarity[i][j].norms = {call.similarity[i][j].dot}
    /\ call.op = "coral" =>
         LET segments == Segments(call.out)
             before == Segments(CoralPath(call.parity, call.params, "rotate-before"))
             box == PathBounds(call.out)
         IN /\ Len(call.out) = Len(call.parity) + 1
            /\ \A k \in DOMAIN segments :
                  SquaredLength(segments[k]) = call.params.lineLength * call.params.lineLength
            /\ \A k \in DOMAIN call.out : /\ call.out[k][1] \in box[1] .. box[2]
                                          /\ call.out[k][2] \in box[3] .. box[4]
            /\ call.rule = "aesthetic" =>
                  \A k \in 1 .. Len(call.parity) :
                      IsPrefix(CoralPath(SubSeq(call.parity, k, Len(call.parity)),
                                         call.params, "aesthetic"), call.out)
            /\ call.rule = "rotate-after" =>
                  \A k \in 2 .. Len(segments) : segments[k] = before[k - 1]
    /\ call.op = "csv" =>
         /\ RequiredMetadataFields = DOMAIN call.metadata
         /\ DOMAIN call.dataset = DOMAIN call.metadata
         /\ [i \in DOMAIN call.out.rows |-> call.out.rows[i][2]] = call.of.states
         /\ Accounted(call.of, call.cells)
         /\ call.of.status = "SystemError" <=>
               \A key \in DOMAIN call.cells : call.cells[key] = [wording |-> "Metric Not Supported"]
=============================================================================
