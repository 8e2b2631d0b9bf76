----------------------------- MODULE Recording -----------------------------
(***************************************************************************)
(* A run written down as text, annotated by hand, cut short by accident,   *)
(* read back and run again (record.rs).                                    *)
(*                                                                         *)
(* A file is a sequence of lines, a line a sequence of tokens.  A token is *)
(* a word, <<"w", s>>, a number, <<"n", n>>, a digest of sixteen digits in *)
(* hex, <<"d", n>>, or bytes in hex, <<"x", b>>; no bytes are the word     *)
(* "-".  A reader yields a set, empty where the code returns a ParseError. *)
(***************************************************************************)
EXTENDS Scenarios

CONSTANTS
  Scenario,        \* what may be run and recorded
  FormatVersion,
  Notes            \* bound: how many lines of annotation

W(word) == <<"w", word>>
N(number) == <<"n", number>>
D(digest) == <<"d", digest>>
X(bytes) == <<"x", bytes>>
Words(s) == [i \in DOMAIN s |-> W(s[i])]
Numbers(s) == [i \in DOMAIN s |-> N(s[i])]

-----------------------------------------------------------------------------
(* Fields.                                                                 *)

FieldType(f) ==
  CASE f \in {"bytes", "value", "key", "datagram"} -> "bytes"
    [] f = "prefix" -> "prefix"
    [] f = "digest" -> "digest"
    [] f \in {"left", "right"} -> "ids"
    [] f = "faults" -> "faults"
    [] f = "wipe" -> "flag"
    [] f = "dest" -> "dest"
    [] f \in {"transport", "role"} -> "word"
    [] OTHER -> "number"

WordsOf(f) ==
  IF f = "role" THEN {"follower", "candidate", "leader"} ELSE {"datagram", "reliable"}

(* Variant: no bytes leave no token. *)
HexBare(bytes) == IF bytes = <<>> THEN <<>> ELSE <<X(bytes)>>

Hex(bytes) == IF bytes = <<>> THEN <<W("-")>> ELSE <<X(bytes)>>

Written(f, v) ==
  CASE FieldType(f) \in {"bytes", "prefix"} -> Hex(v)
    [] FieldType(f) = "digest" -> <<D(v)>>
    [] FieldType(f) = "ids" -> <<N(Len(v))>> \o Numbers(v)
    [] FieldType(f) = "faults" -> Numbers(v)
    [] FieldType(f) = "flag" -> <<N(IF v THEN 1 ELSE 0)>>
    [] FieldType(f) = "dest" -> IF v = <<>> THEN <<W("mesh")>> ELSE Hex(v)
    [] FieldType(f) = "word" -> <<W(v)>>
    [] OTHER -> <<N(v)>>

(* The value at the head of some tokens, and the tokens after it. *)
NumbersIn(count, t) ==
  IF Len(t) >= count /\ \A i \in 1..count : t[i][1] = "n"
  THEN {[value |-> [i \in 1..count |-> t[i][2]], rest |-> SubSeq(t, count + 1, Len(t))]} ELSE {}

NumberIn(t) == {[value |-> r.value[1], rest |-> r.rest] : r \in NumbersIn(1, t)}

BytesIn(t) ==
  CASE t = <<>> -> {}
    [] t[1] = W("-") -> {[value |-> <<>>, rest |-> Tail(t)]}
    [] t[1][1] = "x" -> {[value |-> t[1][2], rest |-> Tail(t)]}
    [] OTHER -> {}

DigestIn(t) ==
  IF t # <<>> /\ t[1][1] = "d" THEN {[value |-> t[1][2], rest |-> Tail(t)]} ELSE {}

(* The sender prefix of a device: four bytes. *)
PrefixIn(t) == {r \in BytesIn(t) : Len(r.value) = 4}

WordIn(words, t) ==
  IF t # <<>> /\ t[1][1] = "w" /\ t[1][2] \in words
  THEN {[value |-> t[1][2], rest |-> Tail(t)]} ELSE {}

Read(f, t) ==
  CASE FieldType(f) = "bytes" -> BytesIn(t)
    [] FieldType(f) = "prefix" -> PrefixIn(t)
    [] FieldType(f) = "digest" -> DigestIn(t)
    [] FieldType(f) = "ids" -> UNION {NumbersIn(r.value, r.rest) : r \in NumberIn(t)}
    [] FieldType(f) = "faults" -> NumbersIn(6, t)
    [] FieldType(f) = "flag" -> {[value |-> r.value # 0, rest |-> r.rest] : r \in NumberIn(t)}
    [] FieldType(f) = "dest" ->
         IF t # <<>> /\ t[1] = W("mesh") THEN {[value |-> <<>>, rest |-> Tail(t)]}
         ELSE PrefixIn(t)
    [] FieldType(f) = "word" -> WordIn(WordsOf(f), t)
    [] OTHER -> NumberIn(t)

WriteAll(fields, r) ==
  LET line[n \in 0..Len(fields)] ==
        IF n = 0 THEN <<>> ELSE line[n - 1] \o Written(fields[n], r[fields[n]])
  IN  line[Len(fields)]

(* The record r with these fields read into it; what is left of the line   *)
(* is not looked at.                                                       *)
With(r, f, v) == [g \in DOMAIN r \cup {f} |-> IF g = f THEN v ELSE r[g]]

ReadAll(r, fields, tokens) ==
  LET read[n \in 0..Len(fields)] ==
        IF n = 0 THEN {[record |-> r, rest |-> tokens]}
        ELSE UNION {{[record |-> With(q.record, fields[n], x.value), rest |-> x.rest] :
                      x \in Read(fields[n], q.rest)} : q \in read[n - 1]}
  IN  {p.record : p \in read[Len(fields)]}

-----------------------------------------------------------------------------
(* Operations and trace entries, with their fields in the order in which   *)
(* they are written and read.                                              *)

OpFields(tag) ==
  CASE tag \in {"tick", "kill"} -> <<"node">>
    [] tag = "send" -> <<"from", "to", "bytes">>
    [] tag = "multicast" -> <<"from", "group", "bytes">>
    [] tag = "join" -> <<"node", "group">>
    [] tag = "revive" -> <<"node", "wipe">>
    [] tag \in {"partition", "heal"} -> <<"a", "b">>
    [] tag = "heal_all" -> <<>>
    [] tag = "split" -> <<"left", "right">>
    [] tag = "set_faults" -> <<"faults">>
    [] tag \in {"skew", "discipline"} -> <<"node", "offset">>
    [] tag = "drift" -> <<"node", "ppm">>
    [] tag = "present" -> <<"node", "level">>
    [] tag = "store" -> <<"node", "key", "value">>
    [] tag = "erase" -> <<"node", "key">>

OpTags ==
  {"tick", "send", "multicast", "join", "kill", "revive", "partition", "heal", "heal_all",
   "split", "set_faults", "skew", "drift", "discipline", "present", "store", "erase"}

OpToText(op) == <<W(op.tag)>> \o WriteAll(OpFields(op.tag), op)

OpFromText(t) ==
  UNION {ReadAll([tag |-> r.value], OpFields(r.value), r.rest) : r \in WordIn(OpTags, t)}

(* The words an entry of a trace may begin with, and its fields. *)
NetErrors == {"node_down", "payload_too_large", "buffer_too_small"}
StoreErrors == {"value_too_long", "full", "buffer_too_small"}
LedErrors == {"wrong_pixel_count", "powered_off"}

TraceTypes ==
  {<<"rx">>, <<"frame">>} \cup ({"op"} \X OpTags)
    \cup ({"event"} \X {"tick", "datagram", "peer_up", "peer_down"})
    \cup ({"action"} \X {"set_timer", "send", "discipline", "role", "sync_lost", "sync_acquired"})
    \cup ({"net_err"} \X NetErrors) \cup ({"store_err"} \X StoreErrors)
    \cup ({"led_err"} \X LedErrors)

TraceFields(type) ==
  CASE type = <<"event", "datagram">> -> <<"len">>
    [] type \in {<<"event", "peer_up">>, <<"event", "peer_down">>} -> <<"prefix">>
    [] type = <<"action", "set_timer">> -> <<"in">>
    [] type = <<"action", "send">> -> <<"dest", "transport", "datagram">>
    [] type = <<"action", "discipline">> -> <<"offset">>
    [] type = <<"action", "role">> -> <<"role", "epoch">>
    [] type = <<"rx">> -> <<"from", "len", "digest">>
    [] type = <<"frame">> -> <<"digest">>
    [] OTHER -> <<>>

TraceToText(kind) == Words(kind.type) \o WriteAll(TraceFields(kind.type), kind)

TraceFromText(t) ==
  UNION {ReadAll([type |-> type], TraceFields(type), SubSeq(t, Len(type) + 1, Len(t))) :
           type \in {y \in TraceTypes : Len(y) <= Len(t) /\ Words(y) = SubSeq(t, 1, Len(y))}}

-----------------------------------------------------------------------------
(* What there is to write down: records with the fields their tag has, and *)
(* in each a value of its type.                                            *)
Fits(f, v) ==
  CASE FieldType(f) = "prefix" -> v \in Seq(Nat) /\ Len(v) = 4
    [] FieldType(f) = "ids" -> v \in Seq(Nat)
    [] FieldType(f) = "faults" -> v \in Seq(Nat) /\ Len(v) = 6
    [] FieldType(f) = "flag" -> v \in BOOLEAN
    [] FieldType(f) = "dest" -> v = <<>> \/ (v \in Seq(Nat) /\ Len(v) = 4)
    [] FieldType(f) = "word" -> v \in WordsOf(f)
    [] OTHER -> TRUE

Filled(r, known, fields) ==
  /\ r = [f \in known \cup Range(fields) |-> r[f]]
  /\ \A i \in DOMAIN fields : Fits(fields[i], r[fields[i]])

IsOp(op) == op.tag \in OpTags /\ Filled(op, {"tag"}, OpFields(op.tag))
IsKind(kind) == kind.type \in TraceTypes /\ Filled(kind, {"type"}, TraceFields(kind.type))

NodeFields == <<"id", "pixels", "skew", "drift", "storage">>

IsScenario(sc) ==
  /\ sc = [seed |-> sc.seed, duration |-> sc.duration, nodes |-> sc.nodes,
           faults |-> sc.faults, script |-> sc.script]
  /\ sc.duration \in Nat
  /\ Fits("faults", sc.faults)
  /\ sc.nodes \in Seq(Range(sc.nodes)) /\ sc.script \in Seq(Range(sc.script))
  /\ \A n \in Range(sc.nodes) : Filled(n, {}, NodeFields) /\ n.id \in Nat
  /\ \A s \in Range(sc.script) : s = [at |-> s.at, op |-> s.op] /\ s.at \in Nat /\ IsOp(s.op)

ASSUME RecordingAssumption ==
  /\ \A sc \in Scenario : IsScenario(sc)
  /\ CoreActions \in Seq(Range(CoreActions))
  /\ \A kind \in Range(CoreActions) : IsKind(kind)

(* A run that is over at once reports what a file says that lost its end.  *)
ASSUME DurationAssumption == \A sc \in Scenario : sc.duration # 0

-----------------------------------------------------------------------------
(* Files.                                                                  *)

Each(s, Line(_)) == [i \in DOMAIN s |-> Line(s[i])]

ToText(r) ==
  LET sc == r.scenario
      ids == InOrder(DOMAIN r.report.frames, <)
  IN  <<<<W("lumen-sim-recording"), N(FormatVersion)>>,
        <<W("seed"), N(sc.seed)>>,
        <<W("duration_us"), N(sc.duration)>>,
        <<W("faults")>> \o Numbers(sc.faults)>>
      \o Each(sc.nodes, LAMBDA n : <<W("node")>> \o WriteAll(NodeFields, n))
      \o Each(sc.script, LAMBDA s : <<W("op"), N(s.at)>> \o OpToText(s.op))
      \o <<<<W("end"), N(r.report.end)>>, <<W("stats")>> \o Numbers(r.report.stats)>>
      \o Each(ids, LAMBDA id : <<W("frames"), N(id), N(r.report.frames[id][1]),
                                 D(r.report.frames[id][2])>>)
      \o Each(r.report.trace,
              LAMBDA e : <<W("trace"), N(e.at), N(e.node)>> \o TraceToText(e.kind))

(* What is known before the first line; what must be given is a set. *)
Unread ==
  [header |-> FALSE, seed |-> {}, duration |-> {}, faults |-> PerfectFaults, nodes |-> <<>>,
   script |-> <<>>, end |-> 0, stats |-> <<0, 0, 0, 0, 0, 0, 0>>, frames |-> <<>>,
   trace |-> <<>>]

(* One line that is neither blank nor a comment. *)
ReadLine(acc, line) ==
  LET t == Tail(line)
      key == IF line[1][1] = "w" THEN line[1][2] ELSE ""
  IN  CASE key = "lumen-sim-recording" ->
             {[acc EXCEPT !.header = TRUE] : r \in {q \in NumberIn(t) : q.value = FormatVersion}}
        [] key = "seed" -> {[acc EXCEPT !.seed = {r.value}] : r \in NumberIn(t)}
        [] key = "duration_us" -> {[acc EXCEPT !.duration = {r.value}] : r \in NumberIn(t)}
        [] key = "faults" -> {[acc EXCEPT !.faults = r.value] : r \in NumbersIn(6, t)}
        [] key = "node" ->
             {[acc EXCEPT !.nodes = Append(@, n)] : n \in ReadAll(<<>>, NodeFields, t)}
        [] key = "op" ->
             UNION {{[acc EXCEPT !.script = Append(@, [at |-> r.value, op |-> op])] :
                       op \in OpFromText(r.rest)} : r \in NumberIn(t)}
        [] key = "end" -> {[acc EXCEPT !.end = r.value] : r \in NumberIn(t)}
        [] key = "stats" -> {[acc EXCEPT !.stats = r.value] : r \in NumbersIn(7, t)}
        [] key = "frames" ->
             UNION {{[acc EXCEPT !.frames = With(@, r.value[1], <<r.value[2], d.value>>)] :
                       d \in DigestIn(r.rest)} : r \in NumbersIn(2, t)}
        [] key = "trace" ->
             UNION {{[acc EXCEPT !.trace =
                        Append(@, [at |-> r.value[1], node |-> r.value[2], kind |-> k])] :
                       k \in TraceFromText(r.rest)} : r \in NumbersIn(2, t)}
        [] OTHER -> {}

IsNote(line) == line = <<>> \/ line[1] = W("#")

(* What was read, line by line, and the recording made of it. *)
LinesRead(text) ==
  LET read[n \in 0..Len(text)] ==
        IF n = 0 THEN {Unread}
        ELSE IF IsNote(text[n]) THEN read[n - 1]
        ELSE UNION {ReadLine(acc, text[n]) : acc \in read[n - 1]}
  IN  read[Len(text)]

Recordings(a) ==
  {[scenario |-> [seed |-> g.seed, duration |-> g.duration, nodes |-> a.nodes,
                  faults |-> a.faults, script |-> a.script],
    report |-> [trace |-> a.trace, end |-> a.end, stats |-> a.stats, frames |-> a.frames]] :
     g \in [seed : a.seed, duration : a.duration]}

FromText(text) == UNION {Recordings(a) : a \in {b \in LinesRead(text) : b.header}}

-----------------------------------------------------------------------------
(* Running again.                                                          *)

Record(sc) == [scenario |-> Normalise(sc), report |-> Run(sc)]

(* Nothing of the report is fed back in. *)
Replay(r) == Run(r.scenario)

(* Variant: runs are the same if their traces are. *)
VerifyTraces(r) ==
  IF FirstDivergence(r.report, Replay(r)) = 0 THEN "same" ELSE "diverged"

VerifyReplay(r) ==
  IF FirstDivergence(r.report, Replay(r)) = 0 /\ r.report = Replay(r) THEN "same" ELSE "diverged"

-----------------------------------------------------------------------------
VARIABLES
  recording,  \* what was recorded
  file,       \* what has become of its text
  cut,        \* the end of the file has been lost
  verdict     \* what the last check of the file said

recordingVars == <<recording, file, cut, verdict>>

RecordingInit ==
  /\ \E sc \in Scenario : recording = Record(sc)
  /\ file = ToText(recording)
  /\ cut = FALSE
  /\ verdict = "none"

(* A checked-in recording is annotated: a comment, or a blank line. *)
Annotate ==
  /\ ~cut
  /\ Cardinality({i \in DOMAIN file : IsNote(file[i])}) < Notes
  /\ \E i \in 1..(Len(file) + 1), line \in {<<>>, <<W("#"), W("seed"), N(9)>>} :
       file' = InsertAt(file, i, line)
  /\ verdict' = "none"
  /\ UNCHANGED <<recording, cut>>

(* What a token may be that has lost its end: a shorter number, an even    *)
(* or an odd number of digits, a word that is none, or another word.       *)
Shorter(n) == IF n < 0 THEN -((-n) \div 10) ELSE n \div 10

Stumps(token) ==
  CASE token[1] = "n" /\ token[2] \notin -9..9 -> {N(Shorter(token[2]))}
    [] token[1] = "d" -> {D(token[2] \div 16)}
    [] token[1] = "x" -> {W("?")} \cup {X(b) : b \in {Front(token[2])} \ {<<>>}}
    [] token = W("heal_all") -> {W("?"), W("heal")}
    [] token[1] = "w" /\ token \notin {W("#"), W("-"), W("heal_all")} -> {W("?")}
    [] OTHER -> {}

(* The end of the file is lost: whole lines, tokens of the last line left, *)
(* and the end of the last token.                                          *)
Lose ==
  /\ ~cut
  /\ cut' = TRUE
  /\ \E k \in DOMAIN file : \E j \in 0..Len(file[k]) :
       LET head == SubSeq(file, 1, k - 1)
           line == SubSeq(file[k], 1, j)
       IN  \/ file' = Append(head, line)
           \/ j > 0 /\ \E stump \in Stumps(line[j]) :
                         file' = Append(head, Append(Front(line), stump))
  /\ verdict' = "none"
  /\ UNCHANGED recording

Check ==
  /\ verdict = "none"
  /\ verdict' \in IF FromText(file) = {} THEN {"unreadable"} ELSE {VerifyReplay(r) : r \in FromText(file)}
  /\ UNCHANGED <<recording, file, cut>>

RecordingNext == Annotate \/ Lose \/ Check

RecordingSpec == RecordingInit /\ [][RecordingNext]_recordingVars

-----------------------------------------------------------------------------
(* What is written is what is read, whatever the run did and however the   *)
(* file is annotated: no field shifts, and nothing is left to a default    *)
(* (record.rs: an empty field would shift every field after it).           *)
ReadsBack == ~cut => FromText(file) = {recording}

(* The verdict on a file is right.  A recording replays, since its         *)
(* scenario is kept in the order in which it ran; and a file that lost its *)
(* end is never taken for a run, though each line it misses has a default: *)
(* it does not read, or it reports another run than the one it describes.  *)
VerdictIsRight == verdict # "none" => (verdict = "same" <=> FromText(file) = {recording})
=============================================================================
