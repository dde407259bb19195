------------------------------ MODULE Overflow ------------------------------
(***************************************************************************)
(* Long outputs (overflow.py), as the trajectory writer uses them: stdout    *)
(* and stderr of a command are cut to a head, the whole text goes to a file  *)
(* named by its hash, and the event that is then written names the hash.     *)
(* All servers on a root share the directory.  Nothing locks a spill file:   *)
(* it is looked for, then opened (which empties it), then filled.            *)
(***************************************************************************)
EXTENDS Naturals, Sequences, SequencesExt, FiniteSets, FiniteSetsExt

CONSTANTS
  Callers,   \* writers of trajectories, each in a process of its own
  Texts,     \* outputs: sequences of characters, a character being its width in
             \* bytes; a text stands for its SHA-256 too
  MaxBytes,  \* max_stream_bytes
  Chunks,    \* write(2) calls that write_bytes makes for one file
  MaxCalls,  \* bound: events of all callers
  MaxFaults  \* bound: kills and failing writes

ASSUME OverflowAssumption ==
  /\ Texts \subseteq Seq(1 .. 4)
  /\ MaxBytes \in Nat
  /\ Chunks \in Nat \ {0}
  /\ MaxCalls \in Nat /\ MaxFaults \in Nat

VARIABLES
  pc,      \* what each caller does
  left,    \* the texts of its event that are still to be capped
  pos,     \* chunks that it has written of the first of them
  named,   \* what cap_stream returned so far: hashes and lengths of heads
  exists,  \* the spill files there are
  content, \* the chunks in place in each
  refs,    \* hashes and lengths of heads in the events on disk
  calls,
  faults,
  hit      \* history: texts whose file a fault left half written

vars == <<pc, left, pos, named, exists, content, refs, calls, faults, hit>>
disk == <<exists, content>>
done == <<refs, calls, faults, hit>>

Init ==
  /\ pc = [c \in Callers |-> "idle"]
  /\ left = [c \in Callers |-> <<>>]
  /\ pos = [c \in Callers |-> 0]
  /\ named = [c \in Callers |-> {}]
  /\ exists = {}
  /\ content = [t \in Texts |-> {}]
  /\ refs = {} /\ hit = {}
  /\ calls = 0 /\ faults = 0

-----------------------------------------------------------------------------
(* The cut, on the encoded text: TRUE stands for a continuation byte.        *)

Encode(t) == FlattenSeq([i \in DOMAIN t |-> [j \in 1 .. t[i] |-> j > 1]])

Long(t) == Len(Encode(t)) > MaxBytes

\* Broken variant: the last byte of the head is looked at, not the first after it.
CutBehind(bytes) ==
  LET back[i \in 0 .. MaxBytes] == IF i > 0 /\ bytes[i] THEN back[i - 1] ELSE i
  IN back[MaxBytes]

\* encoded[cut] is the first byte that does not go into the head.
Cut(bytes) ==
  LET back[i \in 0 .. MaxBytes] == IF i > 0 /\ bytes[i + 1] THEN back[i - 1] ELSE i
  IN back[MaxBytes]

\* The text that cap_command_data has reached.
Current(c) == Head(left[c])
At(c, step) == pc[c] = step /\ (step # "idle" => left[c] # <<>>)

\* cap_stream returns, with or without metadata; the next field is capped.
Return(c, long) ==
  /\ left' = [left EXCEPT ![c] = Tail(@)]
  /\ pc' = [pc EXCEPT ![c] = "check"]
  /\ named' = IF long
       THEN [named EXCEPT ![c] = @ \cup {[sha |-> Current(c), head |-> Cut(Encode(Current(c)))]}]
       ELSE named

-----------------------------------------------------------------------------
(* Broken variants of the steps below; no specification uses them.           *)

\* the file is written whether it exists or not
CheckNever(c) ==
  /\ At(c, "check")
  /\ \/ ~Long(Current(c)) /\ Return(c, FALSE)
     \/ Long(Current(c)) /\ pc' = [pc EXCEPT ![c] = "open"] /\ UNCHANGED <<left, named>>
  /\ UNCHANGED <<pos, disk, done>>

\* a short write is taken for a complete one
FilledShort(c) == At(c, "fill") /\ pos[c] > 0 /\ Return(c, TRUE) /\ UNCHANGED <<pos, disk, done>>

-----------------------------------------------------------------------------
\* TrajectoryWriter.write for a command event, with its stdout and stderr
Call(c) ==
  /\ At(c, "idle") /\ calls < MaxCalls
  /\ calls' = calls + 1
  /\ pc' = [pc EXCEPT ![c] = "check"]
  /\ \E t, u \in Texts : left' = [left EXCEPT ![c] = <<t, u>>]
  /\ named' = [named EXCEPT ![c] = {}]
  /\ UNCHANGED <<pos, disk, refs, faults, hit>>

\* cap_stream: a short text is left alone, an existing file taken for its text.
Check(c) ==
  /\ At(c, "check")
  /\ \/ ~Long(Current(c)) /\ Return(c, FALSE)
     \/ Long(Current(c)) /\ Current(c) \in exists /\ Return(c, TRUE)
     \/ /\ Long(Current(c)) /\ Current(c) \notin exists
        /\ pc' = [pc EXCEPT ![c] = "open"] /\ UNCHANGED <<left, named>>
  /\ UNCHANGED <<pos, disk, done>>

\* write_bytes opens the file, which empties it if another caller came first ...
OpenSpill(c) ==
  /\ At(c, "open")
  /\ exists' = exists \cup {Current(c)}
  /\ content' = [content EXCEPT ![Current(c)] = {}]
  /\ pos' = [pos EXCEPT ![c] = 0]
  /\ pc' = [pc EXCEPT ![c] = "fill"]
  /\ UNCHANGED <<left, named, done>>

\* ... and fills it, at an offset of its own.
Fill(c) ==
  /\ At(c, "fill") /\ pos[c] < Chunks
  /\ pos' = [pos EXCEPT ![c] = @ + 1]
  /\ content' = [content EXCEPT ![Current(c)] = @ \cup {pos[c] + 1}]
  /\ UNCHANGED <<pc, left, named, exists, done>>

Filled(c) == At(c, "fill") /\ pos[c] = Chunks /\ Return(c, TRUE) /\ UNCHANGED <<pos, disk, done>>

\* Every field is capped: the line is written and flushed.
WriteEvent(c) ==
  /\ pc[c] = "check" /\ left[c] = <<>>
  /\ refs' = refs \cup named[c]
  /\ pc' = [pc EXCEPT ![c] = "idle"]
  /\ UNCHANGED <<left, pos, named, disk, calls, faults, hit>>

\* The process is killed, or open or write raises OSError, which leaves write():
\* there is no event, and what is in the file stays.
BreakOff(c) ==
  /\ pc[c] # "idle" /\ faults < MaxFaults
  /\ faults' = faults + 1
  /\ hit' = IF pc[c] = "fill" /\ pos[c] < Chunks THEN hit \cup {Current(c)} ELSE hit
  /\ pc' = [pc EXCEPT ![c] = "idle"]
  /\ UNCHANGED <<left, pos, named, disk, refs, calls>>

Next ==
  \E c \in Callers :
    Call(c) \/ Check(c) \/ OpenSpill(c) \/ Fill(c) \/ Filled(c) \/ WriteEvent(c) \/ BreakOff(c)

Spec == Init /\ [][Next]_vars

-----------------------------------------------------------------------------
Whole(t) == content[t] = 1 .. Chunks

Filling(c, t) == pc[c] = "fill" /\ Current(c) = t

\* overflow.py:24 "The full output is never lost -- a reviewer can cat
\* overflow/<sha>": the hash in an event leads to the whole text, or to a file that
\* a caller is just filling, unless a fault hit a write of this very text.
RefsWhole ==
  \A e \in refs : e.sha \notin hit =>
    e.sha \in exists /\ (Whole(e.sha) \/ \E c \in Callers : Filling(c, e.sha))

\* Identical outputs are written once (overflow.py:36): a file that is whole, and
\* that no caller missed when it looked, stays as it is and is not opened again.
Settled(t) == Whole(t) /\ \A c \in Callers : pc[c] = "open" => Current(c) # t

SettledStays == [][\A t \in Texts : Settled(t) => Settled(t)']_vars

\* The head is the longest one of whole characters within the budget, for any
\* widths of the characters around the cut.
HeadIsLongest ==
  \A e \in refs :
    LET fitting == {k \in 0 .. Len(e.sha) : Len(Encode(SubSeq(e.sha, 1, k))) <= MaxBytes}
    IN e.head = Len(Encode(SubSeq(e.sha, 1, Max(fitting))))
=============================================================================
