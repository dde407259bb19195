-------------------------- MODULE TrajectoryWriter --------------------------
(***************************************************************************)
(* src/prehnite/trajectory.py: the append-only JSONL writer, as the threads *)
(* of one or more server processes use it on ONE trajectory file.           *)
(*                                                                          *)
(* A writer is one TrajectoryWriter object.  Several are opened on the same *)
(* path over time: a session that is resumed after a server restart reopens *)
(* its file, and trajectory_path() names files by the second, so two runs   *)
(* of one task can also be given the same path (intact tells).  The tool handler *)
(* and the egress proxy's handler threads share a writer.                   *)
(*                                                                          *)
(* write() is split where another thread, close() or a kill can intervene:  *)
(* Call, Enter (take the lock, check), Put (into the file object's buffer), *)
(* Flush (the write system call, then _seq += 1, lock released).            *)
(***************************************************************************)
EXTENDS Naturals, Sequences, FiniteSets

CONSTANTS
  Writers,   \* TrajectoryWriter objects, each opened at most once
  Threads,   \* threads that call write()
  NoThread,  \* an unlocked Lock
  MaxLines   \* bound: no call of write() once the file has this many lines

ASSUME ConstantsAssumption ==
  /\ NoThread \notin Threads
  /\ MaxLines \in Nat \ {0}

VARIABLES
  file,      \* the lines on disk
  state,     \* state[w]: "new", "open", "closed" by close(), "dead" with its process
  seq,       \* seq[w] is w._seq
  lock,      \* lock[w]: the thread that holds w._lock
  pc,        \* pc[w][t]: where t is in w.write()
  buf,       \* buf[w]: lines in the file object's buffer, not yet on disk
  acked,     \* history: the lines whose write() has returned
  intact     \* history: no kill has torn a line, no two writers were open at once

vars == <<file, state, seq, lock, pc, buf, acked, intact>>

(***************************************************************************)
(* A line is an event that parses, garbage that does not, or undecodable: it *)
(* was cut inside a character of several bytes and is no UTF-8.  nl tells    *)
(* whether its newline is on disk.                                          *)
(***************************************************************************)
Line == [kind : {"event", "garbage", "undecodable"}, seq : Nat, by : Writers, nl : BOOLEAN]

Event(w) == [kind |-> "event", seq |-> seq[w], by |-> w, nl |-> TRUE]

\* What is on disk after the lines of b are appended to f: bytes that follow
\* an unterminated line are part of that line, and the two do not parse.
Joined(k, l) == IF "undecodable" \in {k, l} THEN "undecodable" ELSE "garbage"

AppendBytes(f, b) ==
  IF f # <<>> /\ b # <<>> /\ ~f[Len(f)].nl
  THEN LET last == f[Len(f)]
           joined == [last EXCEPT !.kind = Joined(last.kind, b[1].kind), !.nl = b[1].nl]
       IN [f EXCEPT ![Len(f)] = joined] \o Tail(b)
  ELSE f \o b

\* _recover_next_seq reads the file as UTF-8 outside its try: bytes that are none
\* make it raise.  Else it is one more than the last line's seq, 0 if that does not parse.
Decodes(f) == \A i \in DOMAIN f : f[i].kind # "undecodable"

RecoverOffByOne(f) ==
  IF f = <<>> \/ f[Len(f)].kind = "garbage" THEN 0 ELSE f[Len(f)].seq

RecoverNextSeq(f) ==
  IF f = <<>> \/ f[Len(f)].kind = "garbage" THEN 0 ELSE f[Len(f)].seq + 1

Init ==
  /\ file = <<>>
  /\ state = [w \in Writers |-> "new"]
  /\ seq = [w \in Writers |-> 0]
  /\ lock = [w \in Writers |-> NoThread]
  /\ pc = [w \in Writers |-> [t \in Threads |-> "idle"]]
  /\ buf = [w \in Writers |-> <<>>]
  /\ acked = {}
  /\ intact = TRUE

-----------------------------------------------------------------------------
(* open(); if the file does not decode it raises and opens nothing *)
Open(w) ==
  /\ state[w] = "new"
  /\ Decodes(file)
  /\ state' = [state EXCEPT ![w] = "open"]
  /\ seq' = [seq EXCEPT ![w] = RecoverNextSeq(file)]
  /\ intact' = (intact /\ \A v \in Writers : state[v] # "open")
  /\ UNCHANGED <<file, lock, pc, buf, acked>>

(* write() *)
Call(w, t) ==
  /\ state[w] = "open"
  /\ pc[w][t] = "idle"
  /\ Len(file) < MaxLines
  /\ pc' = [pc EXCEPT ![w][t] = "waiting"]
  /\ UNCHANGED <<file, state, seq, lock, buf, acked, intact>>

\* write() returns or raises: its with-block gives the lock back.
Leave(w, t) ==
  /\ pc' = [pc EXCEPT ![w][t] = "idle"]
  /\ lock' = [lock EXCEPT ![w] = NoThread]

EnterUnlocked(w, t) ==
  /\ pc[w][t] = "waiting"
  /\ \/ /\ state[w] = "open"
        /\ lock' = [lock EXCEPT ![w] = t]
        /\ pc' = [pc EXCEPT ![w][t] = "checked"]
     \/ /\ state[w] # "open"
        /\ Leave(w, t)
  /\ UNCHANGED <<file, state, seq, buf, acked, intact>>

\* Take the lock; a closed writer raises.
Enter(w, t) ==
  /\ pc[w][t] = "waiting"
  /\ lock[w] = NoThread
  /\ \/ /\ state[w] = "open"
        /\ lock' = [lock EXCEPT ![w] = t]
        /\ pc' = [pc EXCEPT ![w][t] = "checked"]
     \/ /\ state[w] # "open"
        /\ Leave(w, t)
  /\ UNCHANGED <<file, state, seq, buf, acked, intact>>

\* self._fh.write(...): close() does not take the lock, so the file object may
\* have been closed since the check, and the call raises.
Put(w, t) ==
  /\ pc[w][t] = "checked"
  /\ \/ /\ state[w] = "open"
        /\ buf' = [buf EXCEPT ![w] = Append(@, Event(w))]
        /\ pc' = [pc EXCEPT ![w][t] = "put"]
        /\ UNCHANGED lock
     \/ /\ state[w] # "open"
        /\ Leave(w, t)
        /\ UNCHANGED buf
  /\ UNCHANGED <<file, state, seq, acked, intact>>

FlushWithoutCheck(w, t) ==
  /\ pc[w][t] = "put"
  /\ file' = AppendBytes(file, <<Event(w)>>)
  /\ acked' = acked \cup {Event(w)}
  /\ seq' = [seq EXCEPT ![w] = @ + 1]
  /\ buf' = [buf EXCEPT ![w] = <<>>]
  /\ Leave(w, t)
  /\ UNCHANGED <<state, intact>>

FlushBeforeWrite(w, t) ==
  /\ pc[w][t] = "put"
  /\ acked' = acked \cup {Event(w)}
  /\ seq' = [seq EXCEPT ![w] = @ + 1]
  /\ Leave(w, t)
  /\ UNCHANGED <<file, buf, state, intact>>

\* self._fh.flush() and self._seq += 1; a file closed meanwhile has been flushed
\* by close(), and flush() raises.
Flush(w, t) ==
  /\ pc[w][t] = "put"
  /\ \/ /\ state[w] = "open"
        /\ file' = AppendBytes(file, buf[w])
        /\ acked' = acked \cup {Event(w)}
        /\ seq' = [seq EXCEPT ![w] = @ + 1]
        /\ buf' = [buf EXCEPT ![w] = <<>>]
     \/ /\ state[w] # "open"
        /\ UNCHANGED <<file, acked, seq, buf>>
  /\ Leave(w, t)
  /\ UNCHANGED <<state, intact>>

(* close(): flushes what is buffered, without taking the lock *)
Close(w) ==
  /\ state[w] = "open"
  /\ file' = AppendBytes(file, buf[w])
  /\ buf' = [buf EXCEPT ![w] = <<>>]
  /\ state' = [state EXCEPT ![w] = "closed"]
  /\ UNCHANGED <<seq, lock, pc, acked, intact>>

(* The process is killed: its threads and its buffer are gone. *)
Die(w) ==
  /\ state[w] = "open"
  /\ state' = [state EXCEPT ![w] = "dead"]
  /\ pc' = [pc EXCEPT ![w] = [t \in Threads |-> "idle"]]
  /\ lock' = [lock EXCEPT ![w] = NoThread]
  /\ buf' = [buf EXCEPT ![w] = <<>>]
  /\ UNCHANGED <<seq, acked>>

Kill(w) ==
  /\ Die(w)
  /\ UNCHANGED <<file, intact>>

\* Killed inside the write system call: a proper prefix of the line is on disk,
\* at best all of it but its newline, and possibly a part of a character.
KillTorn(w) ==
  /\ buf[w] # <<>>
  /\ Die(w)
  /\ \E k \in {"event", "garbage", "undecodable"} :
       file' = AppendBytes(file, <<[buf[w][1] EXCEPT !.kind = k, !.nl = FALSE]>>)
  /\ intact' = FALSE

Next ==
  \E w \in Writers :
    \/ Open(w)
    \/ Close(w)
    \/ Kill(w)
    \/ KillTorn(w)
    \/ \E t \in Threads : Call(w, t) \/ Enter(w, t) \/ Put(w, t) \/ Flush(w, t)

Spec == Init /\ [][Next]_vars

-----------------------------------------------------------------------------
TypeOK ==
  /\ file \in Seq(Line)
  /\ state \in [Writers -> {"new", "open", "closed", "dead"}]
  /\ seq \in [Writers -> Nat]
  /\ lock \in [Writers -> Threads \cup {NoThread}]
  /\ pc \in [Writers -> [Threads -> {"idle", "waiting", "checked", "put"}]]
  /\ buf \in [Writers -> Seq(Line)]
  /\ acked \in SUBSET Line
  /\ intact \in BOOLEAN

\* Numbering: through any number of kills and reopenings, and with any threads
\* writing, line i of the file is the event numbered i - 1, until a kill tears a
\* line or two writers meet on the file (README, "seq": monotonic and 0-indexed;
\* _lock in write(), _recover_next_seq in open()).
FromZero ==
  \A i \in DOMAIN file : file[i].kind = "event" /\ file[i].seq = i - 1

Numbered == intact => FromZero

\* Durability: until then, an event whose write() returned is a whole line of the
\* file, and stays one whatever is written after it (flush in write()).
OnDisk == \A a \in acked : \E i \in DOMAIN file : file[i] = a

AckedOnDisk == intact => OnDisk

-----------------------------------------------------------------------------
(* Why: an inductive invariant.                                             *)

\* At most one writer is open on the file.
OneWriter ==
  \A v, w \in Writers : state[v] = "open" /\ state[w] = "open" => v = w

\* Every line on disk ends with its newline.
Whole == \A i \in DOMAIN file : file[i].nl

\* The counter of an open writer is the number of lines on disk.
SeqAtEnd == \A w \in Writers : state[w] = "open" => seq[w] = Len(file)

\* No thread is inside write() of a writer that was never opened.
Unopened ==
  \A w \in Writers, t \in Threads : state[w] = "new" => pc[w][t] = "idle"

\* Exactly the thread between the check and the flush holds the lock.
LockHeld ==
  \A w \in Writers, t \in Threads :
    pc[w][t] \in {"checked", "put"} <=> lock[w] = t

\* The buffer holds the line of the thread about to flush, and nothing else.
Buffered ==
  \A w \in Writers :
    /\ \A t \in Threads :
         state[w] = "open" /\ pc[w][t] = "put" => buf[w] = <<Event(w)>>
    /\ buf[w] # <<>> => state[w] = "open" /\ \E t \in Threads : pc[w][t] = "put"

Exact == OneWriter /\ FromZero /\ Whole /\ SeqAtEnd /\ Buffered /\ OnDisk

\* Whoever is killed or closed, the lock is held by exactly the thread that is
\* between its check and its flush, and never leaks; and as long as the file is
\* intact, the counter is at its end and the buffer holds at most the line being
\* written (write(), close(), open()).
WriterInv ==
  /\ TypeOK
  /\ Unopened /\ LockHeld
  /\ intact => Exact

-----------------------------------------------------------------------------
\* A kill may tear the line it interrupts, and the next line written runs into
\* the fragment: each kill costs at most one acknowledged event, however many
\* writers append afterwards (the flush per write, the append mode of open()).
KillCostsOneLine ==
  Cardinality({a \in acked : \A i \in DOMAIN file : file[i] # a})
    <= Cardinality({w \in Writers : state[w] = "dead"})

\* As long as the file is intact the writer implements the abstract log: the numbers and the authors of its
\* lines are the log's entries (write(), open(), close() together).
Entry(l) == [seq |-> l.seq, by |-> l.by]

LogOf(f) == [i \in DOMAIN f |-> Entry(f[i])]

Log == INSTANCE NumberedLog WITH
         Authors <- Writers, log <- LogOf(file), acked <- {Entry(a) : a \in acked}

ImplementsLog == Log!Init /\ [][intact' => Log!Next]_<<file, acked>>

\* A line reaches the disk through a writer that is open: a write() that races
\* with close() either lands before it or raises (the check of _closed).
NoLateLines ==
  [][\A i \in DOMAIN file' \ DOMAIN file : state[file'[i].by] = "open"]_file

\* tests/test_trajectory.py:60 "A second writer over an existing file must not
\* restart seq at 0"; README.md:146 "seq (monotonic 0-indexed int)": a writer that
\* is opened when no other is continues after every event on disk.  Refuted by the
\* run Writer_torn_reopen: not if a kill has torn the last line.
NoSeqRestart ==
  [][\A w \in Writers :
       (state[w] = "new" /\ state'[w] = "open" /\ \A v \in Writers : state[v] # "open")
         => \A i \in DOMAIN file : file[i].kind = "event" => file[i].seq < seq'[w]]_vars
=============================================================================
