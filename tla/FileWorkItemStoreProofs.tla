----------------------- MODULE FileWorkItemStoreProofs -----------------------
(***************************************************************************)
(* The lock directory makes the file an atomic work item store, for every  *)
(* number of calls, items and crashes; what the atomic store promises; and *)
(* what the audit stream around the file tells of it.                      *)
(*                                                                         *)
(* OneInside alone is not enough for the refinement: what the call inside  *)
(* is about to write must still follow from the file as it is now          *)
(* (WriteFollows), which it does because nobody else can be inside.  And   *)
(* the stream follows the file because, of the calls on an item it is      *)
(* clear about, the one that writes read the status the stream ends with   *)
(* (BeforeFollows).                                                        *)
(***************************************************************************)
EXTENDS RecordingWorkItemStore, WorkItemProofs

(* The map a call is about to write is one lifecycle step from the file. *)
WriteFollows(c) ==
    LET q == calls[c].request IN
    \E t \in 0..now :
        \/ /\ q.op = "create"
           /\ ~IsStored(items[q.item])
           /\ calls[c].map = [items EXCEPT ![q.item] = Proposed(q.job_class, t)]
        \/ /\ q.op = "update"
           /\ IsStored(items[q.item])
           /\ items[q.item].updated_at <= t
           /\ Allows(items[q.item], q.command, t)
           /\ calls[c].map = [items EXCEPT ![q.item] = After(items[q.item], q.command, t)]

FilesAreTyped ==
    /\ now \in 0..MaxTime
    /\ items \in [Item -> WorkItem]
    /\ \A i \in Item : items[i].updated_at <= now
    /\ DOMAIN calls = Call
    /\ \A c \in Call :
          /\ calls[c].pc \in {"ended", "wait", "read", "write", "leave"}
          /\ calls[c].pc # "ended" => calls[c].request \in Request

(* The inductive invariant. *)
FileIsSound ==
    /\ FilesAreTyped
    /\ OneInside
    /\ \A c \in Call : calls[c].pc = "write" => WriteFollows(c)

-----------------------------------------------------------------------------
(* Who is where after a step *)

(* A call goes from one place to another, the others stay. *)
LEMMA GotoEffect ==
    ASSUME DOMAIN calls = Call, NEW c \in Call, NEW state, Goto(c, state)
    PROVE  /\ DOMAIN calls' = Call
           /\ calls'[c] = state
           /\ \A d \in Call \ {c} : calls'[d] = calls[d]
BY DEF Goto

(* Starting, entering and leaving keep at most one call inside. *)
LEMMA EveryStepKeepsOneInside ==
    ASSUME FilesAreTyped, OneInside, [FileNext]_vars
    PROVE  OneInside'
<1>1. CASE UNCHANGED vars
  BY <1>1 DEF vars, OneInside, IsInside
<1>2. ASSUME NEW c \in Call, NEW q \in Requests, Start(c, q)
      PROVE  OneInside'
  <2>1. calls'[c].pc = "wait" /\ \A d \in Call \ {c} : calls'[d] = calls[d]
    BY <1>2, GotoEffect DEF Start, FilesAreTyped
  <2> QED BY <2>1, <1>2 DEF OneInside, IsInside, Start
<1>3. ASSUME NEW c \in Call, Enter(c)
      PROVE  OneInside'
  <2>1. calls'[c].pc = "read" /\ \A d \in Call \ {c} : calls'[d] = calls[d]
    BY <1>3, GotoEffect DEF Enter, FilesAreTyped
  <2>2. \A d \in Call \ {c} : ~ IsInside(d)
    BY <1>3 DEF Enter, OneInside
  <2> QED BY <2>1, <2>2, <1>3 DEF OneInside, IsInside, Enter
<1>4. ASSUME NEW c \in Call, GiveUp(c)
      PROVE  OneInside'
  <2>1. calls'[c].pc = "ended" /\ \A d \in Call \ {c} : calls'[d] = calls[d]
    BY <1>4, GotoEffect DEF GiveUp, Answered, FilesAreTyped
  <2> QED BY <2>1, <1>4 DEF OneInside, IsInside, GiveUp
<1>5. ASSUME NEW c \in Call, Read(c) \/ Write(c) \/ WriteFails(c)
      PROVE  OneInside'
  <2>1. calls'[c].pc \in {"write", "leave"} /\ \A d \in Call \ {c} : calls'[d] = calls[d]
    BY <1>5, GotoEffect DEF Read, Write, WriteFails, Leaving, FilesAreTyped
  <2>2. calls[c].pc \in {"read", "write"} /\ locked' = locked
    BY <1>5 DEF Read, Write, WriteFails
  <2> QED BY <2>1, <2>2 DEF OneInside, IsInside
<1>6. ASSUME NEW c \in Call, Leave(c)
      PROVE  OneInside'
  <2>1. calls'[c].pc = "ended" /\ \A d \in Call \ {c} : calls'[d] = calls[d]
    BY <1>6, GotoEffect DEF Leave, Answered, FilesAreTyped
  <2>2. \A d \in Call \ {c} : ~ IsInside(d)
    BY <1>6 DEF Leave, OneInside, IsInside
  <2> QED BY <2>1, <2>2 DEF OneInside, IsInside
<1>7. ASSUME NEW dead \in SUBSET Call, Crash(dead)
      PROVE  OneInside'
  <2>1. \A d \in Call : calls'[d].pc = "ended" \/ calls'[d] = calls[d]
    BY <1>7 DEF Crash, Answered
  <2> QED BY <2>1, <1>7 DEF OneInside, IsInside, Crash
<1>8. CASE Tick
  BY <1>8 DEF Tick, OneInside, IsInside
<1> QED BY <1>1, <1>2, <1>3, <1>4, <1>5, <1>6, <1>7, <1>8 DEF FileNext, Step

-----------------------------------------------------------------------------
(* What is in the file *)

(* What the call inside may write, by its kind. *)
LEMMA WrittenItem ==
    ASSUME FilesAreTyped, NEW c \in Call, calls[c].pc = "write", WriteFollows(c)
    PROVE  /\ calls[c].map \in [Item -> WorkItem]
           /\ \A i \in Item : calls[c].map[i].updated_at <= now
<1> DEFINE q == calls[c].request
<1>0. /\ q \in Request /\ now \in Nat /\ items \in [Item -> WorkItem]
      /\ \A i \in Item : items[i].updated_at <= now
      /\ JobClass # {}
  BY MaxTimeAssumption DEF FilesAreTyped, JobClass
<1>1. PICK t \in 0..now :
        \/ /\ q.op = "create"
           /\ calls[c].map = [items EXCEPT ![q.item] = Proposed(q.job_class, t)]
        \/ /\ q.op = "update"
           /\ Allows(items[q.item], q.command, t)
           /\ calls[c].map = [items EXCEPT ![q.item] = After(items[q.item], q.command, t)]
  BY DEF WriteFollows
<1>2. CASE q.op = "create"
  <2>1. q.job_class \in JobClass /\ q.item \in Item
    BY <1>0, <1>2 DEF Request
  <2>2. Proposed(q.job_class, t) \in WorkItem /\ Proposed(q.job_class, t).updated_at = t
    BY <1>0, <2>1, ProposedItem DEF Proposed
  <2>3. calls[c].map = [items EXCEPT ![q.item] = Proposed(q.job_class, t)]
    BY <1>1, <1>2
  <2> HIDE DEF q
  <2> QED BY <1>0, <2>1, <2>2, <2>3
<1>3. CASE q.op = "update"
  <2>1. q.command \in Command /\ q.item \in Item
    BY <1>0, <1>3 DEF Request
  <2>2. /\ Allows(items[q.item], q.command, t)
        /\ calls[c].map = [items EXCEPT ![q.item] = After(items[q.item], q.command, t)]
    BY <1>1, <1>3
  <2>3. /\ After(items[q.item], q.command, t) \in WorkItem
        /\ After(items[q.item], q.command, t).updated_at = t
    BY <1>0, <2>1, <2>2, CommandType
  <2> HIDE DEF q
  <2> QED BY <1>0, <2>1, <2>2, <2>3
<1> QED BY <1>1, <1>2, <1>3

(* Reading under the lock, the clock now, gives a map that follows. *)
LEMMA ReadFollows ==
    ASSUME FilesAreTyped, NEW c \in Call, Read(c), calls'[c].pc = "write"
    PROVE  WriteFollows(c)'
<1> DEFINE q == calls[c].request
<1>1. /\ calls[c].pc = "read" /\ q \in Request /\ now' = now /\ items' = items
      /\ now \in 0..now /\ \A i \in Item : items[i].updated_at <= now
  BY MaxTimeAssumption DEF Read, FilesAreTyped
<1>2. calls'[c] = IF Accepted(q)
                    THEN [pc |-> "write", request |-> q,
                          map |-> [items EXCEPT ![q.item] = Computed(q)]]
                    ELSE Leaving(q, "rejected")
  BY GotoEffect DEF Read, FilesAreTyped
<1>3. Accepted(q)
  BY <1>2 DEF Leaving
<1>4. /\ calls'[c].request = q
      /\ calls'[c].map = [items EXCEPT ![q.item] = Computed(q)]
  BY <1>2, <1>3
<1>5. q.op \in {"create", "update"} /\ q.item \in Item
  BY <1>1 DEF Request
<1>6. CASE q.op = "create"
  <2>1. ~ IsStored(items[q.item]) /\ Computed(q) = Proposed(q.job_class, now)
    BY <1>3, <1>6 DEF Accepted, Computed
  <2> QED BY <1>1, <1>4, <1>6, <2>1 DEF WriteFollows
<1>7. CASE q.op = "update"
  <2>1. /\ IsStored(items[q.item])
        /\ Allows(items[q.item], q.command, now)
        /\ Computed(q) = After(items[q.item], q.command, now)
    BY <1>3, <1>7 DEF Accepted, Computed
  <2> QED BY <1>1, <1>4, <1>5, <1>7, <2>1 DEF WriteFollows
<1> QED BY <1>5, <1>6, <1>7

(* Types and timestamps, step by step. *)
LEMMA EveryStepKeepsTypes ==
    ASSUME FileIsSound, [FileNext]_vars
    PROVE  FilesAreTyped'
<1> USE DEF FileIsSound
<1>1. CASE UNCHANGED vars
  BY <1>1 DEF vars, FilesAreTyped
<1>2. ASSUME NEW c \in Call, NEW q \in Requests, Start(c, q)
      PROVE  FilesAreTyped'
  <2>1. /\ calls'[c].pc = "wait" /\ calls'[c].request = q /\ DOMAIN calls' = Call
        /\ \A d \in Call \ {c} : calls'[d] = calls[d]
        /\ q \in Request
    BY <1>2, GotoEffect, RequestsAssumption DEF Start, FilesAreTyped
  <2> QED BY <2>1, <1>2 DEF FilesAreTyped, Start
<1>3. ASSUME NEW c \in Call, Enter(c) \/ GiveUp(c) \/ Read(c) \/ WriteFails(c) \/ Leave(c)
      PROVE  FilesAreTyped'
  <2>1. now' = now /\ items' = items
    BY <1>3 DEF Enter, GiveUp, Read, WriteFails, Leave
  <2>2. calls[c].pc # "ended"
    BY <1>3 DEF Enter, GiveUp, Read, WriteFails, Leave
  <2>3. /\ DOMAIN calls' = Call
        /\ \A d \in Call \ {c} : calls'[d] = calls[d]
    BY <1>3, GotoEffect DEF Enter, GiveUp, Read, WriteFails, Leave, FilesAreTyped
  <2>4. /\ calls'[c].pc \in {"ended", "wait", "read", "write", "leave"}
        /\ calls'[c].pc # "ended" => calls'[c].request = calls[c].request
    <3>1. CASE Enter(c)
      BY <3>1, GotoEffect DEF Enter, FilesAreTyped
    <3>2. CASE GiveUp(c) \/ Leave(c)
      BY <3>2, GotoEffect DEF GiveUp, Leave, Answered, FilesAreTyped
    <3>3. CASE Read(c)
      BY <3>3, GotoEffect DEF Read, Leaving, FilesAreTyped
    <3>4. CASE WriteFails(c)
      BY <3>4, GotoEffect DEF WriteFails, Leaving, FilesAreTyped
    <3> QED BY <1>3, <3>1, <3>2, <3>3, <3>4
  <2> QED BY <2>1, <2>2, <2>3, <2>4 DEF FilesAreTyped
<1>4. ASSUME NEW c \in Call, Write(c)
      PROVE  FilesAreTyped'
  <2>1. /\ items' \in [Item -> WorkItem] /\ now' = now
        /\ \A i \in Item : items'[i].updated_at <= now
    BY <1>4, WrittenItem DEF Write
  <2>2. /\ calls'[c].pc = "leave" /\ calls'[c].request = calls[c].request
        /\ calls[c].pc = "write" /\ DOMAIN calls' = Call
        /\ \A d \in Call \ {c} : calls'[d] = calls[d]
    BY <1>4, GotoEffect DEF Write, Leaving, FilesAreTyped
  <2> QED BY <2>1, <2>2 DEF FilesAreTyped
<1>5. ASSUME NEW dead \in SUBSET Call, Crash(dead)
      PROVE  FilesAreTyped'
  <2>1. /\ DOMAIN calls' = Call
        /\ \A d \in Call : calls'[d].pc = "ended" \/ calls'[d] = calls[d]
    BY <1>5 DEF Crash, Answered
  <2> QED BY <2>1, <1>5 DEF Crash, FilesAreTyped
<1>6. CASE Tick
  <2>1. /\ calls' = calls /\ items' = items
        /\ now < MaxTime /\ now' = now + 1
    BY <1>6 DEF Tick, Store!Tick
  <2>2. now \in Nat /\ now' \in 0..MaxTime
    BY <2>1, MaxTimeAssumption DEF FilesAreTyped
  <2>3. \A i \in Item : items'[i].updated_at <= now'
    BY <2>1, <2>2 DEF FilesAreTyped, WorkItem
  <2> QED BY <2>1, <2>2, <2>3 DEF FilesAreTyped
<1> QED BY <1>1, <1>2, <1>3, <1>4, <1>5, <1>6 DEF FileNext, Step

(* Nobody writes the file while a call is between its read and its write. *)
LEMMA EveryStepKeepsWriteFollowing ==
    ASSUME FileIsSound, [FileNext]_vars, NEW c \in Call, calls'[c].pc = "write"
    PROVE  WriteFollows(c)'
<1> USE DEF FileIsSound
<1>1. CASE Read(c)
  BY <1>1, ReadFollows
<1>2. CASE calls'[c] = calls[c] /\ items' = items /\ now' \in {now, now + 1}
  <2>1. WriteFollows(c) /\ now \in Nat
    BY <1>2, MaxTimeAssumption DEF FilesAreTyped
  <2>2. 0..now \subseteq 0..now'
    BY <1>2, <2>1
  <2> QED BY <1>2, <2>1, <2>2 DEF WriteFollows
<1>3. CASE UNCHANGED vars
  BY <1>2, <1>3 DEF vars
<1>4. CASE Tick
  BY <1>2, <1>4 DEF Tick, Store!Tick
<1>5. ASSUME NEW dead \in SUBSET Call, Crash(dead)
      PROVE  WriteFollows(c)'
  BY <1>2, <1>5 DEF Crash, Answered
<1> DEFINE DoesNotWrite(d) ==
      \/ \E q \in Requests : Start(d, q)
      \/ Enter(d) \/ GiveUp(d) \/ Read(d) \/ WriteFails(d) \/ Leave(d)
<1>6. ASSUME NEW d \in Call, DoesNotWrite(d)
      PROVE  WriteFollows(c)'
  <2>1. now' = now /\ items' = items
    BY <1>6 DEF Start, Enter, GiveUp, Read, WriteFails, Leave
  <2>2. CASE d # c
    <3>1. calls'[c] = calls[c]
      BY <1>6, <2>2, GotoEffect DEF Start, Enter, GiveUp, Read, WriteFails, Leave, FilesAreTyped
    <3> QED BY <1>2, <2>1, <3>1
  <2>3. CASE d = c
    <3>1. ~ (\/ \E q \in Requests : Start(c, q)
             \/ Enter(c) \/ GiveUp(c) \/ WriteFails(c) \/ Leave(c))
      <4>1. ASSUME NEW q \in Requests, Start(c, q) PROVE FALSE
        BY <4>1, GotoEffect DEF Start, FilesAreTyped
      <4>2. ~ Enter(c)
        BY GotoEffect DEF Enter, FilesAreTyped
      <4>3. ~ GiveUp(c) /\ ~ Leave(c)
        BY GotoEffect DEF GiveUp, Leave, Answered, FilesAreTyped
      <4>4. ~ WriteFails(c)
        BY GotoEffect DEF WriteFails, Leaving, FilesAreTyped
      <4> QED BY <4>1, <4>2, <4>3, <4>4
    <3> QED BY <1>1, <1>6, <2>3, <3>1
  <2> QED BY <2>2, <2>3
<1>7. ASSUME NEW d \in Call, Write(d)
      PROVE  WriteFollows(c)'
  <2>1. /\ calls'[d].pc = "leave" /\ IsInside(d)
        /\ \A e \in Call \ {d} : calls'[e] = calls[e]
    BY <1>7, GotoEffect DEF Write, Leaving, FilesAreTyped, IsInside
  <2>2. c # d /\ IsInside(c)
    BY <2>1 DEF IsInside
  <2> QED BY <2>1, <2>2 DEF OneInside
<1>8. CASE \E d \in Call : \/ \E q \in Requests : Start(d, q)
                           \/ Step(d) \/ WriteFails(d)
  <2>1. PICK d \in Call : (\E q \in Requests : Start(d, q)) \/ Step(d) \/ WriteFails(d)
    BY <1>8
  <2>2. CASE Write(d)
    BY <1>7, <2>2
  <2>3. CASE ~ Write(d)
    <3>1. DoesNotWrite(d)
      BY <2>1, <2>3 DEF Step
    <3> HIDE DEF DoesNotWrite
    <3> QED BY <1>6, <3>1
  <2> QED BY <2>2, <2>3
<1> QED BY <1>3, <1>4, <1>5, <1>8 DEF FileNext

-----------------------------------------------------------------------------

LEMMA FileBeginsSound ==
    ASSUME FileInit
    PROVE  FileIsSound
<1>1. now = 0 /\ items = [i \in Item |-> NoItem]
  BY DEF FileInit, Store!Init, Store!NoItem, NoItem
<1>2. NoItem \in WorkItem /\ NoItem.updated_at = 0
  BY DEF NoItem, WorkItem, JobClass
<1>3. calls = [c \in Call |-> Answered("none")] /\ \A c \in Call : calls[c].pc = "ended"
  BY DEF FileInit, Answered
<1> QED BY <1>1, <1>2, <1>3, MaxTimeAssumption
        DEF FileIsSound, FilesAreTyped, OneInside, IsInside

LEMMA FileStepsKeepSound ==
    ASSUME FileIsSound, [FileNext]_vars
    PROVE  FileIsSound'
BY EveryStepKeepsOneInside, EveryStepKeepsTypes, EveryStepKeepsWriteFollowing DEF FileIsSound

(* FileSpec without its fairness: what the file does also when calls of its *)
(* processes are wrapped, delayed or left alone.                            *)
FileSteps == FileInit /\ [][FileNext]_vars

(* The file, the lock and the calls agree in every reachable state. *)
THEOREM FileStaysSound == FileSteps => []FileIsSound
<1>1. FileInit => FileIsSound
  BY FileBeginsSound
<1>2. FileIsSound /\ [FileNext]_vars => FileIsSound'
  BY FileStepsKeepSound
<1> QED BY <1>1, <1>2, PTL DEF FileSteps

(* At most one call is between mkdir and rm, however many processes poll,  *)
(* give up and die.                                                        *)
THEOREM LockExcludes == FileSteps => []OneInside
<1>1. FileIsSound => OneInside
  BY DEF FileIsSound
<1> QED BY <1>1, FileStaysSound, PTL

(* A lock directory whose process died is never removed, and the file      *)
(* behind it never changes again.                                          *)
THEOREM OrphansStay == FileSteps => OrphanedLockStays
<1>1. FileIsSound /\ [FileNext]_vars
        => [locked /\ (\A c \in Call : ~IsInside(c)) => locked' /\ items' = items]_vars
  <2> SUFFICES ASSUME FileNext, locked, \A c \in Call : ~ IsInside(c)
               PROVE  locked' /\ items' = items
    BY DEF vars
  <2>1. ASSUME NEW c \in Call PROVE ~ Read(c) /\ ~ Write(c) /\ ~ WriteFails(c) /\ ~ Leave(c)
    BY DEF Read, Write, WriteFails, Leave, IsInside
  <2> QED BY <2>1 DEF FileNext, Step, Start, Enter, GiveUp, Crash, Tick, Store!Tick
<1> QED BY <1>1, FileStaysSound, PTL DEF FileSteps, OrphanedLockStays

-----------------------------------------------------------------------------
(* The refinement *)

(* The atomic store applies the same lifecycle. *)
LEMMA SameLifecycle ==
    /\ Store!NoItem = NoItem
    /\ Store!JobClass = JobClass
    /\ Store!Command = Command
    /\ \A w : Store!IsStored(w) <=> IsStored(w)
    /\ \A class : Store!IsExecutable(class) <=> IsExecutable(class)
    /\ \A class, t : Store!Proposed(class, t) = Proposed(class, t)
BY DEF Store!NoItem, NoItem, Store!JobClass, JobClass, Store!Command, Command,
       Store!IsStored, IsStored, Store!IsExecutable, IsExecutable, Store!Proposed, Proposed

LEMMA SameGuards ==
    ASSUME NEW w \in WorkItem, NEW c \in Command, NEW t \in Nat
    PROVE  Store!Allows(w, c, t) = Allows(w, c, t)
BY DEF Store!Allows, Allows,
       Store!CanMarkReady, CanMarkReady, Store!CanClaim, CanClaim,
       Store!CanHeartbeat, CanHeartbeat, Store!CanReleaseStale, CanReleaseStale,
       Store!CanMoveToNeedsApproval, CanMoveToNeedsApproval,
       Store!CanComplete, CanComplete, Store!CanEnd, CanEnd,
       Store!MatchesLease, MatchesLease, Store!IsActive, IsActive,
       Store!IsExecutable, IsExecutable, Store!Terminal, Terminal

LEMMA SameSteps ==
    ASSUME NEW w \in WorkItem, NEW c \in Command, NEW t \in Nat
    PROVE  Store!After(w, c, t) = After(w, c, t)
BY DEF Store!After, After, Store!MarkedReady, MarkedReady, Store!Claimed, Claimed,
       Store!Heartbeat, Heartbeat, Store!StaleReleased, StaleReleased,
       Store!MovedToNeedsApproval, MovedToNeedsApproval, Store!Ended, Ended

(* A write is a create or an update of the atomic store. *)
LEMMA WriteImplementsStep ==
    ASSUME FileIsSound, NEW c \in Call, Write(c)
    PROVE  Store!Next
<1> DEFINE q == calls[c].request
<1>0. /\ q \in Request /\ WriteFollows(c) /\ now \in Nat
      /\ items' = calls[c].map /\ now' = now
      /\ items \in [Item -> WorkItem]
  BY MaxTimeAssumption DEF Write, FileIsSound, FilesAreTyped
<1>1. CASE q.op = "create"
  <2>1. q.item \in Item /\ q.job_class \in JobClass /\ IsExecutable(q.job_class)
    BY <1>0, <1>1 DEF Request
  <2>2. PICK t \in 0..now :
          /\ ~ IsStored(items[q.item])
          /\ calls[c].map = [items EXCEPT ![q.item] = Proposed(q.job_class, t)]
    BY <1>0, <1>1 DEF WriteFollows
  <2>3. Store!Create(q.item, q.job_class, t)
    BY <1>0, <2>1, <2>2, SameLifecycle DEF Store!Create
  <2> QED BY <2>1, <2>3, SameLifecycle DEF Store!Next
<1>2. CASE q.op = "update"
  <2>1. q.item \in Item /\ q.command \in Command
    BY <1>0, <1>2 DEF Request
  <2>2. PICK t \in 0..now :
          /\ IsStored(items[q.item])
          /\ items[q.item].updated_at <= t
          /\ Allows(items[q.item], q.command, t)
          /\ calls[c].map = [items EXCEPT ![q.item] = After(items[q.item], q.command, t)]
    BY <1>0, <1>2 DEF WriteFollows
  <2> DEFINE w == items[q.item]
  <2>3. w \in WorkItem /\ t \in Nat /\ w.updated_at \in Nat
    BY <1>0, <2>1 DEF WorkItem
  <2>4. Store!IsStored(w) /\ Store!Allows(w, q.command, t)
    BY <2>1, <2>2, <2>3, SameLifecycle, SameGuards
  <2>5. Store!After(w, q.command, t) = After(w, q.command, t)
    BY <2>1, <2>3, SameSteps
  <2>6. t \in w.updated_at..now
    BY <1>0, <2>2, <2>3
  <2>7. items' = [items EXCEPT ![q.item] = Store!After(w, q.command, t)]
    BY <1>0, <2>2, <2>5
  <2>8. Store!Update(q.item, q.command, t)
    BY <1>0, <2>4, <2>6, <2>7 DEF Store!Update
  <2> QED BY <2>1, <2>8, SameLifecycle DEF Store!Next
<1> QED BY <1>0, <1>1, <1>2 DEF Request

(* Every behaviour of the locked file, crashes included, is a behaviour of *)
(* the atomic store.                                                       *)
THEOREM FileImplementsStore == FileSteps => ImplementsStore
<1>1. FileInit => Store!Init
  BY DEF FileInit
<1>2. FileIsSound /\ [FileNext]_vars => [Store!Next]_(Store!vars)
  <2> SUFFICES ASSUME FileIsSound, [FileNext]_vars PROVE Store!Next \/ UNCHANGED Store!vars
    OBVIOUS
  <2>1. CASE UNCHANGED vars
    BY <2>1 DEF vars, Store!vars
  <2>2. CASE \E c \in Call : Write(c)
    BY <2>2, WriteImplementsStep
  <2>3. CASE Tick
    BY <2>3 DEF Tick, Store!Next
  <2>4. CASE UNCHANGED <<now, items>>
    BY <2>4 DEF Store!vars
  <2> QED BY <2>1, <2>2, <2>3, <2>4
          DEF FileNext, Step, Start, Enter, GiveUp, Read, WriteFails, Leave, Crash
<1> QED BY <1>1, <1>2, FileStaysSound, PTL DEF FileSteps, ImplementsStore, Store!Spec

-----------------------------------------------------------------------------
(* What the atomic store promises *)

(* The inductive invariant of the atomic store. *)
StoreIsSafe ==
    /\ now \in 0..MaxTime
    /\ items \in [Item -> WorkItem]
    /\ \A i \in Item : IsWellLeased(items[i], now)

LEMMA SamePromises ==
    /\ LeasesAreSound <=> \A i \in Item : IsWellLeased(items[i], now)
    /\ Store!Terminal = Terminal
    /\ \A lease, t : Store!IsActive(lease, t) <=> IsActive(lease, t)
    /\ \A w, v : Store!KeepsLease(w, v) <=> KeepsLease(w, v)
BY DEF LeasesAreSound, Store!LeasesAreSound, Store!IsWellLeased, IsWellLeased,
       Store!Terminal, Terminal, Store!IsActive, IsActive, Store!KeepsLease, KeepsLease

(* An item is created where none was. *)
LEMMA CreateStep ==
    ASSUME StoreIsSafe, NEW i \in Item, NEW class \in JobClass, NEW t \in 0..now,
           Store!Create(i, class, t)
    PROVE  /\ StoreIsSafe'
           /\ ~ IsStored(items[i])
           /\ \A j \in Item : j # i => items'[j] = items[j]
<1>1. now \in Nat /\ t \in Nat /\ t <= now /\ now' = now
  BY DEF StoreIsSafe, Store!Create
<1>2. /\ ~ IsStored(items[i])
      /\ items' = [items EXCEPT ![i] = Proposed(class, t)]
  BY SameLifecycle DEF Store!Create
<1>3. Proposed(class, t) \in WorkItem /\ IsWellLeased(Proposed(class, t), now)
  BY <1>1, ProposedItem
<1> QED BY <1>1, <1>2, <1>3 DEF StoreIsSafe

(* An item that has not ended is updated, and keeps its lease if active. *)
LEMMA UpdateStep ==
    ASSUME StoreIsSafe, NEW i \in Item, NEW c \in Command, NEW t \in 0..now,
           Store!Update(i, c, t)
    PROVE  /\ StoreIsSafe'
           /\ items[i].status \notin Terminal
           /\ IsStored(items'[i])
           /\ items[i].lease # NoLease /\ IsActive(items[i].lease, now)
                 => KeepsLease(items[i], items'[i])
           /\ \A j \in Item : j # i => items'[j] = items[j]
<1>1. /\ now \in Nat /\ t \in Nat /\ t <= now /\ now' = now
      /\ items[i] \in WorkItem /\ IsWellLeased(items[i], now)
      /\ items[i].updated_at <= t
  BY DEF StoreIsSafe, Store!Update, WorkItem
<1>2. Allows(items[i], c, t) /\ items' = [items EXCEPT ![i] = After(items[i], c, t)]
  <2>1. Store!Allows(items[i], c, t) = Allows(items[i], c, t)
    BY <1>1, SameGuards
  <2>2. Store!After(items[i], c, t) = After(items[i], c, t)
    BY <1>1, SameSteps
  <2> QED BY <2>1, <2>2 DEF Store!Update
<1>3. /\ After(items[i], c, t) \in WorkItem
      /\ IsStored(After(items[i], c, t))
      /\ IsWellLeased(After(items[i], c, t), now)
  BY <1>1, <1>2, CommandType, CommandWellLeased
<1>4. items'[i] = After(items[i], c, t) /\ \A j \in Item : j # i => items'[j] = items[j]
  BY <1>2 DEF StoreIsSafe
<1>5. StoreIsSafe'
  BY <1>1, <1>2, <1>3 DEF StoreIsSafe
<1>6. items[i].status \notin Terminal
  BY <1>1, <1>2, NothingAfterTheEnd
<1>7. items[i].lease # NoLease /\ IsActive(items[i].lease, now) => KeepsLease(items[i], items'[i])
  BY <1>1, <1>2, <1>4, CommandKeepsLease
<1> QED BY <1>3, <1>4, <1>5, <1>6, <1>7

LEMMA TickStep ==
    ASSUME StoreIsSafe, Store!Tick
    PROVE  StoreIsSafe' /\ items' = items
<1>1. items' = items /\ now' = now + 1 /\ now' \in 0..MaxTime /\ now \in Nat
  BY MaxTimeAssumption DEF StoreIsSafe, Store!Tick
<1> QED BY <1>1 DEF StoreIsSafe, IsWellLeased, WorkItem

LEMMA StepIsSafe ==
    ASSUME StoreIsSafe, [Store!Next]_(Store!vars)
    PROVE  StoreIsSafe'
<1>1. CASE UNCHANGED Store!vars
  BY <1>1 DEF Store!vars, StoreIsSafe
<1> QED BY <1>1, CreateStep, UpdateStep, TickStep, SameLifecycle DEF Store!Next

(* Type correctness and sound leases, in every reachable state. *)
THEOREM StoreStaysSafe == Store!Spec => []StoreIsSafe
<1>1. Store!Init => StoreIsSafe
  <2> SUFFICES ASSUME Store!Init PROVE StoreIsSafe
    OBVIOUS
  <2>1. NoItem \in WorkItem /\ IsWellLeased(NoItem, 0)
    BY DEF NoItem, WorkItem, JobClass, IsWellLeased
  <2> QED BY <2>1, MaxTimeAssumption, SameLifecycle DEF Store!Init, StoreIsSafe
<1>2. StoreIsSafe /\ [Store!Next]_(Store!vars) => StoreIsSafe'
  BY StepIsSafe
<1> QED BY <1>1, <1>2, PTL DEF Store!Spec

(* An item has a lease exactly when somebody works on it or waits for its  *)
(* approval, and no lease reaches further than the timeout after the last  *)
(* write.                                                                  *)
THEOREM LeasesStaySound == Store!Spec => []LeasesAreSound
<1>1. StoreIsSafe => LeasesAreSound
  BY SamePromises DEF StoreIsSafe
<1> QED BY <1>1, StoreStaysSafe, PTL

(* No step takes an item from an active lease. *)
THEOREM ActiveLeases == Store!Spec => ActiveLeaseIsKept
<1> DEFINE Kept == \A i \in Item :
                      items[i].lease # NoLease /\ Store!IsActive(items[i].lease, now)
                         => Store!KeepsLease(items[i], items'[i])
<1>1. StoreIsSafe /\ [Store!Next]_(Store!vars) => [Kept]_(Store!vars)
  <2> SUFFICES ASSUME StoreIsSafe, Store!Next, NEW i \in Item,
                      items[i].lease # NoLease, IsActive(items[i].lease, now)
               PROVE  KeepsLease(items[i], items'[i])
    BY SamePromises
  <2>1. /\ IsStored(items[i])
        /\ items'[i] = items[i] => KeepsLease(items[i], items'[i])
    BY DEF StoreIsSafe, IsWellLeased, WorkItem, Lease, KeepsLease, IsStored
  <2>2. CASE \E j \in Item, class \in JobClass, t \in 0..now : Store!Create(j, class, t)
    BY <2>1, <2>2, CreateStep
  <2>3. CASE \E j \in Item, c \in Command, t \in 0..now : Store!Update(j, c, t)
    BY <2>1, <2>3, UpdateStep
  <2>4. CASE Store!Tick
    BY <2>1, <2>4, TickStep
  <2> QED BY <2>2, <2>3, <2>4, SameLifecycle DEF Store!Next
<1> HIDE DEF Kept
<1>2. Store!Spec => [][Kept]_(Store!vars)
  BY <1>1, StoreStaysSafe, PTL DEF Store!Spec
<1> QED BY <1>2 DEF Kept, ActiveLeaseIsKept, Store!ActiveLeaseIsKept

(* An item that completed, failed or was cancelled never changes again. *)
THEOREM TheEndOfAnItem == Store!Spec => TerminalIsFinal
<1> DEFINE Final == \A i \in Item :
                      /\ items[i].status \in Store!Terminal => items'[i] = items[i]
                      /\ Store!IsStored(items[i]) => Store!IsStored(items'[i])
<1>1. StoreIsSafe /\ [Store!Next]_(Store!vars) => [Final]_(Store!vars)
  <2> SUFFICES ASSUME StoreIsSafe, Store!Next, NEW i \in Item
               PROVE  /\ items[i].status \in Terminal => items'[i] = items[i]
                      /\ IsStored(items[i]) => IsStored(items'[i])
    BY SamePromises, SameLifecycle
  <2>1. CASE \E j \in Item, class \in JobClass, t \in 0..now : Store!Create(j, class, t)
    BY <2>1, CreateStep DEF IsStored, Terminal
  <2>2. CASE \E j \in Item, c \in Command, t \in 0..now : Store!Update(j, c, t)
    BY <2>2, UpdateStep
  <2>3. CASE Store!Tick
    BY <2>3, TickStep
  <2> QED BY <2>1, <2>2, <2>3, SameLifecycle DEF Store!Next
<1> HIDE DEF Final
<1>2. Store!Spec => [][Final]_(Store!vars)
  BY <1>1, StoreStaysSafe, PTL DEF Store!Spec
<1> QED BY <1>2 DEF Final, TerminalIsFinal, Store!TerminalIsFinal

(* What the atomic store promises the file keeps, whoever dies wherever:   *)
(* its leases are sound, no call takes an item from an active one, and an  *)
(* item that ended never changes.                                          *)
THEOREM FileKeepsPromises ==
    FileSteps => []LeasesAreSound /\ ActiveLeaseIsKept /\ TerminalIsFinal
<1>1. FileSteps => Store!Spec
  BY FileImplementsStore DEF ImplementsStore
<1> QED BY <1>1, LeasesStaySound, ActiveLeases, TheEndOfAnItem

-----------------------------------------------------------------------------
(* The audit stream *)

(* The status call c has read is the one its step will be told to begin at. *)
BeforeFollows(c) ==
    LET q == calls[c].request IN
    \/ q.op = "create" /\ before[c] = "absent"
    \/ q.op = "update" /\ (told[q.item] # "unclear" => before[c] = items[q.item].status)

(* An event not yet appended leads from the end of the stream to the file. *)
DueFollows(c) ==
    \A e \in due[c] :
        told[e.item] # "unclear" => e.before = told[e.item] /\ e.after = items[e.item].status

(* Two calls never both have an event of an item to append. *)
OneTeller ==
    \A c, d \in Call : \A e \in due[c], f \in due[d] :
        e.item = f.item /\ told[e.item] # "unclear" => c = d

AuditIsTyped ==
    /\ DOMAIN told = Item /\ DOMAIN due = Call /\ DOMAIN before = Call
    /\ \A c \in Call :
          /\ due[c] # {} => calls[c].pc \in {"leave", "ended"}
          /\ \A e \in due[c] : e.item \in Item /\ due[c] = {e}

(* The inductive invariant. *)
AuditIsSound ==
    /\ AuditIsTyped
    /\ OneTeller
    /\ \A c \in Call : DueFollows(c)
    /\ \A c \in Call : calls[c].pc \in {"wait", "read", "write"} => BeforeFollows(c)
    /\ StreamFollowsStore

(* Whatever is told of it, the file takes the steps of the file store. *)
LEMMA RecordingTakesFileSteps ==
    ASSUME [RecordingNext]_recordingVars
    PROVE  [FileNext]_vars
BY DEF RecordingNext, recordingVars, vars, FileNext, Step, Begin, Progress, Wait, Commit,
       Append, AppendFails, Die, Pass

LEMMA RecordingIsAFile == RecordingSpec => FileSteps
<1>1. RecordingInit => FileInit
  BY DEF RecordingInit
<1>2. [RecordingNext]_recordingVars => [FileNext]_vars
  BY RecordingTakesFileSteps
<1> QED BY <1>1, <1>2, PTL DEF RecordingSpec, FileSteps

(* Reading the status beforehand and telling the step afterwards take       *)
(* nothing from what the file promises: with the stream around it, too, it  *)
(* is an atomic store that keeps active leases, ended items and the lock of *)
(* a dead process.                                                          *)
THEOREM RecordedFileImplementsStore == RecordingSpec => ImplementsStore
BY RecordingIsAFile, FileImplementsStore

(* The same for the leases of the recorded file ... *)
THEOREM RecordedFileKeepsLeases == RecordingSpec => ActiveLeaseIsKept
BY RecordingIsAFile, FileKeepsPromises

(* ... and for the lock of a process that died. *)
THEOREM RecordedOrphansStay == RecordingSpec => OrphanedLockStays
BY RecordingIsAFile, OrphansStay

(* A write changes the item it is about, one nobody created is absent. *)
LEMMA WriteEffect ==
    ASSUME FileIsSound, NEW c \in Call, Write(c)
    PROVE  /\ calls[c].request \in Request /\ calls[c].request.item \in Item
           /\ items'[calls[c].request.item] = calls[c].map[calls[c].request.item]
           /\ \A j \in Item \ {calls[c].request.item} : items'[j] = items[j]
           /\ calls[c].request.op = "create" => items[calls[c].request.item].status = "absent"
<1> DEFINE q == calls[c].request
<1>1. /\ q \in Request /\ WriteFollows(c) /\ items' = calls[c].map
      /\ items \in [Item -> WorkItem]
  BY DEF Write, FileIsSound, FilesAreTyped
<1>2. q.item \in Item /\ q.op \in {"create", "update"}
  BY <1>1 DEF Request
<1>3. PICK v : calls[c].map = [items EXCEPT ![q.item] = v]
  BY <1>1, <1>2 DEF WriteFollows
<1>4. q.op = "create" => items[q.item].status = "absent"
  BY <1>1, <1>2 DEF WriteFollows, IsStored
<1> HIDE DEF q
<1>5. \A j \in Item \ {q.item} : items'[j] = items[j]
  BY <1>1, <1>2, <1>3
<1> QED BY <1>1, <1>2, <1>4, <1>5 DEF q

(* A call that begins reads the status of its item. *)
LEMMA BeginKeepsAudit ==
    ASSUME FileIsSound, AuditIsSound, NEW c \in Call, NEW q \in Requests, Begin(c, q)
    PROVE  AuditIsSound'
<1>1. /\ due[c] = {} /\ due' = due /\ told' = told /\ items' = items
      /\ calls[c].pc = "ended"
  BY DEF Begin, Start
<1>2. /\ calls'[c].pc = "wait" /\ calls'[c].request = q
      /\ \A d \in Call \ {c} : calls'[d] = calls[d]
  BY GotoEffect DEF Begin, Start, FileIsSound, FilesAreTyped
<1>3. /\ before'[c] = IF q.op = "create" THEN "absent" ELSE items[q.item].status
      /\ \A d \in Call \ {c} : before'[d] = before[d]
      /\ DOMAIN before' = Call
  BY DEF Begin, AuditIsSound, AuditIsTyped
<1>4. q.op \in {"create", "update"}
  BY RequestsAssumption DEF Request
<1>5. AuditIsTyped'
  BY <1>1, <1>2, <1>3 DEF AuditIsSound, AuditIsTyped
<1>6. OneTeller' /\ StreamFollowsStore' /\ \A d \in Call : DueFollows(d)'
  BY <1>1 DEF AuditIsSound, OneTeller, StreamFollowsStore, DueFollows
<1>7. ASSUME NEW d \in Call, calls'[d].pc \in {"wait", "read", "write"}
      PROVE  BeforeFollows(d)'
  <2>1. CASE d = c
    BY <1>1, <1>2, <1>3, <1>4, <2>1 DEF BeforeFollows
  <2>2. CASE d # c
    BY <1>1, <1>2, <1>3, <1>7, <2>2 DEF AuditIsSound, BeforeFollows
  <2> QED BY <2>1, <2>2
<1> QED BY <1>5, <1>6, <1>7 DEF AuditIsSound

(* A call that waits, reads, fails to write or leaves moves nothing else. *)
LEMMA WaitKeepsAudit ==
    ASSUME FileIsSound, AuditIsSound, NEW c \in Call, Wait(c)
    PROVE  AuditIsSound'
<1>1. /\ due' = due /\ told' = told /\ items' = items
      /\ calls[c].pc # "ended"
  BY DEF Wait, Enter, GiveUp, Read, WriteFails, Leave
<1>2. \A d \in Call \ {c} : calls'[d] = calls[d]
  BY GotoEffect DEF Wait, Enter, GiveUp, Read, WriteFails, Leave, FileIsSound, FilesAreTyped
<1>3. /\ \/ calls'[c].pc = "ended"
         \/ calls'[c].pc \in {"read", "write", "leave"} /\ calls'[c].request = calls[c].request
      /\ calls[c].pc = "leave" => calls'[c].pc = "ended"
      /\ calls'[c].pc \in {"read", "write"} => calls[c].pc \in {"wait", "read"}
      /\ calls[c].pc \in {"wait", "read", "write", "leave"}
  <2>1. CASE Enter(c)
    BY <2>1, GotoEffect DEF Enter, FileIsSound, FilesAreTyped
  <2>2. CASE GiveUp(c) \/ Leave(c)
    BY <2>2, GotoEffect DEF GiveUp, Leave, Answered, FileIsSound, FilesAreTyped
  <2>3. CASE Read(c)
    BY <2>3, GotoEffect DEF Read, Leaving, FileIsSound, FilesAreTyped
  <2>4. CASE WriteFails(c)
    BY <2>4, GotoEffect DEF WriteFails, Leaving, FileIsSound, FilesAreTyped
  <2> QED BY <2>1, <2>2, <2>3, <2>4 DEF Wait
<1>4. /\ before'[c] = IF calls'[c].pc = "ended" THEN "absent" ELSE before[c]
      /\ \A d \in Call \ {c} : before'[d] = before[d]
      /\ DOMAIN before' = Call
  BY DEF Wait, AuditIsSound, AuditIsTyped
<1>5. due[c] # {} => calls'[c].pc = "ended"
  BY <1>1, <1>3 DEF AuditIsSound, AuditIsTyped
<1>6. AuditIsTyped'
  BY <1>1, <1>2, <1>4, <1>5 DEF AuditIsSound, AuditIsTyped
<1>7. OneTeller' /\ StreamFollowsStore' /\ \A d \in Call : DueFollows(d)'
  BY <1>1 DEF AuditIsSound, OneTeller, StreamFollowsStore, DueFollows
<1>8. ASSUME NEW d \in Call, calls'[d].pc \in {"wait", "read", "write"}
      PROVE  BeforeFollows(d)'
  <2>1. CASE d = c
    BY <1>1, <1>3, <1>4, <1>8, <2>1 DEF AuditIsSound, BeforeFollows
  <2>2. CASE d # c
    BY <1>1, <1>2, <1>4, <1>8, <2>2 DEF AuditIsSound, BeforeFollows
  <2> QED BY <2>1, <2>2
<1> QED BY <1>6, <1>7, <1>8 DEF AuditIsSound

(* A write has an event to tell, from what the call read to what it wrote. *)
(* Whoever else has to do with the item makes the stream unclear about it. *)
LEMMA CommitKeepsAudit ==
    ASSUME FileIsSound, AuditIsSound, NEW c \in Call, Commit(c)
    PROVE  AuditIsSound'
<1> DEFINE i == calls[c].request.item
           e == [item |-> i, before |-> before[c], after |-> calls[c].map[i].status]
<1>1. Write(c) /\ calls[c].pc = "write" /\ before' = before
  BY DEF Commit, Write
<1>2. /\ i \in Item
      /\ items'[i] = calls[c].map[i]
      /\ \A j \in Item \ {i} : items'[j] = items[j]
      /\ calls[c].request.op = "create" => items[i].status = "absent"
  BY <1>1, WriteEffect
<1>3. /\ calls'[c].pc = "leave" /\ \A d \in Call \ {c} : calls'[d] = calls[d]
  BY <1>1, GotoEffect DEF Write, Leaving, FileIsSound, FilesAreTyped
<1>4. /\ DOMAIN due' = Call /\ due'[c] = {e} /\ \A d \in Call \ {c} : due'[d] = due[d]
      /\ due[c] = {}
  BY <1>1 DEF Commit, AuditIsSound, AuditIsTyped
<1>5. e.item = i /\ e.before = before[c] /\ e.after = items'[i].status
  BY <1>2
<1>6. /\ DOMAIN told' = Item
      /\ \A j \in Item \ {i} : told'[j] = told[j]
      /\ told'[i] = IF \E d \in Call \ {c} : IsOpen(d, i) THEN "unclear" ELSE told[i]
  BY <1>2 DEF Commit, Blur, Overlapped
<1> HIDE DEF i, e
(* The stream is clear about the item only if nobody else has to do with it. *)
<1>7. ASSUME told'[i] # "unclear"
      PROVE  /\ told'[i] = told[i]
             /\ \A d \in Call \ {c} :
                   /\ calls[d].pc # "ended" => calls[d].request.item # i
                   /\ \A f \in due[d] : f.item # i
             /\ told[i] = items[i].status
             /\ before[c] = items[i].status
  <2>1. told'[i] = told[i] /\ \A d \in Call \ {c} : ~ IsOpen(d, i)
    BY <1>6, <1>7
  <2>2. \A d \in Call \ {c} : /\ calls[d].pc # "ended" => calls[d].request.item # i
                              /\ \A f \in due[d] : f.item # i
    BY <2>1 DEF IsOpen
  <2>3. told[i] = items[i].status
    <3>1. \A d \in Call : \A f \in due[d] : f.item # i
      BY <2>2, <1>4
    <3> QED BY <1>2, <1>7, <2>1, <3>1 DEF AuditIsSound, StreamFollowsStore
  <2>4. BeforeFollows(c)
    BY <1>1 DEF AuditIsSound
  <2> QED BY <1>2, <1>7, <2>1, <2>2, <2>3, <2>4 DEF BeforeFollows, i
<1>8. AuditIsTyped'
  BY <1>1, <1>2, <1>3, <1>4, <1>5, <1>6 DEF AuditIsSound, AuditIsTyped
<1>9. OneTeller'
  <2> SUFFICES ASSUME NEW a \in Call, NEW d \in Call, NEW f \in due'[a], NEW g \in due'[d],
                      f.item = g.item, told'[f.item] # "unclear"
               PROVE  a = d
    BY DEF OneTeller
  <2>1. CASE f.item = i
    <3>1. \A b \in Call \ {c} : \A h \in due[b] : h.item # i
      BY <1>7, <2>1
    <3>2. a = c
      BY <1>4, <2>1, <3>1
    <3>3. d = c
      BY <1>4, <2>1, <3>1
    <3> QED BY <3>2, <3>3
  <2>2. CASE f.item # i
    <3>1. f \in due[a] /\ g \in due[d] /\ told'[f.item] = told[f.item]
      BY <1>4, <1>5, <1>6, <2>2 DEF AuditIsSound, AuditIsTyped
    <3> QED BY <3>1 DEF AuditIsSound, OneTeller
  <2> QED BY <2>1, <2>2
<1>10. ASSUME NEW d \in Call PROVE DueFollows(d)'
  <2> SUFFICES ASSUME NEW f \in due'[d], told'[f.item] # "unclear"
               PROVE  f.before = told'[f.item] /\ f.after = items'[f.item].status
    BY DEF DueFollows
  <2>1. CASE d = c
    BY <1>4, <1>5, <1>7, <2>1
  <2>2. CASE d # c
    <3>1. f \in due[d] /\ f.item \in Item
      BY <1>4, <2>2 DEF AuditIsSound, AuditIsTyped
    <3>2. f.item # i
      BY <1>7, <2>2, <3>1
    <3> QED BY <1>2, <1>6, <3>1, <3>2 DEF AuditIsSound, DueFollows
  <2> QED BY <2>1, <2>2
<1>11. ASSUME NEW d \in Call, calls'[d].pc \in {"wait", "read", "write"}
       PROVE  BeforeFollows(d)'
  <2>1. d # c /\ calls'[d] = calls[d] /\ BeforeFollows(d)
    BY <1>3, <1>11 DEF AuditIsSound
  <2>2. calls[d].request.item \in Item /\ calls[d].pc # "ended"
    BY <1>11, <2>1 DEF FileIsSound, FilesAreTyped, Request
  <2>3. CASE calls[d].request.item = i
    <3>1. told'[i] = "unclear"
      BY <1>7, <2>1, <2>2, <2>3
    <3> QED BY <1>1, <2>1, <2>3, <3>1 DEF BeforeFollows
  <2>4. CASE calls[d].request.item # i
    BY <1>1, <1>2, <1>6, <2>1, <2>2, <2>4 DEF BeforeFollows
  <2> QED BY <2>3, <2>4
<1>12. StreamFollowsStore'
  <2> SUFFICES ASSUME NEW j \in Item, told'[j] # "unclear",
                      \A d \in Call : \A f \in due'[d] : f.item # j
               PROVE  told'[j] = items'[j].status
    BY DEF StreamFollowsStore
  <2>1. j # i
    BY <1>4, <1>5
  <2>2. \A d \in Call : \A f \in due[d] : f.item # j
    BY <1>4
  <2> QED BY <1>2, <1>6, <2>1, <2>2 DEF AuditIsSound, StreamFollowsStore
<1> QED BY <1>8, <1>9, <1>10, <1>11, <1>12 DEF AuditIsSound

(* An event is appended where the stream ended. *)
LEMMA AppendKeepsAudit ==
    ASSUME AuditIsSound, NEW c \in Call, Append(c)
    PROVE  AuditIsSound'
<1>1. PICK e \in due[c] :
        told' = [told EXCEPT ![e.item] = IF @ = "unclear" THEN @ ELSE e.after]
  BY DEF Append
<1>2. /\ due' = [due EXCEPT ![c] = {}] /\ items' = items /\ calls' = calls /\ before' = before
  BY DEF Append
<1>3. e.item \in Item /\ due[c] = {e}
  BY DEF AuditIsSound, AuditIsTyped
<1>4. /\ DOMAIN told' = Item
      /\ \A j \in Item \ {e.item} : told'[j] = told[j]
      /\ told'[e.item] = IF told[e.item] = "unclear" THEN "unclear" ELSE e.after
  BY <1>1, <1>3 DEF AuditIsSound, AuditIsTyped
<1>5. /\ DOMAIN due' = Call /\ due'[c] = {} /\ \A d \in Call \ {c} : due'[d] = due[d]
  BY <1>2 DEF AuditIsSound, AuditIsTyped
<1>6. told[e.item] # "unclear" =>
        /\ told'[e.item] = items[e.item].status
        /\ \A d \in Call : \A f \in due'[d] : f.item # e.item
  BY <1>4, <1>5 DEF AuditIsSound, DueFollows, OneTeller
<1>7. \A j \in Item : told[j] = "unclear" => told'[j] = "unclear"
  BY <1>4
<1>8. AuditIsTyped'
  BY <1>2, <1>4, <1>5 DEF AuditIsSound, AuditIsTyped
<1>9. OneTeller'
  BY <1>5, <1>7, <1>8 DEF AuditIsSound, AuditIsTyped, OneTeller
<1>10. ASSUME NEW d \in Call PROVE DueFollows(d)'
  BY <1>2, <1>4, <1>5, <1>6, <1>7 DEF AuditIsSound, AuditIsTyped, DueFollows
<1>11. ASSUME NEW d \in Call, calls'[d].pc \in {"wait", "read", "write"}
       PROVE  BeforeFollows(d)'
  <2>1. BeforeFollows(d)
    BY <1>2, <1>11 DEF AuditIsSound
  <2>2. \A j : told'[j] # "unclear" => told[j] # "unclear"
    BY <1>1, <1>3 DEF AuditIsSound, AuditIsTyped
  <2> QED BY <1>2, <2>1, <2>2 DEF BeforeFollows
<1>12. StreamFollowsStore'
  <2> SUFFICES ASSUME NEW j \in Item, told'[j] # "unclear",
                      \A d \in Call : \A f \in due'[d] : f.item # j
               PROVE  told'[j] = items'[j].status
    BY DEF StreamFollowsStore
  <2>1. CASE j = e.item
    BY <1>2, <1>6, <1>7, <2>1
  <2>2. CASE j # e.item
    <3>1. \A d \in Call : \A f \in due[d] : f.item # j
      BY <1>3, <1>5, <2>2
    <3> QED BY <1>2, <1>4, <2>2, <3>1 DEF AuditIsSound, StreamFollowsStore
  <2> QED BY <2>1, <2>2
<1> QED BY <1>8, <1>9, <1>10, <1>11, <1>12 DEF AuditIsSound

(* Events are lost: the stream is unclear about their items. *)
LEMMA LossKeepsAudit ==
    ASSUME FileIsSound, AuditIsSound, NEW lost \in SUBSET Call,
           items' = items,
           due' = [c \in Call |-> IF c \in lost THEN {} ELSE due[c]],
           Blur({e.item : e \in UNION {due[c] : c \in lost}}),
           DOMAIN before' = Call,
           \A c \in Call : \/ calls'[c].pc = "ended"
                           \/ calls'[c] = calls[c] /\ before'[c] = before[c]
    PROVE  AuditIsSound'
<1>1. DOMAIN told' = Item /\ \A i \in Item : told'[i] # "unclear" => told'[i] = told[i]
  BY DEF Blur
<1>2. \A c \in lost : \A e \in due[c] : e.item \in Item /\ told'[e.item] = "unclear"
  <2> SUFFICES ASSUME NEW c \in lost, NEW e \in due[c]
               PROVE  e.item \in Item /\ told'[e.item] = "unclear"
    OBVIOUS
  <2>1. e.item \in Item /\ e.item \in {f.item : f \in UNION {due[d] : d \in lost}}
    BY DEF AuditIsSound, AuditIsTyped
  <2> QED BY <2>1 DEF Blur
<1>3. DOMAIN due' = Call /\ \A c \in Call : due'[c] = IF c \in lost THEN {} ELSE due[c]
  OBVIOUS
<1>4. AuditIsTyped'
  BY <1>1, <1>3 DEF AuditIsSound, AuditIsTyped
<1>5. OneTeller'
  BY <1>1, <1>3, <1>4 DEF AuditIsSound, AuditIsTyped, OneTeller
<1>6. ASSUME NEW d \in Call PROVE DueFollows(d)'
  BY <1>1, <1>3, <1>4 DEF AuditIsSound, AuditIsTyped, DueFollows
<1>7. ASSUME NEW d \in Call, calls'[d].pc \in {"wait", "read", "write"}
      PROVE  BeforeFollows(d)'
  <2>1. BeforeFollows(d) /\ calls'[d] = calls[d] /\ before'[d] = before[d]
    BY <1>7 DEF AuditIsSound
  <2>2. calls[d].request.item \in Item
    BY <1>7, <2>1 DEF FileIsSound, FilesAreTyped, Request
  <2> QED BY <1>1, <2>1, <2>2 DEF BeforeFollows
<1>8. StreamFollowsStore'
  <2> SUFFICES ASSUME NEW j \in Item, told'[j] # "unclear",
                      \A d \in Call : \A f \in due'[d] : f.item # j
               PROVE  told'[j] = items'[j].status
    BY DEF StreamFollowsStore
  <2>1. \A d \in Call : \A f \in due[d] : f.item # j
    BY <1>2, <1>3
  <2> QED BY <1>1, <2>1 DEF AuditIsSound, StreamFollowsStore
<1> QED BY <1>4, <1>5, <1>6, <1>7, <1>8 DEF AuditIsSound

LEMMA RecordingKeepsAudit ==
    ASSUME FileIsSound, AuditIsSound, [RecordingNext]_recordingVars
    PROVE  AuditIsSound'
<1>1. CASE UNCHANGED <<items, calls, before, due, told>>
  BY <1>1 DEF AuditIsSound, AuditIsTyped, OneTeller, DueFollows, BeforeFollows, StreamFollowsStore
<1>2. ASSUME NEW c \in Call, AppendFails(c)
      PROVE  AuditIsSound'
  <2>1. UNION {due[d] : d \in {c}} = due[c]
    OBVIOUS
  <2>2. /\ due' = [d \in Call |-> IF d \in {c} THEN {} ELSE due[d]]
        /\ items' = items /\ calls' = calls /\ before' = before
    BY <1>2 DEF AppendFails, AuditIsSound, AuditIsTyped
  <2>3. Blur({e.item : e \in UNION {due[d] : d \in {c}}})
    BY <1>2, <2>1 DEF AppendFails
  <2>4. /\ DOMAIN before' = Call
        /\ \A d \in Call : calls'[d] = calls[d] /\ before'[d] = before[d]
    BY <2>2 DEF AuditIsSound, AuditIsTyped
  <2> HIDE DEF AuditIsSound
  <2> QED BY <2>2, <2>3, <2>4, LossKeepsAudit
<1>3. ASSUME NEW dead \in SUBSET Call, Die(dead)
      PROVE  AuditIsSound'
  <2>1. /\ due' = [d \in Call |-> IF d \in dead THEN {} ELSE due[d]] /\ items' = items
        /\ Blur({e.item : e \in UNION {due[c] : c \in dead}})
        /\ DOMAIN before' = Call
        /\ \A c \in Call : \/ calls'[c].pc = "ended"
                           \/ calls'[c] = calls[c] /\ before'[c] = before[c]
    BY <1>3 DEF Die, Crash, Answered
  <2> QED BY <2>1, LossKeepsAudit
<1>4. CASE Pass
  BY <1>1, <1>4 DEF Pass, Tick, Store!Tick, auditVars
<1>5. CASE UNCHANGED recordingVars
  BY <1>1, <1>5 DEF recordingVars
<1> QED BY <1>2, <1>3, <1>4, <1>5, BeginKeepsAudit, WaitKeepsAudit, CommitKeepsAudit,
           AppendKeepsAudit DEF RecordingNext, Progress

-----------------------------------------------------------------------------

(* The file and what the stream tells of it agree in every reachable state. *)
THEOREM AuditStaysSound == RecordingSpec => [](FileIsSound /\ AuditIsSound)
<1>1. RecordingInit => FileIsSound /\ AuditIsSound
  <2> SUFFICES ASSUME RecordingInit PROVE FileIsSound /\ AuditIsSound
    OBVIOUS
  <2>1. FileIsSound
    BY FileBeginsSound DEF RecordingInit
  <2>2. items = [i \in Item |-> NoItem] /\ NoItem.status = "absent"
    BY DEF RecordingInit, FileInit, Store!Init, Store!NoItem, NoItem
  <2>3. \A c \in Call : calls[c].pc = "ended" /\ due[c] = {}
    BY DEF RecordingInit, FileInit, Answered
  <2> QED BY <2>1, <2>2, <2>3
          DEF RecordingInit, AuditIsSound, AuditIsTyped, OneTeller, DueFollows, StreamFollowsStore
<1>2. FileIsSound /\ AuditIsSound /\ [RecordingNext]_recordingVars
        => FileIsSound' /\ AuditIsSound'
  BY RecordingTakesFileSteps, FileStepsKeepSound, RecordingKeepsAudit
<1> QED BY <1>1, <1>2, PTL DEF RecordingSpec

(* Of an item whose calls came one after the other and were all told, the *)
(* last event says where it stands.                                       *)
THEOREM StreamEndsAtTheStore == RecordingSpec => []StreamFollowsStore
<1>1. AuditIsSound => StreamFollowsStore
  BY DEF AuditIsSound
<1> QED BY <1>1, AuditStaysSound, PTL

(* The status before a step, read without the lock, is the one the last *)
(* event of the item ended with.                                        *)
THEOREM StreamIsAChain == RecordingSpec => []EventsFormAChain
<1>1. AuditIsSound => EventsFormAChain
  BY DEF AuditIsSound, DueFollows, EventsFormAChain
<1> QED BY <1>1, AuditStaysSound, PTL

-----------------------------------------------------------------------------
(* Approval *)

(* An item under an active lease that waits for approval can only end. *)
LEMMA OnlyTheEndAfterApproval ==
    ASSUME NEW w \in WorkItem, NEW c \in Command, NEW t \in Nat, NEW n \in Nat, t <= n,
           Allows(w, c, t), w.status = "needs_approval", w.lease # NoLease, IsActive(w.lease, n)
    PROVE  After(w, c, t).status \in {"failed", "cancelled"}
<1>1. w.lease \in Lease /\ IsActive(w.lease, t)
  BY DEF IsActive, WorkItem, Lease
<1>2. c.op \in {"fail", "cancel"}
  BY <1>1 DEF Allows, Command, CanMarkReady, CanClaim, CanHeartbeat, CanReleaseStale,
              CanMoveToNeedsApproval, CanComplete
<1> QED BY <1>2 DEF After, Ended, WorkItem

(* A write to an item is an update allowed by the lifecycle or a creation. *)
LEMMA ApprovalEndsInAnEnd ==
    ASSUME FileIsSound, LeasesAreSound, [FileNext]_vars, NEW i \in Item,
           items[i].status = "needs_approval", IsActive(items[i].lease, now), items'[i] # items[i]
    PROVE  items'[i].status \in {"failed", "cancelled"}
<1>1. PICK c \in Call : Write(c)
  BY DEF FileNext, Step, Start, Enter, GiveUp, Read, WriteFails, Leave, Crash, Tick,
         Store!Tick, vars
<1> DEFINE q == calls[c].request
           w == items[i]
<1>2. q \in Request /\ q.item = i /\ WriteFollows(c) /\ items' = calls[c].map
  BY <1>1, WriteEffect DEF FileIsSound, Write
<1>3. /\ w \in WorkItem /\ now \in Nat /\ w.lease # NoLease
      /\ items \in [Item -> WorkItem]
  BY SamePromises, MaxTimeAssumption DEF FileIsSound, FilesAreTyped, IsWellLeased
<1>4. PICK t \in 0..now : q.op = "update" /\ Allows(w, q.command, t)
                          /\ calls[c].map = [items EXCEPT ![i] = After(w, q.command, t)]
  BY <1>2 DEF WriteFollows, IsStored
<1>5. q.command \in Command
  BY <1>2, <1>4 DEF Request
<1>6. items'[i] = After(w, q.command, t)
  BY <1>2, <1>3, <1>4
<1>7. After(w, q.command, t).status \in {"failed", "cancelled"}
  <2> HIDE DEF q, w
  <2>1. w.status = "needs_approval" /\ IsActive(w.lease, now)
    BY DEF w
  <2> QED BY <1>3, <1>4, <1>5, <2>1, OnlyTheEndAfterApproval
<1> QED BY <1>6, <1>7

(* No step but a failure or a cancellation ends the wait for approval while *)
(* the lease is active.                                                     *)
THEOREM ApprovalIsWaitedFor == RecordingSpec => ApprovalIsAwaited
<1> DEFINE Awaited == \A i \in Item :
              items[i].status = "needs_approval" /\ IsActive(items[i].lease, now)
                  => items'[i] = items[i] \/ items'[i].status \in {"failed", "cancelled"}
<1>1. FileIsSound /\ LeasesAreSound /\ [FileNext]_vars => [Awaited]_vars
  BY ApprovalEndsInAnEnd
<1> HIDE DEF Awaited
<1>2. FileSteps => [][Awaited]_vars
  BY <1>1, FileStaysSound, FileKeepsPromises, PTL DEF FileSteps
<1>3. RecordingSpec => FileSteps
  BY RecordingIsAFile
<1> QED BY <1>2, <1>3 DEF Awaited, ApprovalIsAwaited

=============================================================================
