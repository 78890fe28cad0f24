------------------------------ MODULE SeqLock ------------------------------
(***************************************************************************)
(* `struct atomic_double` of src/runtime_control.c: a double split into    *)
(* two atomic 32-bit words behind a sequence counter, so that the Zenoh    *)
(* thread and the controller thread exchange values without a lock.  One   *)
(* action per atomic access; every slot has one writer at a time           *)
(* (RuntimeControl.tla shows why).  The accesses to the two words are      *)
(* memory_order_relaxed, so they happen here in either order.              *)
(***************************************************************************)
EXTENDS Integers

CONSTANTS
  Readers,      \* The threads that call atomic_double_try_load.
  Part,         \* The contents of one 32-bit word.
  SeqModulus,   \* The sequence counter counts modulo this (2^32 in C).
  Failed        \* What a load that gives up returns.

Word == {"low", "high"}
Value == [Word -> Part]
MaxAttempts == 3

ASSUME SeqModulusAssumption ==
  SeqModulus \in Nat /\ SeqModulus >= 4 /\ SeqModulus % 2 = 0
ASSUME FailedAssumption == Failed \notin Value

VARIABLES
  sequence,   \* slot->sequence
  mem,        \* slot->low and slot->high
  unwritten,  \* The words the store in progress has yet to write.
  current,    \* The argument of the latest store.
  pc,         \* pc[r]: where reader r is in try_load.
  attempt,    \* attempt[r]: the loop counter of try_load.
  before,     \* before[r]: the local `before`.
  seen,       \* seen[r]: the locals `low` and `high`.
  unread,     \* unread[r]: the words this attempt has yet to read.
  ret,        \* ret[r]: what r's latest load returned.
  overlap,    \* History: increments of sequence since r read `before`.
  disturbed   \* History: a store was in progress during r's load.

slotVars == <<sequence, mem, unwritten, current>>
loadVars == <<pc, attempt, before, seen, unread, ret>>
vars == <<sequence, mem, unwritten, current, pc, attempt, before, seen,
          unread, ret, overlap, disturbed>>

Odd(n) == n % 2 = 1
Storing == Odd(sequence)
Loading(r) == pc[r] # "idle"
Inc(n) == IF n = SeqModulus - 1 THEN 0 ELSE n + 1

Init ==
  /\ mem \in Value
  /\ sequence = 0
  /\ unwritten = {}
  /\ current = mem
  /\ pc = [r \in Readers |-> "idle"]
  /\ attempt = [r \in Readers |-> 0]
  /\ before = [r \in Readers |-> 0]
  /\ seen \in [Readers -> {mem}]
  /\ unread = [r \in Readers |-> {}]
  /\ ret = [r \in Readers |-> Failed]
  /\ overlap = [r \in Readers |-> 0]
  /\ disturbed = [r \in Readers |-> FALSE]

-----------------------------------------------------------------------------
(* atomic_double_store_value *)

(* Bound: fewer than SeqModulus increments (2^31 stores in C) fall within  *)
(* one attempt of a load; with more the counter could come round again.    *)
NoWrapAround == \A r \in Readers : Loading(r) => overlap[r] < SeqModulus - 1

(* One atomic_fetch_add of the sequence counter. *)
Bump ==
  /\ NoWrapAround
  /\ sequence' = Inc(sequence)
  /\ overlap' = [r \in Readers |-> IF Loading(r) THEN overlap[r] + 1
                                                 ELSE overlap[r]]

StoreBegin(v) ==
  /\ ~Storing
  /\ Bump
  /\ unwritten' = Word
  /\ current' = v
  /\ disturbed' = [r \in Readers |-> disturbed[r] \/ Loading(r)]
  /\ UNCHANGED <<mem, loadVars>>

StoreWord(w) ==
  /\ w \in unwritten
  /\ mem' = [mem EXCEPT ![w] = current[w]]
  /\ unwritten' = unwritten \ {w}
  /\ UNCHANGED <<sequence, current, loadVars, overlap, disturbed>>

StoreEnd ==
  /\ Storing
  /\ unwritten = {}
  /\ Bump
  /\ UNCHANGED <<mem, unwritten, current, loadVars, disturbed>>

-----------------------------------------------------------------------------
(* atomic_double_try_load *)

LoadBegin(r) ==
  /\ pc[r] = "idle"
  /\ pc' = [pc EXCEPT ![r] = "before"]
  /\ attempt' = [attempt EXCEPT ![r] = 0]
  /\ disturbed' = [disturbed EXCEPT ![r] = Storing]
  /\ UNCHANGED <<slotVars, before, seen, unread, ret, overlap>>

(* The call returns and its locals are gone. *)
Return(r, result) ==
  /\ pc' = [pc EXCEPT ![r] = "idle"]
  /\ ret' = [ret EXCEPT ![r] = result]
  /\ attempt' = [attempt EXCEPT ![r] = 0]
  /\ before' = [before EXCEPT ![r] = 0]
  /\ overlap' = [overlap EXCEPT ![r] = 0]
  /\ disturbed' = [disturbed EXCEPT ![r] = FALSE]

(* `continue`: the next attempt, unless this was the third. *)
TryForever(r) ==                                           \* mutant
  /\ pc' = [pc EXCEPT ![r] = "before"]
  /\ overlap' = [overlap EXCEPT ![r] = 0]
  /\ UNCHANGED <<attempt, before, ret, disturbed>>
NextAttempt(r) ==
  \/ /\ attempt[r] + 1 < MaxAttempts
     /\ pc' = [pc EXCEPT ![r] = "before"]
     /\ attempt' = [attempt EXCEPT ![r] = @ + 1]
     /\ overlap' = [overlap EXCEPT ![r] = 0]
     /\ UNCHANGED <<before, ret, disturbed>>
  \/ /\ attempt[r] + 1 = MaxAttempts
     /\ Return(r, Failed)

AlwaysQuiet == TRUE                                        \* mutant
Quiet == ~Storing

LoadBefore(r) ==
  /\ pc[r] = "before"
  /\ Quiet
  /\ pc' = [pc EXCEPT ![r] = "words"]
  /\ before' = [before EXCEPT ![r] = sequence]
  /\ unread' = [unread EXCEPT ![r] = Word]
  /\ overlap' = [overlap EXCEPT ![r] = 0]
  /\ UNCHANGED <<slotVars, attempt, seen, ret, disturbed>>

LoadBusy(r) ==
  /\ pc[r] = "before"
  /\ Storing
  /\ NextAttempt(r)
  /\ UNCHANGED <<slotVars, seen, unread>>

LoadWord(r, w) ==
  /\ pc[r] = "words"
  /\ w \in unread[r]
  /\ seen' = [seen EXCEPT ![r] = [@ EXCEPT ![w] = mem[w]]]
  /\ unread' = [unread EXCEPT ![r] = @ \ {w}]
  /\ UNCHANGED <<slotVars, pc, attempt, before, ret, overlap, disturbed>>

(* `before != after || (after & 1U) != 0U` *)
DisturbedIfOdd(r) == Storing                               \* mutant
DisturbedIfEven(r) == before[r] # sequence \/ ~Storing     \* mutant
Disturbed(r) == before[r] # sequence \/ Storing

(* The second read of sequence decides. *)
LoadAfter(r) ==
  /\ pc[r] = "words"
  /\ unread[r] = {}
  /\ \/ Disturbed(r) /\ NextAttempt(r)
     \/ ~Disturbed(r) /\ Return(r, seen[r])
  /\ UNCHANGED <<slotVars, seen, unread>>

-----------------------------------------------------------------------------
Writer ==
  \/ \E v \in Value : StoreBegin(v)
  \/ \E w \in Word : StoreWord(w)
  \/ StoreEnd

Load(r) ==
  \/ LoadBefore(r)
  \/ LoadBusy(r)
  \/ \E w \in Word : LoadWord(r, w)
  \/ LoadAfter(r)

Next ==
  \/ Writer
  \/ \E r \in Readers : LoadBegin(r) \/ Load(r)

Spec == Init /\ [][Next]_vars

(* A load that has begun keeps running.  Nothing is assumed of the writer, *)
(* which may be preempted in the middle of a store for ever.               *)
LoadFairness == \A r \in Readers : WF_vars(Load(r))
FairSpec == Spec /\ LoadFairness
-----------------------------------------------------------------------------
(* Every variable holds what its C declaration, or its use as a local of   *)
(* atomic_double_try_load, allows.                                         *)
TypeOK ==
  /\ sequence \in 0 .. SeqModulus - 1
  /\ mem \in Value
  /\ unwritten \in SUBSET Word
  /\ current \in Value
  /\ pc \in [Readers -> {"idle", "before", "words"}]
  /\ attempt \in [Readers -> 0 .. MaxAttempts - 1]
  /\ before \in [Readers -> 0 .. SeqModulus - 1]
  /\ seen \in [Readers -> Value]
  /\ unread \in [Readers -> SUBSET Word]
  /\ ret \in [Readers -> Value \union {Failed}]
  /\ overlap \in [Readers -> 0 .. SeqModulus - 1]
  /\ disturbed \in [Readers -> BOOLEAN]

(* The words that hold what the latest store put there: all of them unless *)
(* a store is in progress (atomic_double_store_value, lines 140-144).      *)
MemoryCoherent ==
  /\ \A w \in Word : w \notin unwritten => mem[w] = current[w]
  /\ ~Storing => unwritten = {}

(* The counter is `overlap` increments past what the attempt first read,   *)
(* so an equal counter means an undisturbed attempt, wrap-around included. *)
CounterTracked(r) ==
  pc[r] = "words" =>
    /\ ~Odd(before[r])
    /\ \/ sequence = before[r] + overlap[r]
       \/ sequence = before[r] + overlap[r] - SeqModulus

(* What an undisturbed attempt has read so far is the current value.       *)
WordsCurrent(r) ==
  pc[r] = "words" /\ overlap[r] = 0 =>
    \A w \in Word : w \notin unread[r] => seen[r][w] = current[w]

(* A load only has reason to retry or give up when a store was in progress *)
(* at some time since it began.                                            *)
RetriesJustified(r) ==
  Loading(r) =>
    /\ Storing => disturbed[r]
    /\ attempt[r] > 0 => disturbed[r]
    /\ pc[r] = "words" /\ overlap[r] > 0 => disturbed[r]

(* The inductive invariant of the seqlock of atomic_double.                *)
SeqLockInv ==
  /\ TypeOK
  /\ MemoryCoherent
  /\ \A r \in Readers : CounterTracked(r) /\ WordsCurrent(r)
                         /\ RetriesJustified(r)

(* atomic_double_try_load returns true only with the value of the latest   *)
(* store, that store being complete: never one half of each of two values. *)
LoadsCurrent ==
  [][\A r \in Readers :
       Loading(r) /\ ~Loading(r)' /\ ret'[r] # Failed =>
         ret'[r] = current /\ ~Storing]_vars

(* The slot implements the register its callers rely on: loads are atomic  *)
(* and give up only if a store was in progress during the call.            *)
Register == INSTANCE TryRegister WITH
  val <- current,
  storing <- Storing,
  loading <- [r \in Readers |-> Loading(r)]
ImplementsRegister == Register!Spec

(* "Readers never block" (runtime_control.c:40-41): a load returns even if *)
(* the writer stops in the middle of a store.                              *)
LoadTerminates == \A r \in Readers : Loading(r) ~> ~Loading(r)
=============================================================================
