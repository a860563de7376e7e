---------------------------- MODULE KeyValueStore ----------------------------
(***************************************************************************)
(* What a storage node promises the callers of StorageEngine's insert, get *)
(* and delete (crates/cdf-storage/src/engine.rs): each call takes effect   *)
(* at one moment between its invocation and its answer, or fails and has   *)
(* no effect.  Nothing outlives the process: that is what the code keeps,  *)
(* and less than its documentation says.                                   *)
(***************************************************************************)
CONSTANTS Client, Key, Value,
          Call,     \* the calls: records with a kind, a key and a value
          Missing,  \* a row that is not there, and the answer of a get of it
          None,     \* no call, and no answer yet
          Ok,       \* the answer of a write
          Failed    \* the answer of a call that had no effect

VARIABLES store,  \* the rows
          call,   \* the call each client has made and not seen answered
          answer  \* its answer, once it has taken effect

vars == <<store, call, answer>>

Init ==
  /\ store = [k \in Key |-> Missing]
  /\ call = [c \in Client |-> None]
  /\ answer = [c \in Client |-> None]

Invoke(c) ==
  /\ call[c] = None
  /\ \E q \in Call : call' = [call EXCEPT ![c] = q]
  /\ UNCHANGED <<store, answer>>

Pending(c) == call[c] # None /\ answer[c] = None

Write(c) ==
  /\ Pending(c)
  /\ call[c].kind \in {"insert", "delete"}
  /\ store' = [store EXCEPT ![call[c].key] =
                 IF call[c].kind = "insert" THEN call[c].val ELSE Missing]
  /\ answer' = [answer EXCEPT ![c] = Ok]
  /\ UNCHANGED call

Read(c) ==
  /\ Pending(c)
  /\ call[c].kind = "get"
  /\ answer' = [answer EXCEPT ![c] = store[call[c].key]]
  /\ UNCHANGED <<store, call>>

Fail(c) ==
  /\ Pending(c)
  /\ call[c].kind # "get"
  /\ answer' = [answer EXCEPT ![c] = Failed]
  /\ UNCHANGED <<store, call>>

Return(c) ==
  /\ answer[c] # None
  /\ call' = [call EXCEPT ![c] = None]
  /\ answer' = [answer EXCEPT ![c] = None]
  /\ UNCHANGED store

Lose ==
  /\ store' = [k \in Key |-> Missing]
  /\ call' = [c \in Client |-> None]
  /\ answer' = [c \in Client |-> None]

Next ==
  \/ \E c \in Client : Invoke(c) \/ Write(c) \/ Read(c) \/ Fail(c) \/ Return(c)
  \/ Lose

Spec == Init /\ [][Next]_vars
=============================================================================
