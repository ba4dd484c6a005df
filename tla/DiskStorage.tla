----------------------------- MODULE DiskStorage -----------------------------
(***************************************************************************)
(* storages.Disk (internal/sparkl/storages/disk.go): one database record   *)
(* per URI.  An update reads the record, changes the copy and writes it    *)
(* back, two steps that hold the lock l; each slot is filled by a          *)
(* goroutine of its own.                                                   *)
(***************************************************************************)
EXTENDS Integers, Sequences

CONSTANTS Uri, Path, Slot, Value, NoEntity,
          NoParent, \* the empty label
          Idle      \* no update is in progress

VARIABLES db,       \* uri -> record
          count,
          buffer    \* slot -> the record its goroutine is about to write, or Idle
diskVars == <<db, count, buffer>>

Store == INSTANCE EntityStore WITH entity <- db

DiskTypeOK ==
    /\ \A u \in Uri : db[u] # NoEntity =>
          db[u].path \in Path /\ db[u].values \in [Slot -> Seq(Value)]
    /\ count \in Nat
    /\ \A s \in Slot : buffer[s] # Idle => buffer[s].uri \in Uri

DiskInit ==
    /\ db = [u \in Uri |-> NoEntity]
    /\ count = 0
    /\ buffer = [s \in Slot |-> Idle]

\* Mutant of Unlocked: the lock is not taken.
Unlocked_Ignored == TRUE

\* Nobody holds l for writing.
Unlocked == \A s \in Slot : buffer[s] = Idle

\* Add counts the call; put replaces what was stored under the URI.
DiskAdd(u, path) ==
    /\ Unlocked
    /\ count' = count + 1
    /\ db' = [db EXCEPT ![u] = Store!Fresh(path)]
    /\ UNCHANGED buffer

\* update, first half: lock, read, decode and change the copy.
BeginUpdate(u, s, v) ==
    /\ Unlocked /\ buffer[s] = Idle
    /\ db[u] # NoEntity
    /\ buffer' = [buffer EXCEPT ![s] = [uri |-> u, value |-> v, record |-> Store!With(db[u], s, v)]]
    /\ UNCHANGED <<db, count>>

\* update, second half: encode, write back and unlock.
EndUpdate(s) ==
    /\ buffer[s] # Idle
    /\ db' = [db EXCEPT ![buffer[s].uri] = buffer[s].record]
    /\ buffer' = [buffer EXCEPT ![s] = Idle]
    /\ UNCHANGED count

\* Mutant of HasParent: with any index but the last, there is no parent.
HasParent_FromTwo(i) == i > 1

\* disk.go:217: index 0 gives no parent.
HasParent(i) == i > 0

\* Get, in the order of the keys.
DiskGet(i) == {[label |-> u, parent |-> IF HasParent(i) THEN db[u].path[i + 1] ELSE NoParent] :
               u \in {x \in Uri : db[x] # NoEntity}}

DiskCount == count

\* storages.go:65: Get "iterates over the url of every entity in this bundle,
\* along with their parent URIs", for every index a path has.
GetYieldsParents ==
    \A u \in Uri : db[u] # NoEntity => \A i \in 0..(Len(db[u].path) - 1) :
        [label |-> u, parent |-> db[u].path[i + 1]] \in DiskGet(i)
===============================================================================
