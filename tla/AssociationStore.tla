--------------------------- MODULE AssociationStore ---------------------------
(***************************************************************************)
(* What every oracle promises to its callers (IOracleProviderAdapter): a set *)
(* of associations of keys with FSPs, on which each call takes effect at     *)
(* most once, between its beginning and its end, and not at all unless the   *)
(* call asks for it.  A confirmed write has taken effect; one that failed    *)
(* may have.  Nobody is told "no owner" while an association matches, and    *)
(* nobody is told an owner that was never registered.                        *)
(*                                                                         *)
(* The oracles differ in two respects, the last two constants (BOOLEANs).    *)
(***************************************************************************)
CONSTANTS Key, Fsp, Caller,
          Null, Failed,
          Matching,     \* pairs of a key that is asked for and one it matches
          Relaxed,      \* checks and changes are apart, and a lookup may be told
                        \* an owner that was registered once
          Volatile      \* the store may end and come back with less, or with what
                        \* was dropped

VARIABLES
    owners,       \* the associations
    registered,   \* those that ever were
    call,         \* what each caller is waiting for, and whether it took effect
    answer        \* what it was told last

vars == <<owners, registered, call, answer>>

Association == [key : Key, fsp : Fsp]

Call == [op : {"lookup", "associate", "disassociate"},
         key : Key, fsp : Fsp \cup {Null}, done : BOOLEAN]

TypeOK ==
    /\ owners \subseteq Association
    /\ registered \subseteq Association
    /\ call \in [Caller -> Call \cup {Null}]
    /\ answer \in [Caller -> Fsp \cup {Null, Failed}]

Init ==
    /\ owners = {}
    /\ registered = {}
    /\ call = [c \in Caller |-> Null]
    /\ answer = [c \in Caller |-> Null]

Matched(k, S) == {a \in S : <<k, a.key>> \in Matching}

Waiting(c, op) == call[c] # Null /\ call[c].op = op /\ ~call[c].done

-----------------------------------------------------------------------------
Invoke(c) ==
    /\ call[c] = Null
    /\ UNCHANGED <<owners, registered, answer>>
    /\ \E new \in Call :
          /\ ~new.done
          /\ new.op = "lookup" <=> new.fsp = Null
          /\ call' = [call EXCEPT ![c] = new]

Tell(c, v) ==
    /\ call' = [call EXCEPT ![c] = Null]
    /\ answer' = [answer EXCEPT ![c] = v]
    /\ UNCHANGED <<owners, registered>>

TellNobody(c) ==
    /\ Waiting(c, "lookup")
    /\ Matched(call[c].key, owners) = {}
    /\ Tell(c, Null)

TellOwner(c) ==
    /\ Waiting(c, "lookup")
    /\ \E a \in Matched(call[c].key, IF Relaxed THEN registered ELSE owners) : Tell(c, a.fsp)

Mark(c) ==
    /\ call' = [call EXCEPT ![c].done = TRUE]
    /\ UNCHANGED answer

Register(c) ==
    LET new == [key |-> call[c].key, fsp |-> call[c].fsp] IN
    /\ Waiting(c, "associate")
    /\ Relaxed \/ Matched(call[c].key, owners) = {}
    /\ owners' = owners \cup {new}
    /\ registered' = registered \cup {new}
    /\ Mark(c)

(* At most one association goes, and it is one that was asked for. *)
Drop(c) ==
    LET asked == {a \in Matched(call[c].key, owners) : a.fsp = call[c].fsp} IN
    /\ Waiting(c, "disassociate")
    /\ \/ \E a \in asked : owners' = owners \ {a}
       \/ Relaxed /\ UNCHANGED owners
    /\ UNCHANGED registered
    /\ Mark(c)

Confirm(c) ==
    /\ call[c] # Null
    /\ call[c].done
    /\ Tell(c, Null)

Fail(c) ==
    /\ call[c] # Null
    /\ Tell(c, Failed)

(* A call that fails at once. *)
Reject(c) ==
    /\ call[c] = Null
    /\ answer' = [answer EXCEPT ![c] = Failed]
    /\ UNCHANGED <<owners, registered, call>>

(* The store ends, or comes back.  A write that took effect fails, and a     *)
(* call that did not may fail or go on waiting.                              *)
Restart ==
    /\ Volatile
    /\ owners' \in SUBSET registered
    /\ \E lost \in SUBSET {c \in Caller : call[c] # Null} :
          /\ \A c \in Caller \ lost : call[c] = Null \/ ~call[c].done
          /\ call' = [c \in Caller |-> IF c \in lost THEN Null ELSE call[c]]
          /\ answer' = [c \in Caller |-> IF c \in lost THEN Failed ELSE answer[c]]
    /\ UNCHANGED registered

-----------------------------------------------------------------------------
Next ==
    \/ \E c \in Caller : Invoke(c) \/ TellNobody(c) \/ TellOwner(c) \/ Register(c) \/ Drop(c)
                         \/ Confirm(c) \/ Fail(c) \/ Reject(c)
    \/ Restart

Spec == Init /\ [][Next]_vars

=============================================================================
