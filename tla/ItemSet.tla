------------------------------ MODULE ItemSet -------------------------------
(***************************************************************************)
(* What the comments of BRSet.h promise: sets of items of which no two are *)
(* equal, and the item that an operation returns.  Where an item lies, and *)
(* that tables grow, does not matter here.                                 *)
(***************************************************************************)
CONSTANTS
    Sets, Items,
    Key         \* items are equal if their keys are

NULL == "null"

VARIABLES
    members,    \* members[s]: the items of set s
    result      \* what the last operation returned

vars == <<members, result>>

Init ==
    /\ members = [s \in Sets |-> {}]
    /\ result = NULL

EqualTo(item, S) == {x \in S : Key[x] = Key[item]}
Among(S, T) == {x \in S : EqualTo(x, T) # {}}

Returns(S) == result' = IF S = {} THEN NULL ELSE CHOOSE x \in S : TRUE

\* "adds given item to set or replaces an equivalent existing item and returns
\* item replaced if any"
Add(s, item) ==
    LET replaced == EqualTo(item, members[s])
    IN  /\ members' = [members EXCEPT ![s] = (@ \ replaced) \cup {item}]
        /\ Returns(replaced)

Remove(s, item) ==
    LET removed == EqualTo(item, members[s])
    IN  /\ members' = [members EXCEPT ![s] = @ \ removed]
        /\ Returns(removed)

Get(s, item) ==
    /\ Returns(EqualTo(item, members[s]))
    /\ UNCHANGED members

Becomes(s, S) ==
    /\ members' = [members EXCEPT ![s] = S]
    /\ UNCHANGED result

Next ==
    \/ \E s \in Sets, item \in Items : Add(s, item) \/ Remove(s, item) \/ Get(s, item)
    \/ \E s \in Sets : Becomes(s, {})
    \/ \E s, o \in Sets :
          \/ Becomes(s, (members[s] \ Among(members[s], members[o])) \cup members[o])
          \/ Becomes(s, members[s] \ Among(members[s], members[o]))
          \/ Becomes(s, Among(members[s], members[o]))

Spec == Init /\ [][Next]_vars

=============================================================================
