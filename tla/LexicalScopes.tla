--------------------------- MODULE LexicalScopes ---------------------------
(***************************************************************************)
(* What the interpreter's flat variable array promises: a stack of scopes, *)
(* one for each running function call and for loop.  A loop sees the scope *)
(* around it, a call sees its own only; a declaration goes to the top      *)
(* scope, an assignment to the innermost visible binding, and leaving a    *)
(* scope forgets that scope and nothing else.                              *)
(***************************************************************************)
EXTENDS Integers, Sequences

CONSTANTS Id, Value

VARIABLE scopes   \* sequence of [sees : BOOLEAN, vars : Seq([id, val])]

Opened(sees) == [sees |-> sees, vars |-> <<>>]

\* The scopes the running code can name, and where a binding of id is.
IsVisible(k) == \A j \in k + 1 .. Len(scopes) : scopes[j].sees

Bindings(id) ==
    {p \in UNION {{k} \X DOMAIN scopes[k].vars : k \in DOMAIN scopes} :
        IsVisible(p[1]) /\ scopes[p[1]].vars[p[2]].id = id}

Innermost(id) ==
    CHOOSE p \in Bindings(id) : \A q \in Bindings(id) :
        q[1] < p[1] \/ (q[1] = p[1] /\ q[2] <= p[2])

Init == scopes = <<>>

Open == \E sees \in BOOLEAN : scopes' = Append(scopes, Opened(sees))

Declare ==
    /\ scopes # <<>>
    /\ \E id \in Id, v \in Value :
        scopes' = [scopes EXCEPT ![Len(scopes)].vars =
                        Append(@, [id |-> id, val |-> v])]

Assign ==
    \E id \in Id, v \in Value :
        /\ Bindings(id) # {}
        /\ scopes' = [scopes EXCEPT
                ![Innermost(id)[1]].vars[Innermost(id)[2]].val = v]

Close == scopes # <<>> /\ scopes' = SubSeq(scopes, 1, Len(scopes) - 1)

Next == Open \/ Declare \/ Assign \/ Close

Spec == Init /\ [][Next]_scopes
=============================================================================
