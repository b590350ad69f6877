------------------------------ MODULE CwrScope ------------------------------
(***************************************************************************)
(* The flat instance array of the interpreter (source/cwr_scope.c,         *)
(* includes/interpreter/cwr_instance.h).                                   *)
(*                                                                         *)
(* A scope is a record [insts, size]: insts holds the first `capacity'     *)
(* entries of the C array, size is the allocated length.  An instance      *)
(* carries the body it was declared in (its root).  The chain of           *)
(* cwr_func_body_expression.root links from a requester outwards is given  *)
(* as the sequence of the bodies on it, innermost first.                   *)
(***************************************************************************)
EXTENDS Integers, Sequences

CONSTANTS DefaultSize, GlobalScope

ASSUME DefaultSizeAssumption == DefaultSize \in Nat \ {0}

EmptyScope == [insts |-> <<>>, size |-> DefaultSize]

(***************************************************************************)
(* cwr_scope_add: the array doubles when it is full.                       *)
(***************************************************************************)
MustGrow(s) == Len(s.insts) >= s.size

Add(s, inst) ==
    [insts |-> Append(s.insts, inst),
     size  |-> IF MustGrow(s) THEN 2 * s.size ELSE s.size]

(***************************************************************************)
(* cwr_instance_can_access, cwr_scope_get and cwr_scope_get_by_name.  A    *)
(* lookup gives the index of the topmost match, 0 for the null result.     *)
(***************************************************************************)
CanAccess(inst, chain) ==
    inst.root = GlobalScope \/ \E i \in DOMAIN chain : chain[i] = inst.root

IsTop(i, S) == i \in S /\ \A j \in S : j <= i
Topmost(S) == IF \E i \in S : IsTop(i, S) THEN CHOOSE i \in S : IsTop(i, S) ELSE 0

Get(s, chain, id) ==
    Topmost({i \in DOMAIN s.insts :
                s.insts[i].id = id /\ CanAccess(s.insts[i], chain)})

GetByName(s, chain, name) ==
    Topmost({i \in DOMAIN s.insts :
                s.insts[i].val.op = name /\ CanAccess(s.insts[i], chain)})

(***************************************************************************)
(* One iteration of the loop of cwr_scope_root_destroy.  The entry at i is *)
(* released by the caller; what leaves the array is its LAST entry.        *)
(***************************************************************************)
\* Mutated: every entry matches.
RootMatches_AnyRoot(s, i, root) == i \in DOMAIN s.insts
RootMatches(s, i, root) == i \in DOMAIN s.insts /\ s.insts[i].root = root
DropLast(s) == [s EXCEPT !.insts = SubSeq(@, 1, Len(@) - 1)]
=============================================================================
