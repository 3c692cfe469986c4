------------------------------ MODULE CallFrame ------------------------------
(* The frame a cluster translator works on.  A fop or a callback of such a    *)
(* translator is an operator F(x, l) or C(x, l, w, r): x is the translator's  *)
(* private state, l the frame's local, w the wind being answered and r the    *)
(* child's reply.  It returns the new x and l, the calls it winds to its      *)
(* children and the answers it unwinds to its parent, in order.               *)
EXTENDS Integers, Sequences, FiniteSets

Result(x, l, winds, answers) ==
    [x |-> x, l |-> l, wind |-> winds, ans |-> answers]

(* Nothing wound, nothing unwound: the frame waits for its other replies. *)
Wait(x, l) == Result(x, l, {}, <<>>)

(* STACK_UNWIND(frame, op_ret, op_errno, ...). *)
Unwind(x, l, op_ret, op_errno) ==
    Result(x, l, {}, <<[op_ret |-> op_ret, op_errno |-> op_errno]>>)

UnwindLocal(x, l) == Unwind(x, l, l.op_ret, l.op_errno)

Fail(x, l, op_errno) == Unwind(x, l, -1, op_errno)

Call(to, op, cbk, no) == [to |-> to, op |-> op, cbk |-> cbk, no |-> no]

(* STACK_WIND(frame, cbk, child, child->fops->op, ...) for every child of set. *)
Wind(x, l, set, op, cbk) ==
    Result(x, l, {Call(c, op, cbk, 0) : c \in set}, <<>>)

(* The same with local->call_count set to the number of calls. *)
WindCounted(x, l, set, op, cbk) ==
    Wind(x, [l EXCEPT !.call_count = Cardinality(set)], set, op, cbk)

Children(x) == 1 .. x.n

Ok(r) == r.op_ret >= 0

(* The lowest-numbered member of a set of children. *)
First(set) == CHOOSE c \in set : \A d \in set : c <= d
=============================================================================
