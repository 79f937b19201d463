----------------------------- MODULE AKFunction -----------------------------
(***************************************************************************)
(* AK::Function<Out(In...)> (src/AK/Function.h): a type-erased callable    *)
(* that stores its CallableWrapper inline in m_storage or out of line on   *)
(* the heap, counts nested calls in m_call_nesting_level, and defers a     *)
(* clear() requested from inside a call to the moment the outermost call   *)
(* returns.  MemoryManager hands such callbacks to                         *)
(* for_each_physical_memory_range.                                         *)
(*                                                                         *)
(* One thread runs everything: while `stack` is non-empty, every step the  *)
(* model takes is a step of the callable's body (it may call, assign, move *)
(* or destroy any Function, including the one running it).  A wrapper is   *)
(* an id; what is captured is abstracted to which callable it is.  A       *)
(* failed VERIFY halts the kernel (`panicked`).                            *)
(***************************************************************************)
EXTENDS Naturals, Sequences, FiniteSets

CONSTANTS
    Fns,          \* Function objects
    Callables,    \* callables that may be stored
    Pointers,     \* the function pointers among them
    Inline,       \* those whose CallableWrapper fits inline_capacity
    MaxWrappers,  \* bound on CallableWrappers ever constructed
    MaxDepth      \* bound on nested calls

ASSUME /\ Pointers \subseteq Inline /\ Inline \subseteq Callables
       /\ MaxWrappers \in Nat /\ MaxDepth \in Nat

Wrappers == 1 .. MaxWrappers
NoWrapper == 0
Kinds == {"NullPointer", "Inline", "Outline"}

\* m_size after init_with_callable: sizeof(WrapperType) for a function
\* object, 0 for a function pointer.  Out-of-line wrappers are larger.
CaptureSize(c) ==
    IF c \in Pointers THEN 0 ELSE IF c \in Inline THEN 1 ELSE 2

VARIABLES
    fn,        \* Function object -> its fields and whether it is alive
    wr,        \* wrapper id -> [st: "unused" | "live" | "destroyed", c: callable]
    stack,     \* calls in progress, innermost last: <<Function, wrapper>>
    panicked

vars == <<fn, wr, stack, panicked>>

EmptyFn == [alive |-> TRUE, kind |-> "NullPointer", w |-> NoWrapper,
            size |-> 0, deferred |-> FALSE, nesting |-> 0]

FreshWrappers == {i \in Wrappers : wr[i].st = "unused"}

\* callable_wrapper(): null for NullPointer, the stored wrapper otherwise.
CallableWrapper(r) == IF r.kind = "NullPointer" THEN NoWrapper ELSE r.w

\* raw_capture_range(): m_size bytes of the wrapper, or nothing.
RawCaptureSize(r) ==
    IF r.size = 0 \/ CallableWrapper(r) = NoWrapper THEN 0 ELSE r.size

Halt == /\ panicked' = TRUE
        /\ UNCHANGED <<fn, wr, stack>>

-----------------------------------------------------------------------------
(* The private helpers, as operators from a Function's fields to the       *)
(* outcome; `kill` is the wrapper the step destroys, if any.               *)

\* Variant: clear() destroying the wrapper even from inside a call.
ClearImmediate(r, mayDefer) ==
    IF ~mayDefer /\ r.nesting > 0 THEN [ok |-> FALSE]
    ELSE [ok |-> TRUE, kill |-> CallableWrapper(r),
          r |-> [r EXCEPT !.deferred = FALSE, !.kind = "NullPointer", !.w = NoWrapper]]

\* clear(may_defer): VERIFY(may_defer || !called_from_inside_function); from
\* inside a call only set m_deferred_clear; otherwise destroy the wrapper.
Clear(r, mayDefer) ==
    IF ~mayDefer /\ r.nesting > 0 THEN [ok |-> FALSE]
    ELSE IF r.nesting > 0
         THEN [ok |-> TRUE, kill |-> NoWrapper, r |-> [r EXCEPT !.deferred = TRUE]]
         ELSE [ok |-> TRUE, kill |-> CallableWrapper(r),
               r |-> [r EXCEPT !.deferred = FALSE, !.kind = "NullPointer", !.w = NoWrapper]]

\* init_with_callable: VERIFY(m_call_nesting_level == 0); construct the
\* wrapper inline or on the heap; m_size from the callable's kind.
InitWithCallable(r, c, i) ==
    [ok |-> r.nesting = 0,
     r  |-> [r EXCEPT !.kind = IF c \in Inline THEN "Inline" ELSE "Outline",
                      !.w = i, !.size = CaptureSize(c)]]

\* Variant: move_from leaving other.m_kind as it was.
MoveFromKeepingSource(r, o, i) ==
    [ok |-> r.nesting = 0 /\ o.nesting = 0,
     r  |-> [r EXCEPT !.size = o.size,
                      !.kind = IF o.kind = "NullPointer" THEN r.kind ELSE o.kind,
                      !.w = CASE o.kind = "Inline" -> i
                              [] o.kind = "Outline" -> o.w
                              [] OTHER -> r.w],
     o  |-> o]

\* Variant: move_from not taking other.m_size.
MoveFromKeepingSize(r, o, i) ==
    [ok |-> r.nesting = 0 /\ o.nesting = 0,
     r  |-> [r EXCEPT !.kind = IF o.kind = "NullPointer" THEN r.kind ELSE o.kind,
                      !.w = CASE o.kind = "Inline" -> i
                              [] o.kind = "Outline" -> o.w
                              [] OTHER -> r.w],
     o  |-> [o EXCEPT !.kind = "NullPointer", !.w = NoWrapper]]

\* move_from: VERIFY both nesting levels are 0; take m_size; an inline
\* wrapper is re-created in our storage by init_and_swap (new wrapper i,
\* the old one is not destroyed), an outline one is taken by pointer;
\* other becomes NullPointer.
MoveFrom(r, o, i) ==
    [ok |-> r.nesting = 0 /\ o.nesting = 0,
     r  |-> [r EXCEPT !.size = o.size,
                      !.kind = IF o.kind = "NullPointer" THEN r.kind ELSE o.kind,
                      !.w = CASE o.kind = "Inline" -> i
                              [] o.kind = "Outline" -> o.w
                              [] OTHER -> r.w],
     o  |-> [o EXCEPT !.kind = "NullPointer", !.w = NoWrapper]]

\* The wrapper table after destroying `kill` and constructing `i` holding c.
Destroyed(w, kill) ==
    IF kill = NoWrapper THEN w ELSE [w EXCEPT ![kill].st = "destroyed"]
Created(w, i, c) == [w EXCEPT ![i] = [st |-> "live", c |-> c]]

NewWrapper ==
    IF FreshWrappers = {} THEN NoWrapper
    ELSE CHOOSE i \in FreshWrappers : \A j \in FreshWrappers : i <= j

DeadFn == [EmptyFn EXCEPT !.alive = FALSE]

-----------------------------------------------------------------------------
Init ==
    /\ fn = [f \in Fns |-> DeadFn]
    /\ wr = [i \in Wrappers |-> [st |-> "unused", c |-> CHOOSE c \in Callables : TRUE]]
    /\ stack = <<>>
    /\ panicked = FALSE

\* Function() and Function(nullptr).
Construct(f) ==
    /\ ~panicked /\ ~fn[f].alive
    /\ fn' = [fn EXCEPT ![f] = EmptyFn]
    /\ UNCHANGED <<wr, stack, panicked>>

\* Function(CallableType&&) and Function(FunctionType).
ConstructWith(f, c) ==
    /\ ~panicked /\ ~fn[f].alive
    /\ NewWrapper # NoWrapper
    /\ fn' = [fn EXCEPT ![f] = InitWithCallable(EmptyFn, c, NewWrapper).r]
    /\ wr' = Created(wr, NewWrapper, c)
    /\ UNCHANGED <<stack, panicked>>

\* Function(Function&& other).
MoveConstruct(f, g) ==
    /\ ~panicked /\ f # g /\ ~fn[f].alive /\ fn[g].alive
    /\ fn[g].kind = "Inline" => NewWrapper # NoWrapper
    /\ LET mv == MoveFrom(EmptyFn, fn[g], NewWrapper) IN
       IF ~mv.ok THEN Halt
       ELSE /\ fn' = [fn EXCEPT ![f] = mv.r, ![g] = mv.o]
            /\ wr' = IF fn[g].kind = "Inline"
                     THEN Created(wr, NewWrapper, wr[fn[g].w].c) ELSE wr
            /\ UNCHANGED <<stack, panicked>>

\* ~Function(): clear(false).
Destroy(f) ==
    /\ ~panicked /\ fn[f].alive
    /\ LET cl == Clear(fn[f], FALSE) IN
       IF ~cl.ok THEN Halt
       ELSE /\ fn' = [fn EXCEPT ![f] = DeadFn]
            /\ wr' = Destroyed(wr, cl.kill)
            /\ UNCHANGED <<stack, panicked>>

\* Variant: operator() not incrementing m_call_nesting_level.
CallNotCounting(f) ==
    /\ ~panicked /\ fn[f].alive
    /\ Len(stack) < MaxDepth
    /\ IF CallableWrapper(fn[f]) = NoWrapper THEN Halt
       ELSE /\ stack' = Append(stack, <<f, fn[f].w>>)
            /\ UNCHANGED <<fn, wr, panicked>>

\* operator(): VERIFY(wrapper); ++m_call_nesting_level; wrapper->call(...).
Call(f) ==
    /\ ~panicked /\ fn[f].alive
    /\ Len(stack) < MaxDepth
    /\ IF CallableWrapper(fn[f]) = NoWrapper THEN Halt
       ELSE /\ fn' = [fn EXCEPT ![f].nesting = @ + 1]
            /\ stack' = Append(stack, <<f, fn[f].w>>)
            /\ UNCHANGED <<wr, panicked>>

\* Variant: the ScopeGuard only decrementing the nesting level.
ReturnIgnoringDeferred ==
    /\ ~panicked /\ stack # <<>>
    /\ LET f == stack[Len(stack)][1] IN
       fn' = [fn EXCEPT ![f].nesting = @ - 1]
    /\ stack' = SubSeq(stack, 1, Len(stack) - 1)
    /\ UNCHANGED <<wr, panicked>>

\* The ScopeGuard of operator() as the innermost call returns: if
\* --m_call_nesting_level == 0 and m_deferred_clear, clear(false).
Return ==
    /\ ~panicked /\ stack # <<>>
    /\ LET f == stack[Len(stack)][1]
           r == [fn[f] EXCEPT !.nesting = @ - 1]
           cl == Clear(r, FALSE)
       IN  IF r.nesting = 0 /\ r.deferred
           THEN /\ fn' = [fn EXCEPT ![f] = cl.r]
                /\ wr' = Destroyed(wr, cl.kill)
           ELSE /\ fn' = [fn EXCEPT ![f] = r]
                /\ UNCHANGED wr
    /\ stack' = SubSeq(stack, 1, Len(stack) - 1)
    /\ UNCHANGED panicked

\* operator=(CallableType&&) and operator=(FunctionType) with a non-null
\* pointer: clear(), then init_with_callable.
AssignCallable(f, c) ==
    /\ ~panicked /\ fn[f].alive
    /\ NewWrapper # NoWrapper
    /\ LET cl == Clear(fn[f], TRUE)
           in == InitWithCallable(cl.r, c, NewWrapper)
       IN  IF ~in.ok THEN Halt
           ELSE /\ fn' = [fn EXCEPT ![f] = in.r]
                /\ wr' = Created(Destroyed(wr, cl.kill), NewWrapper, c)
                /\ UNCHANGED <<stack, panicked>>

\* operator=(nullptr), and operator=(FunctionType) with a null pointer.
AssignNull(f) ==
    /\ ~panicked /\ fn[f].alive
    /\ LET cl == Clear(fn[f], TRUE) IN
       /\ fn' = [fn EXCEPT ![f] = cl.r]
       /\ wr' = Destroyed(wr, cl.kill)
    /\ UNCHANGED <<stack, panicked>>

\* operator=(Function&& other) with this != &other: clear(), move_from.
MoveAssign(f, g) ==
    /\ ~panicked /\ f # g /\ fn[f].alive /\ fn[g].alive
    /\ fn[g].kind = "Inline" => NewWrapper # NoWrapper
    /\ LET cl == Clear(fn[f], TRUE)
           mv == MoveFrom(cl.r, fn[g], NewWrapper)
       IN  IF ~mv.ok THEN Halt
           ELSE /\ fn' = [fn EXCEPT ![f] = mv.r, ![g] = mv.o]
                /\ wr' = LET w1 == Destroyed(wr, cl.kill) IN
                         IF fn[g].kind = "Inline"
                         THEN Created(w1, NewWrapper, wr[fn[g].w].c) ELSE w1
                /\ UNCHANGED <<stack, panicked>>

Next ==
    \/ \E f \in Fns : Construct(f) \/ Destroy(f) \/ Call(f) \/ AssignNull(f)
    \/ \E f \in Fns, c \in Callables : ConstructWith(f, c) \/ AssignCallable(f, c)
    \/ \E f, g \in Fns : MoveConstruct(f, g) \/ MoveAssign(f, g)
    \/ Return

Spec == Init /\ [][Next]_vars

-----------------------------------------------------------------------------
TypeOK ==
    /\ \A f \in Fns : /\ fn[f].kind \in Kinds
                      /\ fn[f].w \in Wrappers \cup {NoWrapper}
                      /\ fn[f].nesting \in 0 .. MaxDepth
                      /\ fn[f].deferred \in BOOLEAN
    /\ \A i \in Wrappers : wr[i].st \in {"unused", "live", "destroyed"}
    /\ stack \in Seq(Fns \X Wrappers)
    /\ panicked \in BOOLEAN

\* Clearing or reassigning a Function from inside its own call never frees
\* the CallableWrapper whose call() is still running: every call in
\* progress runs a live wrapper (the deferred clear of operator()).
CalledWrappersLive ==
    \A k \in 1 .. Len(stack) : wr[stack[k][2]].st = "live"

\* Moves never leave two Functions owning one wrapper, and no Function
\* keeps a wrapper that was destroyed: each wrapper is destroyed at most
\* once, by the one Function that owns it.
SingleOwner ==
    \A f, g \in Fns :
        /\ CallableWrapper(fn[f]) # NoWrapper => wr[fn[f].w].st = "live"
        /\ (f # g /\ CallableWrapper(fn[f]) # NoWrapper)
               => CallableWrapper(fn[g]) # fn[f].w

\* A clear requested from inside a call is never lost: the flag is pending
\* only while a call of that Function is in progress, so the guard of the
\* outermost return performs it.
DeferredClearPending ==
    \A f \in Fns : fn[f].alive /\ fn[f].deferred => fn[f].nesting > 0

\* raw_capture_range() (what a conservative garbage collector scans) covers
\* exactly the wrapper of a stored function object, and nothing for a
\* function pointer, whatever sequence of assignments and moves led here.
CaptureRangeExact ==
    \A f \in Fns :
        fn[f].alive /\ CallableWrapper(fn[f]) # NoWrapper
            => RawCaptureSize(fn[f]) = CaptureSize(wr[fn[f].w].c)

\* Every CallableWrapper that was constructed is eventually destroyed: a
\* live wrapper is always owned by some Function.
NoOrphanWrapper ==
    \A i \in Wrappers :
        wr[i].st = "live" =>
            \E f \in Fns : fn[f].alive /\ CallableWrapper(fn[f]) = i
=============================================================================
