-------------------------------- MODULE Mock --------------------------------
(***************************************************************************)
(* The list of mock calls (src/code/logic/mock.c): fossil_mock_init,       *)
(* _add_call and _destroy, and the AI contexts of calls and list.  Every   *)
(* allocation may fail, so a step is one allocation; what follows it up to *)
(* the next is part of the step.                                           *)
(*                                                                         *)
(* Memory is a function from the blocks that are allocated to what they    *)
(* hold: a string, or Node for a block of pointers, which the other        *)
(* variables hold.  A pointer is a block or Null.                          *)
(***************************************************************************)
EXTENDS Integers, Sequences, FiniteSets

CONSTANTS
  Function,    \* function names
  Argument,    \* arguments: [isString, data, name, description, id]
  MaxArgs,     \* bound on num_args
  Context,     \* texts of an AI context: [context_info, expected_behavior, ai_notes]
  Copies,      \* bound on the blocks of a role: those of the calls, and contexts
  MaxCalls,    \* bound on the calls of a list
  MaxFailed,   \* bound on the allocations that fail
  AINull, NoNotes, \* "AI_NULL" and "No notes provided"
  Null, Node

VARIABLES
  heap,    \* the blocks allocated
  failed,  \* how many allocations failed
  faulty,  \* whether a block was freed, or read, that is not allocated
  calls,   \* the calls: a function from their blocks
  list,    \* [head, tail, size, global_ai_context]
  mine,    \* an AI context the test holds, or Null
  pc,
  given,   \* what the function was called with
  new,     \* the call being made
  ctx,     \* the context being made
  current, \* the loop variable of destroy
  lost     \* a history: the arguments of the call being made that have data of
           \* which the copy failed

vars == << heap, failed, faulty, calls, list, mine, pc, given, new, ctx, current, lost >>

ArgField == {"data", "name", "description", "id"}
CtxField == {"context_info", "expected_behavior", "ai_notes"}
CallField == {"call", "function_name", "arguments"}

\* A block is named by what it is for: a role, the call (0 outside of calls) and
\* the argument of which it is a part.
Role == {"call", "function_name", "arguments", "context"} \cup ArgField \cup CtxField
Block == Role \X (0 .. Copies) \X (0 .. MaxArgs) \X (1 .. Copies)

ASSUME BoundsAssumption == {Copies, MaxArgs, MaxCalls, MaxFailed} \subseteq Nat

ASSUME ArgumentAssumption == \A a \in Argument : a.isString \in BOOLEAN

Given == [function : Function, args : UNION {[1 .. n -> Argument] : n \in 0 .. MaxArgs}]

\* A null pointer is no context, and no request.
ASSUME NullAssumption ==
  /\ Null \notin [CtxField \cup {"block"} -> Block \cup {Null}]
  /\ Null \notin [call : Given, lost : SUBSET (1 .. MaxArgs)]

NoArg == [f \in ArgField |-> Null]
NoCtx == [f \in CtxField |-> Null]
NoCall == [call |-> Null, function_name |-> Null, arguments |-> Null, args |-> << >>,
           ai_context |-> Null, next |-> Null]
Nothing == [function |-> Null, args |-> << >>, for |-> Null, texts |-> NoCtx, call |-> Null]

-----------------------------------------------------------------------------
(* Memory                                                                  *)

\* What malloc may return: nothing, or a block that is not allocated; which one
\* does not matter.
Malloc(role, call, arg) ==
  LET free == {n \in 1 .. Copies : << role, call, arg, n >> \notin DOMAIN heap}
  IN  {Null} \cup {<< role, call, arg, n >> : n \in {n \in free : \A m \in free : n <= m}}

Fail == failed < MaxFailed /\ failed' = failed + 1

\* b is what malloc returned.
Alloc(b, content) ==
  \/ b = Null /\ Fail /\ UNCHANGED heap
  \/ b # Null
     /\ heap' = [a \in DOMAIN heap \cup {b} |-> IF a = b THEN content ELSE heap[a]]
     /\ UNCHANGED failed

\* text ? maip_io_cstr_dup(text) : NULL
Dup(b, text) == IF text = Null THEN b = Null /\ UNCHANGED << heap, failed >> ELSE Alloc(b, text)

\* Pointers are a function from where they stand, a field and the argument it
\* is of, or 0.

\* The blocks among those that pointers name.
Named(pointers) == {pointers[n] : n \in DOMAIN pointers} \ {Null}

\* Pointers that stand in different places, together.
Both(p, q) == [x \in DOMAIN p \cup DOMAIN q |-> IF x \in DOMAIN p THEN p[x] ELSE q[x]]

\* No two of them name one block.
Separate(pointers) ==
  \A m, n \in DOMAIN pointers : m = n \/ pointers[m] # pointers[n] \/ pointers[m] = Null

\* Calls of maip_sys_memory_free, one for each of the pointers; null pointers
\* are skipped.  In which order does not matter.
Free(pointers) ==
  /\ heap' = [b \in DOMAIN heap \ Named(pointers) |-> heap[b]]
  /\ faulty' = (faulty \/ ~ Named(pointers) \subseteq DOMAIN heap \/ ~ Separate(pointers))

ContextPointers(c) ==
  IF c = Null THEN << >> ELSE [p \in (CtxField \cup {"block"}) \X {0} |-> c[p[1]]]

\* Mutant of ArgsPointers: the loop stops before the argument that failed.
ArgsPointersButLast(args) == [p \in ArgField \X (1 .. Len(args) - 1) |-> args[p[2]][p[1]]]

ArgsPointers(args) == [p \in ArgField \X DOMAIN args |-> args[p[2]][p[1]]]

\* The named fields of the call itself.
OwnPointers(c, fields) == [p \in fields \X {0} |-> c[p[1]]]

\* The pointers of a call without those of its context.
BarePointers(c) == Both(OwnPointers(c, CallField), ArgsPointers(c.args))

CallPointers(c) == Both(BarePointers(c), ContextPointers(c.ai_context))

-----------------------------------------------------------------------------
Init ==
  /\ heap = << >>
  /\ failed = 0
  /\ faulty = FALSE
  /\ calls = << >>
  /\ list = [head |-> Null, tail |-> Null, size |-> 0, global_ai_context |-> Null]
  /\ mine = Null
  /\ pc = "idle"
  /\ given = Nothing
  /\ new = NoCall
  /\ ctx = Null
  /\ current = Null
  /\ lost = {}

Idle == pc = "idle"

Return ==
  /\ pc' = "idle"
  /\ given' = Nothing
  /\ new' = NoCall
  /\ ctx' = Null
  /\ lost' = {}

\* The number of the call of which a part is allocated.
k == LET c == IF new.call # Null THEN new.call ELSE given.call IN IF c = Null THEN 0 ELSE c[4]

-----------------------------------------------------------------------------
(* fossil_mock_add_call                                                    *)

AddCall ==
  /\ Idle
  /\ list.size < MaxCalls
  /\ \E fn \in Function, n \in 0 .. MaxArgs : \E args \in [1 .. n -> Argument] :
       \E b \in Malloc("call", 0, 0) :
         /\ Alloc(b, Node)
         /\ IF b = Null THEN Return
            ELSE /\ pc' = "function_name"
                 /\ given' = [Nothing EXCEPT !.function = fn, !.args = args, !.for = "attach"]
                 /\ new' = [NoCall EXCEPT !.call = b]
                 /\ UNCHANGED << ctx, lost >>
  /\ UNCHANGED << faulty, calls, list, mine, current >>

\* Where the function goes when all arguments are copied.
Attach == IF list.global_ai_context = Null THEN "append" ELSE "context"

Name ==
  /\ pc = "function_name"
  /\ \E b \in Malloc("function_name", k, 0) :
       \/ /\ b = Null
          /\ Fail
          /\ Free(OwnPointers(new, {"call"}))
          /\ Return
       \/ /\ b # Null
          /\ Alloc(b, given.function)
          /\ new' = [new EXCEPT !.function_name = b]
          /\ pc' = IF given.args = << >> THEN Attach ELSE "arguments"
          /\ UNCHANGED << faulty, given, ctx, lost >>
  /\ UNCHANGED << calls, list, mine, current >>

Arguments ==
  /\ pc = "arguments"
  /\ \E b \in Malloc("arguments", k, 0) :
       \/ /\ b = Null
          /\ Fail
          /\ Free(OwnPointers(new, {"function_name", "call"}))
          /\ Return
       \/ /\ b # Null
          /\ Alloc(b, Node)
          /\ new' = [new EXCEPT !.arguments = b, !.args = << NoArg >>]
          /\ pc' = "data"
          /\ UNCHANGED << faulty, given, ctx, lost >>
  /\ UNCHANGED << calls, list, mine, current >>

\* The argument being copied, and the one it is copied from.
i == Len(new.args)
from == given.args[i]

NextField == [data |-> "name", name |-> "description", description |-> "id", id |-> "fill"]

CopyField ==
  /\ pc \in ArgField
  /\ \E b \in Malloc(pc, k, i) :
       /\ Dup(b, from[pc])
       /\ new' = [new EXCEPT !.args[i][pc] = b]
       /\ lost' = IF pc = "data" /\ from.data # Null /\ b = Null THEN lost \cup {i} ELSE lost
  /\ pc' = NextField[pc]
  /\ UNCHANGED << faulty, calls, list, mine, given, ctx, current >>

\* "AI trick": a string without data gets some, and so does one of which the
\* copy failed.
Fill ==
  /\ pc = "fill"
  /\ \E b \in Malloc("data", k, i) :
       IF from.isString /\ new.args[i].data = Null
       THEN Alloc(b, AINull) /\ new' = [new EXCEPT !.args[i].data = b]
       ELSE b = Null /\ UNCHANGED << heap, failed, new >>
  /\ pc' = "check"
  /\ UNCHANGED << faulty, calls, list, mine, given, ctx, current, lost >>

\* Mutant of Missing: only the data of the argument is checked.
MissingData == from.data # Null /\ new.args[i].data = Null

Missing == \E f \in ArgField : from[f] # Null /\ new.args[i][f] = Null

Undo ==
  /\ pc = "check"
  /\ Missing
  /\ Free(BarePointers(new))
  /\ Return
  /\ UNCHANGED << failed, calls, list, mine, current >>

Keep ==
  /\ pc = "check"
  /\ ~ Missing
  /\ IF i < Len(given.args)
     THEN pc' = "data" /\ new' = [new EXCEPT !.args = Append(@, NoArg)]
     ELSE pc' = Attach /\ UNCHANGED new
  /\ UNCHANGED << heap, failed, faulty, calls, list, mine, given, ctx, current, lost >>

\* The calls with c behind the tail.
With(c) ==
  [b \in DOMAIN calls \cup {c.call} |->
     IF b = c.call THEN c
     ELSE IF b = list.tail THEN [calls[b] EXCEPT !.next = c.call] ELSE calls[b]]

\* Mutant of AppendTo: the tail is left where it was.
AppendToHeadOnly(c) ==
  /\ calls' = With(c)
  /\ list' = [list EXCEPT !.head = IF list.tail = Null THEN c.call ELSE @,
                          !.tail = IF list.tail = Null THEN c.call ELSE @, !.size = @ + 1]

AppendTo(c) ==
  /\ calls' = With(c)
  /\ list' = [list EXCEPT !.head = IF list.tail = Null THEN c.call ELSE @,
                          !.tail = c.call, !.size = @ + 1]

AppendCall ==
  /\ pc = "append"
  /\ AppendTo(new)
  /\ Return
  /\ UNCHANGED << heap, failed, faulty, mine, current >>

-----------------------------------------------------------------------------
(* AI contexts: made for a call that is added (attach), for one in the     *)
(* list (set), or for the test (create).  An allocation that fails leaves  *)
(* the field null, or the whole context if it is the first.                *)

\* What a context that exists says.
Texts(c) == [f \in CtxField |-> IF c[f] = Null THEN Null ELSE heap[c[f]]]

WithNotes(t) == [t EXCEPT !.ai_notes = IF @ = Null THEN NoNotes ELSE @]

CreateContext ==
  /\ Idle
  /\ mine = Null
  /\ \E t \in Context :
       given' = [Nothing EXCEPT !.for = "create", !.texts = WithNotes(t)]
  /\ pc' = "context"
  /\ UNCHANGED << heap, failed, faulty, calls, list, mine, new, ctx, current, lost >>

\* The context that a call has is destroyed before the other is copied.
SetContext ==
  /\ Idle
  /\ \E c \in DOMAIN calls, t \in {mine, list.global_ai_context} :
       /\ Free(ContextPointers(calls[c].ai_context))
       /\ calls' = [calls EXCEPT ![c].ai_context = Null]
       /\ IF t = Null THEN Return
          ELSE /\ pc' = "context"
               /\ given' = [Nothing EXCEPT !.for = "set", !.call = c, !.texts = WithNotes(Texts(t))]
               /\ UNCHANGED << new, ctx, lost >>
  /\ UNCHANGED << failed, list, mine, current >>

\* The context is handed to whom it was made for.
Deliver(c) ==
  CASE given.for = "attach" ->
         pc' = "append" /\ new' = [new EXCEPT !.ai_context = c] /\ ctx' = Null
         /\ UNCHANGED << given, calls, mine, lost >>
    [] given.for = "set" ->
         Return /\ calls' = [calls EXCEPT ![given.call].ai_context = c] /\ UNCHANGED mine
    [] given.for = "create" ->
         Return /\ mine' = c /\ UNCHANGED calls

ContextBlock ==
  /\ pc = "context"
  /\ \E b \in Malloc("context", k, 0) :
       /\ Alloc(b, Node)
       /\ IF b = Null THEN Deliver(Null)
          ELSE /\ ctx' = [x \in CtxField \cup {"block"} |-> IF x = "block" THEN b ELSE Null]
               /\ pc' = "context_info"
               /\ given' = IF given.for = "attach"
                           THEN [given EXCEPT !.texts = Texts(list.global_ai_context)]
                           ELSE given
               /\ UNCHANGED << calls, mine, new, lost >>
  /\ UNCHANGED << faulty, list, current >>

ContextField ==
  /\ pc \in CtxField
  /\ \E b \in Malloc(pc, k, 0) :
       /\ Dup(b, given.texts[pc])
       /\ LET c == [ctx EXCEPT ![pc] = b]
          IN  IF pc = "ai_notes" THEN Deliver(c)
              ELSE /\ ctx' = c
                   /\ pc' = IF pc = "context_info" THEN "expected_behavior" ELSE "ai_notes"
                   /\ UNCHANGED << given, calls, mine, new, lost >>
  /\ UNCHANGED << faulty, list, current >>

DestroyContext ==
  /\ Idle
  /\ mine # Null
  /\ Free(ContextPointers(mine))
  /\ mine' = Null
  /\ UNCHANGED << failed, calls, list, pc, given, new, ctx, current, lost >>

\* The field of the list is the test's to set; the list owns what is in it.
GiveToList ==
  /\ Idle
  /\ mine # Null
  /\ list.global_ai_context = Null
  /\ list' = [list EXCEPT !.global_ai_context = mine]
  /\ mine' = Null
  /\ UNCHANGED << heap, failed, faulty, calls, pc, given, new, ctx, current, lost >>

-----------------------------------------------------------------------------
(* fossil_mock_destroy                                                     *)

Destroy ==
  /\ Idle
  /\ list.size > 0 \/ list.global_ai_context # Null
  /\ pc' = "destroy"
  /\ current' = list.head
  /\ UNCHANGED << heap, failed, faulty, calls, list, mine, given, new, ctx, lost >>

\* next is read before the call is freed.
DestroyCall ==
  /\ pc = "destroy"
  /\ current # Null
  /\ Free(CallPointers(calls[current]))
  /\ current' = calls[current].next
  /\ UNCHANGED << failed, calls, list, mine, pc, given, new, ctx, lost >>

DestroyList ==
  /\ pc = "destroy"
  /\ current = Null
  /\ Free(ContextPointers(list.global_ai_context))
  /\ calls' = << >>
  /\ list' = [head |-> Null, tail |-> Null, size |-> 0, global_ai_context |-> Null]
  /\ pc' = "idle"
  /\ UNCHANGED << failed, mine, given, new, ctx, current, lost >>

Next ==
  \/ AddCall \/ Name \/ Arguments \/ CopyField \/ Fill \/ Undo \/ Keep \/ AppendCall
  \/ CreateContext \/ SetContext \/ ContextBlock \/ ContextField
  \/ DestroyContext \/ GiveToList
  \/ Destroy \/ DestroyCall \/ DestroyList

Spec == Init /\ [][Next]_vars

-----------------------------------------------------------------------------
(* Properties                                                              *)

\* The calls of the list from its head, by their blocks.
Chain[n \in 1 .. list.size] == IF n = 1 THEN list.head ELSE calls[Chain[n - 1]].next

\* The pointers an idle program still holds.
Held ==
  (UNION {Named(CallPointers(calls[b])) : b \in DOMAIN calls})
    \cup Named(ContextPointers(list.global_ai_context)) \cup Named(ContextPointers(mine))

\* Whatever allocations failed on the way, what stays allocated after a call
\* of a function of the mock is what the list, its calls and the test's own
\* context still point to: the partial copies that add_call gives up
\* (mock.c:93-135) are freed to the last field.  And no sequence of additions,
\* contexts set and replaced, and destructions, of a list that is used again
\* afterwards, frees a block twice or one that was never allocated.
MemoryIsAccountedFor ==
  /\ Idle => DOMAIN heap = Held
  /\ ~ faulty

\* An idle list is one chain: from head, next leads through each of its calls
\* once, to tail, after which there is nothing, and size is its length.
ListIsAChain ==
  Idle =>
    /\ Cardinality({Chain[n] : n \in DOMAIN Chain}) = list.size
    /\ {Chain[n] : n \in DOMAIN Chain} = DOMAIN calls
    /\ (list.size = 0) = (list.head = Null)
    /\ IF list.size = 0 THEN list.tail = Null
       ELSE list.tail = Chain[list.size] /\ calls[list.tail].next = Null

\* What memory holds of an argument, and of a call.
Content(p) == IF p = Null THEN Null ELSE heap[p]

Recorded(c) ==
  [function |-> Content(c.function_name),
   args |-> [n \in DOMAIN c.args |-> [f \in ArgField |-> Content(c.args[n][f])]]]

\* What the comment says of the filling (mock.c:114, "If argument type is string
\* and value is NULL, auto-fill"): a string that came with data is recorded with
\* its data, or is left without any.  The code looks at the copy and not at the
\* value, and fills where the copy failed (mock.c:115-119).
OnlyNullIsFilled ==
  pc = "check" /\ from.isString /\ from.data # Null
    => Content(new.args[i].data) \in {from.data, Null}

\* What add_call may record of an argument: what it was given, or "AI_NULL" for
\* a string that has no data, or of which the copy of the data got lost.
RecordedArg(a, isLost) ==
  LET filled == IF a.isString /\ (a.data = Null \/ isLost) THEN {AINull} ELSE {}
  IN  {[f \in ArgField |-> IF f = "data" THEN d ELSE a[f]] : d \in {a.data} \cup filled}

PartsOf(c) == DOMAIN c.args

MayRecord(c, gone) ==
  {r \in [function : {c.function},
          args : [DOMAIN c.args ->
                    UNION {RecordedArg(a, b) : a \in Argument, b \in BOOLEAN}]] :
     \A n \in DOMAIN c.args : r.args[n] \in RecordedArg(c.args[n], n \in gone)}

\* The program is in add_call.
Asked == pc \notin {"idle", "destroy"} /\ given.for = "attach"

\* What add_call was asked, until it returns.
Request ==
  IF Asked
  THEN [call |-> [function |-> given.function, args |-> given.args], lost |-> lost]
  ELSE Null

Log == INSTANCE CallLog
         WITH Calls <- Given, Parts <- PartsOf, Recordings <- MayRecord, None <- Null,
              request <- Request,
              log <- IF pc = "destroy" THEN << >>
                     ELSE [n \in DOMAIN Chain |-> Recorded(calls[Chain[n]])]

\* The list implements the log of the calls: what add_call adds is the call it
\* was asked to record, whole and last, with "AI_NULL" for no data but of a
\* string that had none or of which the copy failed; a call it gives up leaves
\* no trace, a context that is set changes no call, and destroy empties the log
\* at once.
ImplementsCallLog == Log!Spec

=============================================================================
