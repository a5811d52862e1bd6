----------------------------- MODULE MockProofs -----------------------------
(***************************************************************************)
(* Proofs about Mock for any functions, arguments and contexts, any bounds *)
(* and any number of failing allocations.  The parts:                      *)
(*   - what the variables hold (TypeInv), and in which order the functions *)
(*     take their steps (PcInv);                                           *)
(*   - the list: Chain leads from head through all calls to tail, even     *)
(*     while destroy follows it (ListInv);                                 *)
(*   - memory: every block has one owner (the call or the context being    *)
(*     made, a call, a call's context, the test, the list), whose pointers *)
(*     name allocated blocks, each once (MemoryInv);                       *)
(*   - the record: what was copied is what was given (RecordInv).          *)
(* MemoryInv needs the order of the steps, since a failed allocation frees *)
(* what was copied so far; ListInv needs that calls are not freed before   *)
(* destroy reaches them.  Each is kept by a step from those before it; the *)
(* theorems on memory, on the chain and on CallLog follow.                 *)
(***************************************************************************)
EXTENDS Mock, FiniteSetTheorems, SequenceTheorems, WellFoundedInduction, TLAPS

Pointer == Block \cup {Null}

\* The blocks of calls.
CallBlock == {"call"} \X {0} \X {0} \X (1 .. Copies)

ContextType == [CtxField \cup {"block"} -> Pointer]

Args == UNION {[1 .. n -> [ArgField -> Pointer]] : n \in 0 .. MaxArgs}

CallType ==
  [call : CallBlock \cup {Null}, function_name : Pointer, arguments : Pointer, args : Args,
   ai_context : ContextType \cup {Null}, next : CallBlock \cup {Null}]

ListType ==
  [head : CallBlock \cup {Null}, tail : CallBlock \cup {Null}, size : Nat,
   global_ai_context : ContextType \cup {Null}]

TypeInv ==
  /\ DOMAIN calls \subseteq CallBlock
  /\ calls \in [DOMAIN calls -> CallType]
  /\ \A b \in DOMAIN calls : calls[b].call = b
  /\ list \in ListType
  /\ mine \in ContextType \cup {Null}
  /\ ctx \in ContextType \cup {Null}
  /\ new \in CallType
  /\ given = [function |-> given.function, args |-> given.args, for |-> given.for,
              texts |-> given.texts, call |-> given.call]
  /\ given.args \in UNION {[1 .. n -> Argument] : n \in 0 .. MaxArgs}
  /\ given.call \in CallBlock \cup {Null}

-----------------------------------------------------------------------------
(* Where the functions are                                                 *)

\* The fields that are still to be copied.
Later ==
  [data |-> ArgField, name |-> ArgField \ {"data"}, description |-> {"description", "id"},
   id |-> {"id"}, context_info |-> CtxField, expected_behavior |-> CtxField \ {"context_info"},
   ai_notes |-> {"ai_notes"}]

Adding == {"function_name", "arguments", "fill", "check", "append"} \cup ArgField
Making == {"context"} \cup CtxField

PcInv ==
  /\ pc \in {"idle", "destroy"} \cup Adding \cup Making
  /\ pc \in {"idle", "destroy"} => given = Nothing /\ new = NoCall /\ ctx = Null
  /\ pc \in Adding => given.for = "attach" /\ ctx = Null
  /\ pc \in Adding \ {"append"} => new.ai_context = Null
  /\ pc = "function_name" => new.function_name = Null
  /\ pc \in {"function_name", "arguments"} => new.arguments = Null /\ new.args = << >>
  /\ pc = "arguments" => given.args # << >>
  /\ pc \in ArgField \cup {"fill", "check"} => new.args # << >>
  /\ pc \in ArgField => \A f \in Later[pc] : new.args[Len(new.args)][f] = Null
  /\ pc \in Making => given.for \in {"attach", "set", "create"}
  /\ pc \in Making /\ given.for = "attach" => new.ai_context = Null
  /\ pc \in Making /\ given.for # "attach" => new = NoCall
  /\ pc \in Making /\ given.for = "set" =>
       given.call \in DOMAIN calls /\ calls[given.call].ai_context = Null
  /\ pc \in Making /\ given.for = "create" => mine = Null
  /\ pc \in CtxField => ctx # Null /\ \A f \in Later[pc] : ctx[f] = Null
  /\ pc = "context" => ctx = Null
  /\ pc \notin {"idle", "destroy"} /\ given.for = "attach" =>
       /\ new.call # Null /\ new.next = Null
       /\ Len(new.args) <= Len(given.args)

-----------------------------------------------------------------------------
(* Who holds which memory                                                  *)

Owner ==
  {<< r, Null >> : r \in {"new", "new context", "context", "mine", "list"}}
    \cup {<< "call", b >> : b \in CallBlock} \cup {<< "call context", b >> : b \in CallBlock}

\* A call in the list is alive until destroy has freed it.
Alive == DOMAIN calls \cap DOMAIN heap

\* The pointers that each owner holds.
Owned ==
  [o \in Owner |->
     CASE o[1] = "new" -> BarePointers(new)
       [] o[1] = "new context" -> ContextPointers(new.ai_context)
       [] o[1] = "context" -> ContextPointers(ctx)
       [] o[1] = "mine" -> ContextPointers(mine)
       [] o[1] = "list" -> ContextPointers(list.global_ai_context)
       [] o[1] = "call" -> IF o[2] \in Alive THEN BarePointers(calls[o[2]]) ELSE << >>
       [] o[1] = "call context" ->
            IF o[2] \in Alive THEN ContextPointers(calls[o[2]].ai_context) ELSE << >>]

\* Each block is held by one pointer of one owner.
Accounted(owned, blocks) ==
  /\ \A o \in Owner : Separate(owned[o])
  /\ \A o1, o2 \in Owner : o1 # o2 => Named(owned[o1]) \cap Named(owned[o2]) = {}
  /\ blocks = UNION {Named(owned[o]) : o \in Owner}

-----------------------------------------------------------------------------
(* The list                                                                *)

\* The calls cs in an order that follows their pointers next, from the head of l.
Linked(l, cs, order) ==
  /\ order \in [1 .. l.size -> DOMAIN cs]
  /\ \A n, m \in 1 .. l.size : order[n] = order[m] => n = m
  /\ \A b \in DOMAIN cs : \E n \in 1 .. l.size : order[n] = b
  /\ l.size = 0 => l.head = Null /\ l.tail = Null
  /\ l.size > 0 => l.head = order[1] /\ l.tail = order[l.size]
                   /\ cs[order[l.size]].next = Null
  /\ \A n \in 1 .. l.size - 1 : cs[order[n]].next = order[n + 1]

\* destroy is before the n-th call: those from there on are alive.
DestroyingAt(n) ==
  /\ current = IF n <= list.size THEN Chain[n] ELSE Null
  /\ \A m \in 1 .. list.size : Chain[m] \in DOMAIN heap <=> n <= m

ListInv ==
  /\ Linked(list, calls, Chain)
  /\ Null \notin DOMAIN calls
  /\ IF pc = "destroy" THEN \E n \in 1 .. list.size + 1 : DestroyingAt(n)
     ELSE DOMAIN calls \subseteq DOMAIN heap

MemoryInv == Accounted(Owned, DOMAIN heap) /\ ~ faulty

-----------------------------------------------------------------------------
(* What is recorded                                                        *)

\* What memory h holds for the copy of a field of an argument, once it is made.
Copied(h, copy, a, f, isLost) ==
  \/ copy[f] = Null
  \/ a[f] # Null /\ h[copy[f]] = a[f]
  \/ f = "data" /\ a.isString /\ (a.data = Null \/ isLost) /\ h[copy[f]] = AINull

\* A copy that add_call keeps.
Complete(h, copy, a, isLost) ==
  \A f \in ArgField : Copied(h, copy, a, f, isLost) /\ (a[f] # Null => copy[f] # Null)

\* The data of the last argument is behind.
DataIsDone == {"name", "description", "id", "fill"}

RecordInv ==
  pc \notin {"idle", "destroy"} /\ given.for = "attach" =>
    /\ given.function \in Function
    /\ pc # "function_name" => new.function_name # Null /\ heap[new.function_name] = given.function
    /\ \A n \in 1 .. Len(new.args) : \A f \in ArgField :
         Copied(heap, new.args[n], given.args[n], f, n \in lost)
    /\ \A n \in 1 .. Len(new.args) - 1 : Complete(heap, new.args[n], given.args[n], n \in lost)
    /\ pc \in DataIsDone /\ from.data # Null /\ new.args[i].data = Null => i \in lost
    /\ pc \in Making \cup {"append"} =>
         /\ Len(new.args) = Len(given.args)
         /\ \A n \in 1 .. Len(new.args) : Complete(heap, new.args[n], given.args[n], n \in lost)

MockInv == TypeInv /\ PcInv /\ MemoryInv /\ ListInv /\ RecordInv

-----------------------------------------------------------------------------
(* Pointers                                                                *)

\* What the pointers of a call are.
LEMMA BareAt ==
  ASSUME NEW c
  PROVE  /\ DOMAIN BarePointers(c) = (CallField \X {0}) \cup (ArgField \X DOMAIN c.args)
         /\ \A f \in CallField : BarePointers(c)[<< f, 0 >>] = c[f]
         /\ \A f \in ArgField, n \in DOMAIN c.args : BarePointers(c)[<< f, n >>] = c.args[n][f]
<1> DEFINE own == OwnPointers(c, CallField)
           arg == ArgsPointers(c.args)
<1>1. DOMAIN own = CallField \X {0} /\ DOMAIN arg = ArgField \X DOMAIN c.args
  BY DEF OwnPointers, ArgsPointers
<1>2. BarePointers(c) = [x \in DOMAIN own \cup DOMAIN arg |-> IF x \in DOMAIN own THEN own[x] ELSE arg[x]]
  BY DEF BarePointers, Both
<1>3. \A f \in CallField : own[<< f, 0 >>] = c[f] BY DEF OwnPointers
<1>4. \A f \in ArgField, n \in DOMAIN c.args : arg[<< f, n >>] = c.args[n][f] BY DEF ArgsPointers
<1>5. \A f \in ArgField : f \notin CallField BY DEF ArgField, CallField
<1> HIDE DEF own, arg
<1> QED BY <1>1, <1>2, <1>3, <1>4, <1>5

\* A pointer is set where there was none.
LEMMA PutPointer ==
  ASSUME NEW p, NEW q, NEW t \in DOMAIN q, NEW b,
         DOMAIN p \subseteq DOMAIN q, t \in DOMAIN p => p[t] = Null,
         \A s \in DOMAIN q \ {t} : q[s] = IF s \in DOMAIN p THEN p[s] ELSE Null,
         q[t] = b
  PROVE  /\ Named(q) = Named(p) \cup ({b} \ {Null})
         /\ Separate(p) /\ b \notin Named(p) => Separate(q)
<1>1. Named(q) \subseteq Named(p) \cup ({b} \ {Null}) BY DEF Named
<1>2. Named(p) \subseteq Named(q)
  <2> SUFFICES ASSUME NEW s \in DOMAIN p, p[s] # Null PROVE p[s] \in Named(q) BY DEF Named
  <2>1. s # t /\ q[s] = p[s] OBVIOUS
  <2> QED BY <2>1 DEF Named
<1>3. {b} \ {Null} \subseteq Named(q) BY DEF Named
<1>4. ASSUME Separate(p), b \notin Named(p) PROVE Separate(q)
  <2> SUFFICES ASSUME NEW m \in DOMAIN q, NEW n \in DOMAIN q, m # n, q[m] = q[n], q[m] # Null
               PROVE  FALSE
    BY DEF Separate
  <2>1. CASE m = t \/ n = t BY <1>4, <2>1 DEF Named
  <2>2. CASE m # t /\ n # t BY <1>4, <2>2 DEF Separate
  <2> QED BY <2>1, <2>2
<1> QED BY <1>1, <1>2, <1>3, <1>4

\* The pointers of two parts together.
LEMMA JoinPointers ==
  ASSUME NEW p, NEW q, DOMAIN p \cap DOMAIN q = {}
  PROVE  /\ Named(Both(p, q)) = Named(p) \cup Named(q)
         /\ Separate(p) /\ Separate(q) /\ Named(p) \cap Named(q) = {} => Separate(Both(p, q))
<1> DEFINE r == Both(p, q)
<1>1. DOMAIN r = DOMAIN p \cup DOMAIN q BY DEF Both
<1>2. \A s \in DOMAIN p : r[s] = p[s] BY DEF Both
<1>3. \A s \in DOMAIN q : r[s] = q[s] BY DEF Both
<1> HIDE DEF r
<1>4. Named(r) = Named(p) \cup Named(q) BY <1>1, <1>2, <1>3 DEF Named
<1>5. ASSUME Separate(p), Separate(q), Named(p) \cap Named(q) = {} PROVE Separate(r)
  <2> SUFFICES ASSUME NEW m \in DOMAIN r, NEW n \in DOMAIN r, m # n, r[m] = r[n], r[m] # Null
               PROVE  FALSE
    BY DEF Separate
  <2>1. CASE m \in DOMAIN p /\ n \in DOMAIN p BY <1>2, <1>5, <2>1 DEF Separate
  <2>2. CASE m \in DOMAIN q /\ n \in DOMAIN q BY <1>3, <1>5, <2>2 DEF Separate
  <2>3. CASE m \in DOMAIN p /\ n \in DOMAIN q BY <1>2, <1>3, <1>5, <2>3 DEF Named
  <2>4. CASE m \in DOMAIN q /\ n \in DOMAIN p BY <1>2, <1>3, <1>5, <2>4 DEF Named
  <2> QED BY <1>1, <2>1, <2>2, <2>3, <2>4
<1> QED BY <1>4, <1>5 DEF r

-----------------------------------------------------------------------------
(* Accounts                                                                *)

\* Only the names matter.
LEMMA SameAccounts ==
  ASSUME NEW f, NEW g, NEW H, Accounted(f, H),
         \A o \in Owner : Named(g[o]) = Named(f[o]) /\ Separate(g[o])
  PROVE  Accounted(g, H)
<1>1. UNION {Named(g[o]) : o \in Owner} = UNION {Named(f[o]) : o \in Owner} OBVIOUS
<1> QED BY <1>1 DEF Accounted

\* An owner gets a block that nobody had.
LEMMA AccountsGrow ==
  ASSUME NEW f, NEW g, NEW H, NEW t \in Owner, NEW b, Accounted(f, H), b \notin H,
         \A o \in Owner \ {t} : g[o] = f[o],
         Named(g[t]) = Named(f[t]) \cup {b}, Separate(g[t])
  PROVE  Accounted(g, H \cup {b})
<1>1. \A o \in Owner : Separate(g[o]) BY DEF Accounted
<1>2. \A o \in Owner : Named(f[o]) \subseteq H BY DEF Accounted
<1>3. ASSUME NEW o1 \in Owner, NEW o2 \in Owner, o1 # o2
      PROVE  Named(g[o1]) \cap Named(g[o2]) = {}
  <2>1. Named(f[o1]) \cap Named(f[o2]) = {} BY <1>3 DEF Accounted
  <2> QED BY <1>2, <1>3, <2>1
<1>4. H \cup {b} = UNION {Named(g[o]) : o \in Owner}
  <2>1. \A o \in Owner : Named(f[o]) \subseteq Named(g[o]) OBVIOUS
  <2>2. \A o \in Owner : Named(g[o]) \subseteq Named(f[o]) \cup {b} OBVIOUS
  <2>3. H = UNION {Named(f[o]) : o \in Owner} BY DEF Accounted
  <2> QED BY <2>1, <2>2, <2>3
<1> QED BY <1>1, <1>3, <1>4 DEF Accounted

\* What some owners have is freed.
LEMMA AccountsDrop ==
  ASSUME NEW f, NEW g, NEW H, NEW T \in SUBSET Owner, Accounted(f, H),
         \A o \in Owner \ T : g[o] = f[o],
         \A o \in T : Named(g[o]) = {} /\ Separate(g[o])
  PROVE  Accounted(g, H \ UNION {Named(f[o]) : o \in T})
<1>1. \A o \in Owner : Separate(g[o]) BY DEF Accounted
<1>2. \A o \in Owner : Named(g[o]) \subseteq Named(f[o]) OBVIOUS
<1>3. ASSUME NEW o1 \in Owner, NEW o2 \in Owner, o1 # o2
      PROVE  Named(g[o1]) \cap Named(g[o2]) = {}
  BY <1>2, <1>3 DEF Accounted
<1>4. H \ UNION {Named(f[o]) : o \in T} = UNION {Named(g[o]) : o \in Owner}
  <2>1. H = UNION {Named(f[o]) : o \in Owner} BY DEF Accounted
  <2>2. ASSUME NEW x \in H, x \notin UNION {Named(f[o]) : o \in T}
        PROVE  x \in UNION {Named(g[o]) : o \in Owner}
    BY <2>1, <2>2
  <2>3. ASSUME NEW o \in Owner, NEW x \in Named(g[o])
        PROVE  x \in H /\ x \notin UNION {Named(f[u]) : u \in T}
    <3>1. o \notin T /\ x \in Named(f[o]) BY <2>3
    <3>2. ASSUME NEW u \in T PROVE x \notin Named(f[u]) BY <3>1 DEF Accounted
    <3> QED BY <2>1, <3>1, <3>2
  <2> QED BY <2>2, <2>3
<1> QED BY <1>1, <1>3, <1>4 DEF Accounted

\* What one owner has is freed.
LEMMA AccountsDropOne ==
  ASSUME NEW f, NEW g, NEW H, NEW t \in Owner, Accounted(f, H),
         \A o \in Owner \ {t} : g[o] = f[o], Named(g[t]) = {}, Separate(g[t])
  PROVE  Accounted(g, H \ UNION {Named(f[o]) : o \in {t}})
<1>1. {t} \in SUBSET Owner OBVIOUS
<1>2. \A o \in {t} : Named(g[o]) = {} /\ Separate(g[o]) OBVIOUS
<1> QED BY <1>1, <1>2, AccountsDrop

\* What one owner has goes to another, who had nothing.
LEMMA AccountsMove ==
  ASSUME NEW f, NEW g, NEW H, NEW s \in Owner, NEW t \in Owner, s # t, Accounted(f, H),
         \A o \in Owner \ {s, t} : g[o] = f[o],
         Named(f[t]) = {}, Named(g[s]) = {}, Separate(g[s]), g[t] = f[s]
  PROVE  Accounted(g, H)
<1>1. \A o \in Owner : Separate(g[o]) BY DEF Accounted
<1>2. ASSUME NEW o1 \in Owner, NEW o2 \in Owner, o1 # o2
      PROVE  Named(g[o1]) \cap Named(g[o2]) = {}
  <2>1. CASE o1 = s \/ o2 = s BY <2>1
  <2>2. CASE o1 = t /\ o2 # s BY <1>2, <2>2 DEF Accounted
  <2>3. CASE o2 = t /\ o1 # s BY <1>2, <2>3 DEF Accounted
  <2>4. CASE {o1, o2} \cap {s, t} = {} BY <1>2, <2>4 DEF Accounted
  <2> QED BY <2>1, <2>2, <2>3, <2>4
<1>3. H = UNION {Named(g[o]) : o \in Owner}
  <2>1. H = UNION {Named(f[o]) : o \in Owner} BY DEF Accounted
  <2>2. ASSUME NEW o \in Owner, NEW x \in Named(f[o]) PROVE \E u \in Owner : x \in Named(g[u])
    <3>1. CASE o = s BY <2>2, <3>1
    <3>2. CASE o # s BY <2>2, <3>2
    <3> QED BY <3>1, <3>2
  <2>3. ASSUME NEW o \in Owner, NEW x \in Named(g[o]) PROVE \E u \in Owner : x \in Named(f[u])
    <3>1. CASE o = t BY <2>3, <3>1
    <3>2. CASE o # t BY <2>3, <3>2
    <3> QED BY <3>1, <3>2
  <2> QED BY <2>1, <2>2, <2>3
<1> QED BY <1>1, <1>2, <1>3 DEF Accounted

-----------------------------------------------------------------------------
(* Types                                                                   *)

\* A tuple of n things has length n.
LEMMA TupleLength ==
  ASSUME NEW S, NEW n \in Nat, NEW s \in [1 .. n -> S]
  PROVE  s \in Seq(S) /\ Len(s) = n /\ DOMAIN s = 1 .. n
<1>1. s \in Seq(S) BY SeqDef
<1> QED BY <1>1, LenProperties

\* Arguments behind one another.
LEMMA ArgsAre ==
  ASSUME NEW args \in Args
  PROVE  /\ Len(args) \in 0 .. MaxArgs
         /\ DOMAIN args = 1 .. Len(args)
         /\ args \in [1 .. Len(args) -> [ArgField -> Pointer]]
         /\ args \in Seq([ArgField -> Pointer])
<1>1. PICK n \in 0 .. MaxArgs : args \in [1 .. n -> [ArgField -> Pointer]] BY DEF Args
<1>2. n \in Nat OBVIOUS
<1> QED BY <1>1, <1>2, TupleLength

\* Those that add_call was given.
LEMMA GivenAre ==
  ASSUME TypeInv
  PROVE  /\ Len(given.args) \in 0 .. MaxArgs
         /\ DOMAIN given.args = 1 .. Len(given.args)
         /\ given.args \in [1 .. Len(given.args) -> Argument]
         /\ given.args \in Seq(Argument)
<1>1. PICK n \in 0 .. MaxArgs : given.args \in [1 .. n -> Argument] BY DEF TypeInv
<1>2. n \in Nat OBVIOUS
<1> QED BY <1>1, <1>2, TupleLength

\* malloc returns a null pointer or a new block of the role.
LEMMA MallocGives ==
  ASSUME NEW role \in Role, NEW c \in 0 .. Copies, NEW a \in 0 .. MaxArgs,
         NEW b \in Malloc(role, c, a)
  PROVE  /\ b \in Pointer
         /\ b = Null \/ b \notin DOMAIN heap
         /\ role = "call" /\ c = 0 /\ a = 0 => b \in CallBlock \cup {Null}
<1>1. CASE b = Null BY <1>1 DEF Pointer
<1>2. CASE b # Null
  <2>1. PICK n \in 1 .. Copies : b = << role, c, a, n >> /\ b \notin DOMAIN heap
    BY <1>2 DEF Malloc
  <2>2. b \in Block BY <2>1 DEF Block
  <2>3. role = "call" /\ c = 0 /\ a = 0 => b \in CallBlock BY <2>1 DEF CallBlock
  <2> QED BY <2>1, <2>2, <2>3 DEF Pointer
<1> QED BY <1>1, <1>2

\* The number in a call's block names no more than Copies calls.
LEMMA CallNumber ==
  ASSUME TypeInv
  PROVE  k \in 0 .. Copies
<1>1. \A b \in CallBlock : b[4] \in 0 .. Copies BY BoundsAssumption DEF CallBlock
<1>2. new.call \in CallBlock \cup {Null} /\ given.call \in CallBlock \cup {Null}
  BY DEF TypeInv, CallType
<1> QED BY <1>1, <1>2, BoundsAssumption DEF k

\* What stands for no call and for no arguments is typed.
LEMMA NothingIsTyped ==
  /\ NoCall \in CallType
  /\ Nothing.args \in UNION {[1 .. n -> Argument] : n \in 0 .. MaxArgs}
  /\ Nothing.call \in CallBlock \cup {Null}
<1>1. 0 \in 0 .. MaxArgs BY BoundsAssumption
<1>2. << >> \in [1 .. 0 -> [ArgField -> Pointer]] /\ << >> \in [1 .. 0 -> Argument] OBVIOUS
<1>3. << >> \in Args BY <1>1, <1>2 DEF Args
<1> QED BY <1>1, <1>2, <1>3 DEF NoCall, Nothing, CallType, Pointer

\* A pointer is put into the call being made.
LEMMA ArgIsTyped ==
  ASSUME TypeInv, PcInv, NEW f \in ArgField, NEW b \in Pointer, new.args # << >>
  PROVE  /\ [new EXCEPT !.args[i][f] = b] \in CallType
         /\ i \in 1 .. MaxArgs
         /\ [new EXCEPT !.args[i][f] = b].args = [new.args EXCEPT ![i][f] = b]
<1>1. new.args \in Args BY DEF TypeInv, CallType
<1>2. i \in 1 .. MaxArgs /\ new.args \in [1 .. i -> [ArgField -> Pointer]]
  BY <1>1, ArgsAre DEF i
<1> DEFINE e == [new.args EXCEPT ![i][f] = b]
<1>3. e \in [1 .. i -> [ArgField -> Pointer]] BY <1>2
<1>4. e \in Args BY <1>2, <1>3 DEF Args
<1> QED BY <1>2, <1>4 DEF TypeInv, CallType

\* Returning leaves the variables of a function typed.
LEMMA ReturnIsTyped ==
  ASSUME Return
  PROVE  /\ ctx' \in ContextType \cup {Null} /\ new' \in CallType
         /\ given' = [function |-> given'.function, args |-> given'.args, for |-> given'.for,
                      texts |-> given'.texts, call |-> given'.call]
         /\ given'.args \in UNION {[1 .. n -> Argument] : n \in 0 .. MaxArgs}
         /\ given'.call \in CallBlock \cup {Null}
BY NothingIsTyped DEF Return, Nothing

\* A context is handed over, whole or missing, to whom it is for.
LEMMA DeliverIsTyped ==
  ASSUME TypeInv, PcInv, pc \in Making, NEW c \in ContextType \cup {Null}, Deliver(c),
         list' = list
  PROVE  TypeInv'
<1>1. CASE given.for = "attach"
  BY <1>1 DEF Deliver, TypeInv, CallType
<1>2. CASE given.for = "set"
  <2>1. Return /\ calls' = [calls EXCEPT ![given.call].ai_context = c] /\ mine' = mine
    BY <1>2 DEF Deliver
  <2>2. given.call \in DOMAIN calls BY <1>2 DEF PcInv
  <2>3. calls' \in [DOMAIN calls -> CallType] /\ \A b \in DOMAIN calls : calls'[b].call = b
    BY <2>1, <2>2 DEF TypeInv, CallType
  <2> QED BY <2>1, <2>3, ReturnIsTyped DEF TypeInv
<1>3. CASE given.for = "create"
  <2>1. Return /\ calls' = calls /\ mine' = c BY <1>3 DEF Deliver
  <2> QED BY <2>1, ReturnIsTyped DEF TypeInv
<1> QED BY <1>1, <1>2, <1>3 DEF PcInv

\* Every step keeps the types.
LEMMA TypeStep ==
  ASSUME TypeInv, PcInv, [Next]_vars
  PROVE  TypeInv'
<1> USE DEF Role
<1>1. CASE AddCall
  <2>1. PICK fn \in Function, n \in 0 .. MaxArgs : \E args \in [1 .. n -> Argument] :
          \E b \in Malloc("call", 0, 0) :
            IF b = Null THEN Return
            ELSE /\ given' = [Nothing EXCEPT !.function = fn, !.args = args, !.for = "attach"]
                 /\ new' = [NoCall EXCEPT !.call = b]
                 /\ UNCHANGED ctx
    BY <1>1 DEF AddCall
  <2>2. PICK args \in [1 .. n -> Argument], b \in Malloc("call", 0, 0) :
          IF b = Null THEN Return
          ELSE /\ given' = [Nothing EXCEPT !.function = fn, !.args = args, !.for = "attach"]
               /\ new' = [NoCall EXCEPT !.call = b]
               /\ UNCHANGED ctx
    BY <2>1
  <2>3. calls' = calls /\ list' = list /\ mine' = mine BY <1>1 DEF AddCall
  <2>4. CASE b = Null BY <2>2, <2>3, <2>4, ReturnIsTyped DEF TypeInv
  <2>5. CASE b # Null
    <3>1. b \in CallBlock \cup {Null} BY MallocGives, BoundsAssumption
    <3>2. new' \in CallType BY <2>2, <2>5, <3>1, NothingIsTyped DEF CallType
    <3> QED BY <2>2, <2>3, <2>5, <3>2, NothingIsTyped DEF TypeInv, Nothing
  <2> QED BY <2>4, <2>5
<1>2. CASE Name
  <2>1. calls' = calls /\ list' = list /\ mine' = mine BY <1>2 DEF Name
  <2>2. CASE Return BY <2>1, <2>2, ReturnIsTyped DEF TypeInv
  <2>3. CASE ~ Return
    <3>1. PICK b \in Malloc("function_name", k, 0) : new' = [new EXCEPT !.function_name = b]
      BY <1>2, <2>3 DEF Name
    <3>2. b \in Pointer BY MallocGives, CallNumber, BoundsAssumption
    <3>3. given' = given /\ ctx' = ctx BY <1>2, <2>3 DEF Name
    <3> QED BY <2>1, <3>1, <3>2, <3>3 DEF TypeInv, CallType
  <2> QED BY <2>2, <2>3
<1>3. CASE Arguments
  <2>1. calls' = calls /\ list' = list /\ mine' = mine BY <1>3 DEF Arguments
  <2>2. CASE Return BY <2>1, <2>2, ReturnIsTyped DEF TypeInv
  <2>3. CASE ~ Return
    <3>1. PICK b \in Malloc("arguments", k, 0) :
            new' = [new EXCEPT !.arguments = b, !.args = << NoArg >>]
      BY <1>3, <2>3 DEF Arguments
    <3>2. b \in Pointer BY MallocGives, CallNumber, BoundsAssumption
    <3>3. given' = given /\ ctx' = ctx BY <1>3, <2>3 DEF Arguments
    <3>4. 1 \in 0 .. MaxArgs
      <4>1. given.args # << >> BY <1>3 DEF Arguments, PcInv
      <4>2. Len(given.args) # 0 BY <4>1, GivenAre, EmptySeq
      <4> QED BY <4>2, GivenAre, BoundsAssumption
    <3>5. << NoArg >> \in [1 .. 1 -> [ArgField -> Pointer]] BY DEF NoArg, Pointer
    <3>6. << NoArg >> \in Args BY <3>4, <3>5 DEF Args
    <3> QED BY <2>1, <3>1, <3>2, <3>3, <3>6 DEF TypeInv, CallType
  <2> QED BY <2>2, <2>3
<1>4. CASE CopyField
  <2>1. pc \in ArgField /\ new.args # << >> BY <1>4 DEF CopyField, PcInv
  <2>2. PICK b \in Malloc(pc, k, i) : new' = [new EXCEPT !.args[i][pc] = b] BY <1>4 DEF CopyField
  <2>3. i \in 1 .. MaxArgs BY <2>1, ArgIsTyped, Null \in Pointer DEF Pointer
  <2>6. pc \in Role /\ i \in 0 .. MaxArgs BY <2>1, <2>3
  <2>4. b \in Pointer BY <2>6, MallocGives, CallNumber
  <2>5. new' \in CallType BY <2>1, <2>2, <2>4, ArgIsTyped
  <2> QED BY <1>4, <2>5 DEF CopyField, TypeInv
<1>5. CASE Fill
  <2>1. new.args # << >> /\ "data" \in ArgField BY <1>5 DEF Fill, PcInv, ArgField
  <2>2. CASE new' = new BY <1>5, <2>2 DEF Fill, TypeInv
  <2>3. CASE new' # new
    <3>1. PICK b \in Malloc("data", k, i) : new' = [new EXCEPT !.args[i]["data"] = b]
      BY <1>5, <2>3 DEF Fill
    <3>2. i \in 1 .. MaxArgs BY <2>1, ArgIsTyped, Null \in Pointer DEF Pointer
    <3>3. b \in Pointer BY <2>1, <3>2, MallocGives, CallNumber
    <3>4. new' \in CallType BY <2>1, <3>1, <3>3, ArgIsTyped
    <3> QED BY <1>5, <3>4 DEF Fill, TypeInv
  <2> QED BY <2>2, <2>3
<1>6. CASE Undo BY <1>6, ReturnIsTyped DEF Undo, TypeInv
<1>7. CASE Keep
  <2>1. CASE new' = new BY <1>7, <2>1 DEF Keep, TypeInv
  <2>2. CASE new' # new
    <3>1. i < Len(given.args) /\ new' = [new EXCEPT !.args = Append(@, NoArg)]
      BY <1>7, <2>2 DEF Keep
    <3>2. new.args \in Args BY DEF TypeInv, CallType
    <3>3. i + 1 \in 0 .. MaxArgs BY <3>1, <3>2, ArgsAre, GivenAre, BoundsAssumption DEF i
    <3>4. NoArg \in [ArgField -> Pointer] BY DEF NoArg, Pointer
    <3>5. Append(new.args, NoArg) \in [1 .. i + 1 -> [ArgField -> Pointer]]
      <4> DEFINE S == [ArgField -> Pointer]
                 s == new.args
      <4>1. s \in Seq(S) /\ Len(s) = i BY <3>2, ArgsAre DEF i
      <4> HIDE DEF S, s
      <4>2. Append(s, NoArg) \in Seq(S) /\ Len(Append(s, NoArg)) = i + 1
        BY <3>4, <4>1, AppendProperties DEF S
      <4> QED BY <4>2, LenProperties DEF S, s
    <3>6. Append(new.args, NoArg) \in Args BY <3>3, <3>5 DEF Args
    <3>7. new' \in CallType BY <3>1, <3>6 DEF TypeInv, CallType
    <3> QED BY <1>7, <3>7 DEF Keep, TypeInv
  <2> QED BY <2>1, <2>2
<1>8. CASE AppendCall
  <2>1. new.call \in CallBlock BY <1>8 DEF AppendCall, PcInv, Adding, TypeInv, CallType
  <2>2. calls' = With(new) /\ Return /\ mine' = mine BY <1>8 DEF AppendCall, AppendTo
  <2>3. /\ DOMAIN calls' = DOMAIN calls \cup {new.call}
        /\ \A b \in DOMAIN calls' : calls'[b] \in CallType /\ calls'[b].call = b
        /\ calls' \in [DOMAIN calls' -> CallType]
    BY <2>1, <2>2 DEF With, TypeInv, CallType
  <2>4. list' \in ListType
    <3>1. list' = [list EXCEPT !.head = IF list.tail = Null THEN new.call ELSE @,
                               !.tail = new.call, !.size = @ + 1]
      BY <1>8 DEF AppendCall, AppendTo
    <3>2. list \in ListType BY DEF TypeInv
    <3>3. /\ list.head \in CallBlock \cup {Null} /\ list.size + 1 \in Nat
          /\ list.global_ai_context \in ContextType \cup {Null}
      BY <3>2 DEF ListType
    <3>4. list' = [head |-> IF list.tail = Null THEN new.call ELSE list.head, tail |-> new.call,
                   size |-> list.size + 1, global_ai_context |-> list.global_ai_context]
      BY <3>1, <3>2 DEF ListType
    <3> QED BY <2>1, <3>3, <3>4 DEF ListType
  <2> QED BY <2>1, <2>2, <2>3, <2>4, ReturnIsTyped DEF TypeInv
<1>9. CASE CreateContext
  <2>1. PICK t : given' = [Nothing EXCEPT !.for = "create", !.texts = t] BY <1>9 DEF CreateContext
  <2> QED BY <1>9, <2>1, NothingIsTyped DEF CreateContext, TypeInv, Nothing
<1>10. CASE SetContext
  <2>1. PICK c \in DOMAIN calls, t \in {mine, list.global_ai_context} :
          /\ calls' = [calls EXCEPT ![c].ai_context = Null]
          /\ IF t = Null THEN Return
             ELSE /\ given' = [Nothing EXCEPT !.for = "set", !.call = c, !.texts = WithNotes(Texts(t))]
                  /\ UNCHANGED << new, ctx >>
    BY <1>10 DEF SetContext
  <2>2. calls' \in [DOMAIN calls -> CallType] /\ \A b \in DOMAIN calls : calls'[b].call = b
    BY <2>1 DEF TypeInv, CallType
  <2>3. list' = list /\ mine' = mine BY <1>10 DEF SetContext
  <2>4. CASE t = Null BY <2>1, <2>2, <2>3, <2>4, ReturnIsTyped DEF TypeInv
  <2>5. CASE t # Null
    <3>1. c \in CallBlock BY DEF TypeInv
    <3> QED BY <2>1, <2>2, <2>3, <2>5, <3>1, NothingIsTyped DEF TypeInv, Nothing
  <2> QED BY <2>4, <2>5
<1>11. CASE ContextBlock
  <2>1. PICK b \in Malloc("context", k, 0) :
          IF b = Null THEN Deliver(Null)
          ELSE /\ ctx' = [x \in CtxField \cup {"block"} |-> IF x = "block" THEN b ELSE Null]
               /\ given' = IF given.for = "attach"
                           THEN [given EXCEPT !.texts = Texts(list.global_ai_context)]
                           ELSE given
               /\ UNCHANGED << calls, mine, new >>
    BY <1>11 DEF ContextBlock
  <2>2. list' = list /\ pc \in Making BY <1>11 DEF ContextBlock, Making
  <2>3. CASE b = Null BY <2>1, <2>2, <2>3, DeliverIsTyped
  <2>4. CASE b # Null
    <3>1. b \in Pointer BY MallocGives, CallNumber, BoundsAssumption
    <3>2. ctx' \in ContextType BY <2>1, <2>4, <3>1 DEF ContextType, Pointer
    <3> QED BY <2>1, <2>2, <2>4, <3>2 DEF TypeInv
  <2> QED BY <2>3, <2>4
<1>12. CASE ContextField
  <2>1. PICK b \in Malloc(pc, k, 0) :
          IF pc = "ai_notes" THEN Deliver([ctx EXCEPT ![pc] = b])
          ELSE ctx' = [ctx EXCEPT ![pc] = b] /\ UNCHANGED << given, calls, mine, new >>
    BY <1>12 DEF ContextField
  <2>2. list' = list /\ pc \in CtxField /\ pc \in Making BY <1>12 DEF ContextField, Making
  <2>7. pc \in Role /\ 0 \in 0 .. MaxArgs BY <2>2, BoundsAssumption
  <2>3. b \in Pointer BY <2>7, MallocGives, CallNumber
  <2>4. [ctx EXCEPT ![pc] = b] \in ContextType BY <2>2, <2>3 DEF PcInv, TypeInv, ContextType
  <2>5. CASE pc = "ai_notes" BY <2>1, <2>2, <2>4, <2>5, DeliverIsTyped
  <2>6. CASE pc # "ai_notes" BY <2>1, <2>2, <2>4, <2>6 DEF TypeInv
  <2> QED BY <2>5, <2>6
<1>13. CASE DestroyContext BY <1>13 DEF DestroyContext, TypeInv
<1>14. CASE GiveToList BY <1>14 DEF GiveToList, TypeInv, ListType
<1>15. CASE Destroy \/ DestroyCall \/ UNCHANGED vars
  BY <1>15 DEF Destroy, DestroyCall, vars, TypeInv
<1>16. CASE DestroyList BY <1>16 DEF DestroyList, TypeInv, ListType
<1> QED
  BY <1>1, <1>2, <1>3, <1>4, <1>5, <1>6, <1>7, <1>8, <1>9, <1>10, <1>11, <1>12, <1>13,
     <1>14, <1>15, <1>16 DEF Next

-----------------------------------------------------------------------------
(* The order of the steps                                                  *)

\* A function that returned has nothing under way.
LEMMA ReturnIsIdle ==
  ASSUME Return
  PROVE  PcInv'
BY DEF Return, PcInv, Adding, Making, ArgField, CtxField

\* After a context comes the append, or the return.
LEMMA DeliverKeepsOrder ==
  ASSUME TypeInv, PcInv, pc \in Making, NEW c, Deliver(c)
  PROVE  PcInv'
<1>1. CASE given.for = "attach"
  <2>1. pc' = "append" /\ new' = [new EXCEPT !.ai_context = c] /\ ctx' = Null /\ given' = given
    BY <1>1 DEF Deliver
  <2>2. new'.call = new.call /\ new'.next = new.next /\ new'.args = new.args
    BY <2>1 DEF TypeInv, CallType
  <2> QED BY <1>1, <2>1, <2>2 DEF PcInv, Adding, Making, ArgField, CtxField
<1>2. CASE given.for = "set" \/ given.for = "create"
  BY <1>2, ReturnIsIdle DEF Deliver
<1> QED BY <1>1, <1>2 DEF PcInv

\* Fields are copied in the order data, name, description, id: those that are
\* to follow are null.
LEMMA CopyKeepsOrder ==
  ASSUME TypeInv, PcInv, CopyField
  PROVE  PcInv'
<1> DEFINE args == new.args
           n == Len(args)
<1>1. pc \in ArgField /\ new.args # << >> /\ new.args \in Args
  BY DEF CopyField, PcInv, TypeInv, CallType
<1>2. n \in 1 .. MaxArgs /\ args \in [1 .. n -> [ArgField -> Pointer]]
  BY <1>1, ArgIsTyped, ArgsAre, Null \in Pointer DEF Pointer, i
<1>3. PICK b : new' = [new EXCEPT !.args[i][pc] = b] BY DEF CopyField
<1>4. /\ new'.args = [args EXCEPT ![n][pc] = b]
      /\ new'.ai_context = new.ai_context /\ new'.call = new.call /\ new'.next = new.next
  BY <1>3 DEF TypeInv, CallType, i
<1>5. /\ Len(new'.args) = n /\ new'.args # << >>
      /\ \A f \in ArgField \ {pc} : new'.args[n][f] = args[n][f]
  <2>1. new'.args[n] = [args[n] EXCEPT ![pc] = b] /\ DOMAIN new'.args = 1 .. n
    BY <1>2, <1>4
  <2>2. new'.args = [m \in 1 .. n |-> new'.args[m]] BY <1>2, <1>4
  <2>3. new'.args \in [1 .. n -> {new'.args[m] : m \in 1 .. n}] BY <2>2
  <2>4. Len(new'.args) = n BY <1>2, <2>3, TupleLength
  <2> QED BY <1>1, <1>2, <2>1, <2>4
<1>6. pc' = NextField[pc] /\ given' = given /\ ctx' = ctx BY DEF CopyField
<1>7. pc \in Adding BY <1>1 DEF Adding
<1>8. /\ pc' \in (ArgField \ {"data"}) \cup {"fill"}
      /\ pc' # "fill" => Later[pc'] \subseteq Later[pc] \ {pc} /\ Later[pc] \subseteq ArgField
  BY <1>1, <1>6 DEF NextField, Later, ArgField
<1>9. pc' # "fill" => \A f \in Later[pc'] : new'.args[n][f] = Null
  BY <1>1, <1>5, <1>8 DEF PcInv
<1>10. /\ given.for = "attach" /\ ctx = Null /\ new.ai_context = Null
       /\ new.call # Null /\ new.next = Null /\ n <= Len(given.args)
  BY <1>1, <1>7 DEF PcInv, ArgField
<1> HIDE DEF args, n
<1>11. pc' \in {"name", "description", "id", "fill"} BY <1>8 DEF ArgField
<1>12. pc' \in Adding \ {"append"} /\ pc' \notin Making /\ pc' \notin CtxField
  BY <1>11 DEF Adding, Making, ArgField, CtxField
<1>13. pc' \notin {"idle", "destroy", "function_name", "arguments", "context"} BY <1>11
<1>14. pc' \in ArgField => \A f \in Later[pc'] : new'.args[Len(new'.args)][f] = Null
  BY <1>5, <1>9, <1>13, "fill" \notin ArgField DEF ArgField
<1>15. given'.for = "attach" /\ ctx' = Null /\ new'.ai_context = Null /\ new'.call # Null
       /\ new'.next = Null /\ Len(new'.args) <= Len(given'.args) /\ new'.args # << >>
  BY <1>4, <1>5, <1>6, <1>10
<1> QED BY <1>12, <1>13, <1>14, <1>15, pc' \in Adding DEF PcInv

\* Every step keeps to the order of the code.
LEMMA PcStep ==
  ASSUME TypeInv, PcInv, [Next]_vars
  PROVE  PcInv'
<1> USE DEF Adding, Making, ArgField, CtxField
<1>1. CASE AddCall
  <2>1. PICK fn \in Function, n \in 0 .. MaxArgs : \E args \in [1 .. n -> Argument] :
          \E b \in Malloc("call", 0, 0) :
            IF b = Null THEN Return
            ELSE /\ pc' = "function_name"
                 /\ given' = [Nothing EXCEPT !.function = fn, !.args = args, !.for = "attach"]
                 /\ new' = [NoCall EXCEPT !.call = b]
                 /\ UNCHANGED ctx
    BY <1>1 DEF AddCall
  <2>2. PICK args \in [1 .. n -> Argument], b \in Malloc("call", 0, 0) :
          IF b = Null THEN Return
          ELSE /\ pc' = "function_name"
               /\ given' = [Nothing EXCEPT !.function = fn, !.args = args, !.for = "attach"]
               /\ new' = [NoCall EXCEPT !.call = b]
               /\ UNCHANGED ctx
    BY <2>1
  <2>3. CASE b = Null BY <2>2, <2>3, ReturnIsIdle
  <2>4. CASE b # Null
    <3>1. /\ new'.call = b /\ new'.function_name = Null /\ new'.arguments = Null
          /\ new'.args = << >> /\ new'.ai_context = Null /\ new'.next = Null
      BY <2>2, <2>4 DEF NoCall
    <3>2. given'.for = "attach" /\ given'.args = args BY <2>2, <2>4 DEF Nothing
    <3>3. ctx' = Null BY <1>1, <2>2, <2>4 DEF AddCall, Idle, PcInv
    <3>4. Len(new'.args) <= Len(given'.args)
      <4>1. n \in Nat BY BoundsAssumption
      <4>2. Len(args) = n BY <4>1, TupleLength
      <4> QED BY <3>1, <3>2, <4>1, <4>2
    <3> QED BY <2>2, <2>4, <3>1, <3>2, <3>3, <3>4 DEF PcInv
  <2> QED BY <2>3, <2>4
<1>2. CASE Name
  <2>1. CASE Return BY <2>1, ReturnIsIdle
  <2>2. CASE ~ Return
    <3>1. PICK b :
            /\ b # Null
            /\ new' = [new EXCEPT !.function_name = b]
            /\ pc' = IF given.args = << >> THEN Attach ELSE "arguments"
            /\ given' = given /\ ctx' = ctx
      BY <1>2, <2>2 DEF Name
    <3>2. /\ new'.call = new.call /\ new'.arguments = new.arguments /\ new'.args = new.args
          /\ new'.ai_context = new.ai_context /\ new'.next = new.next
      BY <3>1 DEF TypeInv, CallType
    <3>3. pc = "function_name" BY <1>2 DEF Name
    <3>4. pc' \in {"append", "context", "arguments"} /\ (pc' = "arguments" => given.args # << >>)
      BY <3>1 DEF Attach
    <3> QED BY <3>1, <3>2, <3>3, <3>4 DEF PcInv
  <2> QED BY <2>1, <2>2
<1>3. CASE Arguments
  <2>1. CASE Return BY <2>1, ReturnIsIdle
  <2>2. CASE ~ Return
    <3>1. PICK b : b # Null /\ new' = [new EXCEPT !.arguments = b, !.args = << NoArg >>]
                   /\ pc' = "data" /\ given' = given /\ ctx' = ctx
      BY <1>3, <2>2 DEF Arguments
    <3>2. /\ new'.call = new.call /\ new'.args = << NoArg >>
          /\ new'.ai_context = new.ai_context /\ new'.next = new.next
      BY <3>1 DEF TypeInv, CallType
    <3>3. pc = "arguments" BY <1>3 DEF Arguments
    <3>4. Len(given.args) >= 1
      <4>1. given.args # << >> BY <3>3 DEF PcInv
      <4>2. Len(given.args) # 0 BY <4>1, GivenAre, EmptySeq
      <4> QED BY <4>2, GivenAre, BoundsAssumption
    <3>5. Len(<< NoArg >>) = 1 /\ << NoArg >> # << >> /\ << NoArg >>[1] = NoArg OBVIOUS
    <3>6. \A f \in Later["data"] : NoArg[f] = Null BY DEF Later, NoArg
    <3> QED BY <3>1, <3>2, <3>3, <3>4, <3>5, <3>6 DEF PcInv
  <2> QED BY <2>1, <2>2
<1>4. CASE CopyField BY <1>4, CopyKeepsOrder
<1>5. CASE Fill
  <2>1. new.args # << >> /\ new.args \in Args BY <1>5 DEF Fill, PcInv, TypeInv, CallType
  <2>2. /\ new'.args # << >> /\ Len(new'.args) = Len(new.args)
        /\ new'.ai_context = new.ai_context /\ new'.call = new.call /\ new'.next = new.next
    <3>1. CASE new' = new BY <2>1, <3>1
    <3>2. CASE new' # new
      <4>1. PICK b : new' = [new EXCEPT !.args[i]["data"] = b] BY <1>5, <3>2 DEF Fill
      <4>2. /\ new'.args = [new.args EXCEPT ![i]["data"] = b]
            /\ new'.ai_context = new.ai_context /\ new'.call = new.call /\ new'.next = new.next
        BY <4>1 DEF TypeInv, CallType
      <4> DEFINE n == Len(new.args)
      <4>3. DOMAIN new.args = 1 .. n /\ n \in Nat BY <2>1, ArgsAre, BoundsAssumption
      <4>4. new'.args = [m \in 1 .. n |-> new'.args[m]] BY <4>2, <4>3
      <4>5. new'.args \in [1 .. n -> {new'.args[m] : m \in 1 .. n}] BY <4>4
      <4>6. Len(new'.args) = n BY <4>3, <4>5, TupleLength
      <4>7. n # 0 BY <2>1, ArgsAre, EmptySeq
      <4> QED BY <4>2, <4>6, <4>7
    <3> QED BY <3>1, <3>2
  <2> QED BY <1>5, <2>2 DEF Fill, PcInv
<1>6. CASE Undo BY <1>6, ReturnIsIdle DEF Undo
<1>7. CASE Keep
  <2>1. CASE i < Len(given.args)
    <3>1. pc' = "data" /\ new' = [new EXCEPT !.args = Append(@, NoArg)]
      BY <1>7, <2>1 DEF Keep
    <3>2. /\ new'.args = Append(new.args, NoArg)
          /\ new'.ai_context = new.ai_context /\ new'.call = new.call /\ new'.next = new.next
      BY <3>1 DEF TypeInv, CallType
    <3>3. new.args \in Seq([ArgField -> Pointer]) /\ NoArg \in [ArgField -> Pointer]
      <4>1. new.args \in Args BY DEF TypeInv, CallType
      <4> QED BY <4>1, ArgsAre DEF NoArg, Pointer
    <3>4. /\ Len(new'.args) = i + 1 /\ new'.args[i + 1] = NoArg /\ i \in Nat
      BY <3>2, <3>3, AppendProperties, LenProperties DEF i
    <3>5. new'.args # << >> BY <3>4
    <3>6. i + 1 <= Len(given.args) BY <2>1, <3>4, GivenAre, BoundsAssumption
    <3>7. \A f \in Later["data"] : NoArg[f] = Null BY DEF Later, NoArg
    <3> QED BY <1>7, <3>1, <3>2, <3>4, <3>5, <3>6, <3>7 DEF Keep, PcInv
  <2>2. CASE ~ (i < Len(given.args))
    BY <1>7, <2>2 DEF Keep, PcInv, Attach
  <2> QED BY <2>1, <2>2
<1>8. CASE AppendCall BY <1>8, ReturnIsIdle DEF AppendCall
<1>9. CASE CreateContext
  <2>1. PICK t : given' = [Nothing EXCEPT !.for = "create", !.texts = t] BY <1>9 DEF CreateContext
  <2>2. given'.for = "create" BY <2>1 DEF Nothing
  <2> QED BY <1>9, <2>2 DEF CreateContext, Idle, PcInv
<1>10. CASE SetContext
  <2>1. PICK c \in DOMAIN calls, t \in {mine, list.global_ai_context} :
          /\ calls' = [calls EXCEPT ![c].ai_context = Null]
          /\ IF t = Null THEN Return
             ELSE /\ pc' = "context"
                  /\ given' = [Nothing EXCEPT !.for = "set", !.call = c, !.texts = WithNotes(Texts(t))]
                  /\ UNCHANGED << new, ctx >>
    BY <1>10 DEF SetContext
  <2>2. CASE t = Null BY <2>1, <2>2, ReturnIsIdle
  <2>3. CASE t # Null
    <3>1. c \in DOMAIN calls' /\ calls'[c].ai_context = Null BY <2>1 DEF TypeInv, CallType
    <3>2. given'.for = "set" /\ given'.call = c BY <2>1, <2>3 DEF Nothing
    <3> QED BY <1>10, <2>1, <2>3, <3>1, <3>2 DEF SetContext, Idle, PcInv
  <2> QED BY <2>2, <2>3
<1>11. CASE ContextBlock
  <2>1. PICK b \in Malloc("context", k, 0) :
          IF b = Null THEN Deliver(Null)
          ELSE /\ ctx' = [x \in CtxField \cup {"block"} |-> IF x = "block" THEN b ELSE Null]
               /\ pc' = "context_info"
               /\ given' = IF given.for = "attach"
                           THEN [given EXCEPT !.texts = Texts(list.global_ai_context)]
                           ELSE given
               /\ UNCHANGED << calls, mine, new >>
    BY <1>11 DEF ContextBlock
  <2>2. pc = "context" BY <1>11 DEF ContextBlock
  <2>3. CASE b = Null BY <2>1, <2>2, <2>3, DeliverKeepsOrder
  <2>4. CASE b # Null
    <3>1. b \in Pointer BY MallocGives, CallNumber, BoundsAssumption DEF Role
    <3>2. ctx' # Null
      BY <2>1, <2>4, <3>1, NullAssumption, ctx' \in [CtxField \cup {"block"} -> Block \cup {Null}]
      DEF Pointer
    <3>3. given'.for = given.for /\ given'.call = given.call /\ given'.args = given.args
      BY <2>1, <2>4 DEF TypeInv
    <3>4. \A f \in Later["context_info"] : ctx'[f] = Null BY <2>1, <2>4 DEF Later
    <3> QED BY <2>1, <2>2, <2>4, <3>2, <3>3, <3>4 DEF PcInv
  <2> QED BY <2>3, <2>4
<1>12. CASE ContextField
  <2>1. PICK b \in Malloc(pc, k, 0) :
          IF pc = "ai_notes" THEN Deliver([ctx EXCEPT ![pc] = b])
          ELSE /\ ctx' = [ctx EXCEPT ![pc] = b]
               /\ pc' = IF pc = "context_info" THEN "expected_behavior" ELSE "ai_notes"
               /\ UNCHANGED << given, calls, mine, new >>
    BY <1>12 DEF ContextField
  <2>2. pc \in CtxField /\ pc \in Making BY <1>12 DEF ContextField
  <2>3. CASE pc = "ai_notes" BY <2>1, <2>2, <2>3, DeliverKeepsOrder
  <2>4. CASE pc # "ai_notes"
    <3>1. pc \in Role /\ 0 \in 0 .. MaxArgs BY <2>2, BoundsAssumption DEF Role
    <3>2. b \in Pointer BY <3>1, MallocGives, CallNumber
    <3>3. ctx \in ContextType BY <2>2 DEF PcInv, TypeInv
    <3>4. ctx' \in ContextType BY <2>1, <2>2, <2>4, <3>2, <3>3 DEF ContextType
    <3>5. ctx' # Null BY <3>4, NullAssumption DEF ContextType, Pointer
    <3>6. pc' # pc /\ pc' \in {"expected_behavior", "ai_notes"}
          /\ Later[pc'] \subseteq Later[pc] \ {pc} /\ Later[pc] \subseteq CtxField
      BY <2>1, <2>2, <2>4 DEF Later
    <3>7. \A f \in Later[pc'] : ctx'[f] = Null
      <4>1. \A f \in Later[pc] \ {pc} : ctx'[f] = ctx[f]
        BY <2>1, <2>4, <3>3, <3>6 DEF ContextType
      <4> QED BY <2>2, <3>6, <4>1 DEF PcInv
    <3>8. \A b2 \in DOMAIN calls' : calls'[b2] = calls[b2] BY <2>1, <2>4
    <3> QED BY <2>1, <2>2, <2>4, <3>5, <3>6, <3>7 DEF PcInv
  <2> QED BY <2>3, <2>4
<1>13. CASE DestroyContext \/ GiveToList \/ Destroy
  BY <1>13 DEF DestroyContext, GiveToList, Destroy, Idle, PcInv
<1>14. CASE DestroyCall \/ DestroyList BY <1>14 DEF DestroyCall, DestroyList, PcInv
<1>15. CASE UNCHANGED vars BY <1>15 DEF vars, PcInv
<1> QED
  BY <1>1, <1>2, <1>3, <1>4, <1>5, <1>6, <1>7, <1>8, <1>9, <1>10, <1>11, <1>12, <1>13,
     <1>14, <1>15 DEF Next

-----------------------------------------------------------------------------
(* Who holds what                                                          *)

\* No pointers name no blocks.
LEMMA NoPointers ==
  /\ Named(<< >>) = {} /\ Separate(<< >>)
  /\ ContextPointers(Null) = << >>
BY DEF Named, Separate, ContextPointers

\* The call that is not being made has only null pointers.
LEMMA NoCallHasNone ==
  /\ Named(BarePointers(NoCall)) = {} /\ Separate(BarePointers(NoCall))
  /\ NoCall.ai_context = Null
<1>1. /\ NoCall.args = << >> /\ NoCall.ai_context = Null
      /\ \A f \in CallField : NoCall[f] = Null
  BY DEF NoCall, CallField
<1>2. ASSUME NEW x \in DOMAIN BarePointers(NoCall) PROVE BarePointers(NoCall)[x] = Null
  <2>1. DOMAIN BarePointers(NoCall) = (CallField \X {0}) \cup (ArgField \X DOMAIN NoCall.args)
    BY BareAt
  <2>2. PICK f \in CallField : x = << f, 0 >> BY <1>1, <1>2, <2>1
  <2>3. BarePointers(NoCall)[<< f, 0 >>] = NoCall[f] BY BareAt
  <2> QED BY <1>1, <2>2, <2>3
<1> QED BY <1>1, <1>2 DEF Named, Separate

\* A field of the call is filled; its arguments may have come to be.
LEMMA FieldIsFilled ==
  ASSUME NEW c, NEW d, NEW f \in CallField, NEW b, c[f] = Null, d[f] = b,
         \A g \in CallField \ {f} : d[g] = c[g],
         DOMAIN c.args = {} \/ d.args = c.args,
         DOMAIN c.args = {} => \A n \in DOMAIN d.args : d.args[n] = NoArg
  PROVE  /\ Named(BarePointers(d)) = Named(BarePointers(c)) \cup ({b} \ {Null})
         /\ Separate(BarePointers(c)) /\ b \notin Named(BarePointers(c)) => Separate(BarePointers(d))
<1> DEFINE p == BarePointers(c)
           q == BarePointers(d)
           t == << f, 0 >>
<1>1. /\ DOMAIN p = (CallField \X {0}) \cup (ArgField \X DOMAIN c.args)
      /\ DOMAIN q = (CallField \X {0}) \cup (ArgField \X DOMAIN d.args)
  BY BareAt
<1>0. /\ \A g \in CallField : p[<< g, 0 >>] = c[g] /\ q[<< g, 0 >>] = d[g]
      /\ \A g \in ArgField, m \in DOMAIN c.args : p[<< g, m >>] = c.args[m][g]
      /\ \A g \in ArgField, m \in DOMAIN d.args : q[<< g, m >>] = d.args[m][g]
  BY BareAt
<1> HIDE DEF p, q
<1>2. t \in DOMAIN p /\ t \in DOMAIN q /\ p[t] = Null /\ q[t] = b BY <1>1, <1>0
<1>3. DOMAIN p \subseteq DOMAIN q BY <1>1
<1>4. ASSUME NEW s \in DOMAIN q \ {t} PROVE q[s] = IF s \in DOMAIN p THEN p[s] ELSE Null
  <2>1. CASE s \in CallField \X {0}
    <3>1. PICK g \in CallField : s = << g, 0 >> BY <2>1
    <3>2. g # f BY <1>4, <3>1
    <3>3. q[s] = d[g] /\ p[s] = c[g] BY <3>1, <1>0
    <3> QED BY <1>1, <2>1, <3>2, <3>3
  <2>2. CASE s \in ArgField \X DOMAIN d.args /\ s \notin CallField \X {0}
    <3>1. PICK g \in ArgField, n \in DOMAIN d.args : s = << g, n >> BY <2>2
    <3>2. q[s] = d.args[n][g] BY <3>1, <1>0
    <3>3. CASE d.args = c.args
      <4>1. p[s] = c.args[n][g] /\ s \in DOMAIN p BY <1>1, <3>1, <3>3, <1>0
      <4> QED BY <3>2, <3>3, <4>1
    <3>4. CASE DOMAIN c.args = {}
      <4>1. s \notin DOMAIN p BY <1>1, <2>2, <3>4
      <4>2. d.args[n][g] = Null BY <3>1, <3>4 DEF NoArg
      <4> QED BY <3>2, <4>1, <4>2
    <3> QED BY <3>3, <3>4
  <2> QED BY <1>1, <1>4, <2>1, <2>2
<1> HIDE DEF t
<1> QED BY <1>2, <1>3, <1>4, PutPointer DEF p, q

\* A field of an argument of the call being made is filled.
LEMMA ArgIsFilled ==
  ASSUME NEW f \in ArgField, NEW n \in DOMAIN new.args, NEW b,
         \A g \in CallField : new'[g] = new[g], DOMAIN new'.args = DOMAIN new.args,
         new.args[n][f] = Null, new'.args[n][f] = b,
         \A m \in DOMAIN new.args, g \in ArgField :
           m # n \/ g # f => new'.args[m][g] = new.args[m][g]
  PROVE  /\ Named(BarePointers(new')) = Named(BarePointers(new)) \cup ({b} \ {Null})
         /\ Separate(BarePointers(new)) /\ b \notin Named(BarePointers(new)) => Separate(BarePointers(new'))
<1> DEFINE p == BarePointers(new)
           q == BarePointers(new')
           t == << f, n >>
<1>1. /\ DOMAIN p = (CallField \X {0}) \cup (ArgField \X DOMAIN new.args)
      /\ DOMAIN q = DOMAIN p
  BY BareAt
<1>0. /\ \A g \in CallField : p[<< g, 0 >>] = new[g] /\ q[<< g, 0 >>] = new'[g]
      /\ \A g \in ArgField, m \in DOMAIN new.args : p[<< g, m >>] = new.args[m][g]
      /\ \A g \in ArgField, m \in DOMAIN new'.args : q[<< g, m >>] = new'.args[m][g]
  BY BareAt
<1> HIDE DEF p, q
<1>2. t \in DOMAIN p /\ t \in DOMAIN q /\ p[t] = Null /\ q[t] = b BY <1>1, <1>0
<1>3. ASSUME NEW s \in DOMAIN q \ {t} PROVE q[s] = IF s \in DOMAIN p THEN p[s] ELSE Null
  <2>1. CASE s \in CallField \X {0}
    <3>1. PICK g \in CallField : s = << g, 0 >> BY <2>1
    <3>2. q[s] = new'[g] /\ p[s] = new[g] BY <3>1, <1>0
    <3> QED BY <1>1, <2>1, <3>2
  <2>2. CASE s \in ArgField \X DOMAIN new'.args
    <3>1. PICK g \in ArgField, m \in DOMAIN new.args : s = << g, m >> BY <2>2
    <3>2. q[s] = new'.args[m][g] /\ p[s] = new.args[m][g] BY <3>1, <1>0
    <3>3. m # n \/ g # f BY <1>3, <3>1
    <3> QED BY <1>1, <1>3, <3>2, <3>3
  <2> QED BY <1>1, <1>3, <2>1, <2>2
<1> HIDE DEF t
<1> QED BY <1>1, <1>2, <1>3, PutPointer DEF p, q

\* An argument without pointers is added.
LEMMA ArgIsAdded ==
  ASSUME NEW c, NEW d, NEW n, \A g \in CallField : d[g] = c[g],
         n \notin DOMAIN c.args, DOMAIN d.args = DOMAIN c.args \cup {n}, d.args[n] = NoArg,
         \A m \in DOMAIN c.args : d.args[m] = c.args[m]
  PROVE  /\ Named(BarePointers(d)) = Named(BarePointers(c))
         /\ Separate(BarePointers(c)) => Separate(BarePointers(d))
<1> DEFINE p == BarePointers(c)
           q == BarePointers(d)
           t == << "data", n >>
<1>1. /\ DOMAIN p = (CallField \X {0}) \cup (ArgField \X DOMAIN c.args)
      /\ DOMAIN q = (CallField \X {0}) \cup (ArgField \X DOMAIN d.args)
  BY BareAt
<1>0. /\ \A g \in CallField : p[<< g, 0 >>] = c[g] /\ q[<< g, 0 >>] = d[g]
      /\ \A g \in ArgField, m \in DOMAIN c.args : p[<< g, m >>] = c.args[m][g]
      /\ \A g \in ArgField, m \in DOMAIN d.args : q[<< g, m >>] = d.args[m][g]
  BY BareAt
<1> HIDE DEF p, q
<1>2. "data" \in ArgField /\ "data" \notin CallField BY DEF ArgField, CallField
<1>3. t \in DOMAIN q /\ t \notin DOMAIN p /\ q[t] = Null
  <2>1. q[t] = d.args[n]["data"] BY <1>2, <1>0
  <2> QED BY <1>1, <1>2, <2>1 DEF NoArg
<1>4. DOMAIN p \subseteq DOMAIN q BY <1>1
<1>5. ASSUME NEW s \in DOMAIN q \ {t} PROVE q[s] = IF s \in DOMAIN p THEN p[s] ELSE Null
  <2>1. CASE s \in CallField \X {0}
    <3>1. PICK g \in CallField : s = << g, 0 >> BY <2>1
    <3>2. q[s] = d[g] /\ p[s] = c[g] BY <3>1, <1>0
    <3> QED BY <1>1, <2>1, <3>2
  <2>2. CASE s \in ArgField \X DOMAIN c.args
    <3>1. PICK g \in ArgField, m \in DOMAIN c.args : s = << g, m >> BY <2>2
    <3>2. q[s] = d.args[m][g] /\ p[s] = c.args[m][g] BY <3>1, <1>0
    <3> QED BY <1>1, <2>2, <3>1, <3>2
  <2>3. CASE s \in ArgField \X {n} /\ s \notin CallField \X {0}
    <3>1. PICK g \in ArgField : s = << g, n >> BY <2>3
    <3>2. q[s] = d.args[n][g] BY <3>1, <1>0
    <3>3. s \notin DOMAIN p BY <1>1, <2>3, <3>1
    <3> QED BY <3>1, <3>2, <3>3 DEF NoArg
  <2> QED BY <1>1, <1>5, <2>1, <2>2, <2>3
<1>6. Null \notin Named(p) BY DEF Named
<1> HIDE DEF t
<1>7. /\ Named(q) = Named(p) \cup ({Null} \ {Null})
      /\ Separate(p) /\ Null \notin Named(p) => Separate(q)
  BY <1>3, <1>4, <1>5, PutPointer
<1> QED BY <1>6, <1>7 DEF p, q

\* What the pointers of a context are.
LEMMA ContextAt ==
  ASSUME NEW c \in ContextType
  PROVE  /\ DOMAIN ContextPointers(c) = (CtxField \cup {"block"}) \X {0}
         /\ \A f \in CtxField \cup {"block"} : ContextPointers(c)[<< f, 0 >>] = c[f]
<1>1. c # Null BY NullAssumption DEF ContextType, Pointer
<1> QED BY <1>1 DEF ContextPointers

\* A field of a context is filled.
LEMMA ContextIsFilled ==
  ASSUME NEW c \in ContextType, NEW d \in ContextType, NEW f \in CtxField, NEW b,
         c[f] = Null, d = [c EXCEPT ![f] = b]
  PROVE  /\ Named(ContextPointers(d)) = Named(ContextPointers(c)) \cup ({b} \ {Null})
         /\ Separate(ContextPointers(c)) /\ b \notin Named(ContextPointers(c)) =>
              Separate(ContextPointers(d))
<1> DEFINE p == ContextPointers(c)
           q == ContextPointers(d)
           t == << f, 0 >>
<1>1. DOMAIN p = (CtxField \cup {"block"}) \X {0} /\ DOMAIN q = DOMAIN p BY ContextAt
<1>2. t \in DOMAIN q /\ p[t] = Null /\ q[t] = b BY <1>1, ContextAt DEF ContextType
<1>3. ASSUME NEW s \in DOMAIN q \ {t} PROVE q[s] = IF s \in DOMAIN p THEN p[s] ELSE Null
  <2>1. PICK g \in CtxField \cup {"block"} : s = << g, 0 >> BY <1>1
  <2>2. q[s] = d[g] /\ p[s] = c[g] BY <2>1, ContextAt
  <2>3. g # f BY <1>3, <2>1
  <2> QED BY <1>1, <1>3, <2>2, <2>3 DEF ContextType
<1> HIDE DEF p, q, t
<1> QED BY <1>1, <1>2, <1>3, PutPointer DEF p, q

\* A context with nothing but its block.
LEMMA ContextIsMade ==
  ASSUME NEW b \in Pointer \ {Null}, NEW c,
         c = [x \in CtxField \cup {"block"} |-> IF x = "block" THEN b ELSE Null]
  PROVE  Named(ContextPointers(c)) = {b} /\ Separate(ContextPointers(c))
<1>1. c \in ContextType BY DEF ContextType, Pointer
<1> DEFINE p == ContextPointers(c)
<1>2. DOMAIN p = (CtxField \cup {"block"}) \X {0}
      /\ \A f \in CtxField \cup {"block"} : p[<< f, 0 >>] = c[f]
  BY <1>1, ContextAt
<1>3. "block" \notin CtxField BY DEF CtxField
<1>4. \A f \in CtxField : p[<< f, 0 >>] = Null BY <1>2, <1>3
<1>5. p[<< "block", 0 >>] = b /\ << "block", 0 >> \in DOMAIN p BY <1>2
<1>6. \A s \in DOMAIN p : s = << "block", 0 >> \/ p[s] = Null BY <1>2, <1>4
<1> HIDE DEF p
<1> QED BY <1>5, <1>6 DEF Named, Separate, p

\* Who the owners are.
LEMMA OwnersAre ==
  ASSUME NEW o \in Owner
  PROVE  \/ o \in {<< "new", Null >>, << "new context", Null >>, << "context", Null >>,
                   << "mine", Null >>, << "list", Null >>}
         \/ \E b \in CallBlock : o = << "call", b >> \/ o = << "call context", b >>
BY DEF Owner

\* What each owner holds.
LEMMA OwnedAt ==
  /\ Owned[<< "new", Null >>] = BarePointers(new)
  /\ Owned[<< "new context", Null >>] = ContextPointers(new.ai_context)
  /\ Owned[<< "context", Null >>] = ContextPointers(ctx)
  /\ Owned[<< "mine", Null >>] = ContextPointers(mine)
  /\ Owned[<< "list", Null >>] = ContextPointers(list.global_ai_context)
  /\ \A b \in CallBlock :
       /\ Owned[<< "call", b >>] = IF b \in Alive THEN BarePointers(calls[b]) ELSE << >>
       /\ Owned[<< "call context", b >>] =
            IF b \in Alive THEN ContextPointers(calls[b].ai_context) ELSE << >>
<1>1. \A r \in {"new", "new context", "context", "mine", "list"} : << r, Null >> \in Owner
  BY DEF Owner
<1>2. \A b \in CallBlock : << "call", b >> \in Owner /\ << "call context", b >> \in Owner
  BY DEF Owner
<1>3. /\ Owned[<< "new", Null >>] = BarePointers(new)
      /\ Owned[<< "new context", Null >>] = ContextPointers(new.ai_context)
      /\ Owned[<< "context", Null >>] = ContextPointers(ctx)
      /\ Owned[<< "mine", Null >>] = ContextPointers(mine)
      /\ Owned[<< "list", Null >>] = ContextPointers(list.global_ai_context)
  BY <1>1 DEF Owned
<1>4. ASSUME NEW b \in CallBlock
      PROVE  /\ Owned[<< "call", b >>] = IF b \in Alive THEN BarePointers(calls[b]) ELSE << >>
             /\ Owned[<< "call context", b >>] =
                  IF b \in Alive THEN ContextPointers(calls[b].ai_context) ELSE << >>
  BY <1>2 DEF Owned
<1> QED BY <1>3, <1>4

\* The same after a step.
LEMMA OwnedNext ==
  /\ Owned'[<< "new", Null >>] = BarePointers(new')
  /\ Owned'[<< "new context", Null >>] = ContextPointers(new'.ai_context)
  /\ Owned'[<< "context", Null >>] = ContextPointers(ctx')
  /\ Owned'[<< "mine", Null >>] = ContextPointers(mine')
  /\ Owned'[<< "list", Null >>] = ContextPointers(list'.global_ai_context)
  /\ \A b \in CallBlock :
       /\ Owned'[<< "call", b >>] = IF b \in Alive' THEN BarePointers(calls'[b]) ELSE << >>
       /\ Owned'[<< "call context", b >>] =
            IF b \in Alive' THEN ContextPointers(calls'[b].ai_context) ELSE << >>
<1>1. \A r \in {"new", "new context", "context", "mine", "list"} : << r, Null >> \in Owner
  BY DEF Owner
<1>2. \A b \in CallBlock : << "call", b >> \in Owner /\ << "call context", b >> \in Owner
  BY DEF Owner
<1>3. /\ Owned'[<< "new", Null >>] = BarePointers(new')
      /\ Owned'[<< "new context", Null >>] = ContextPointers(new'.ai_context)
      /\ Owned'[<< "context", Null >>] = ContextPointers(ctx')
      /\ Owned'[<< "mine", Null >>] = ContextPointers(mine')
      /\ Owned'[<< "list", Null >>] = ContextPointers(list'.global_ai_context)
  BY <1>1 DEF Owned
<1>4. ASSUME NEW b \in CallBlock
      PROVE  /\ Owned'[<< "call", b >>] = IF b \in Alive' THEN BarePointers(calls'[b]) ELSE << >>
             /\ Owned'[<< "call context", b >>] =
                  IF b \in Alive' THEN ContextPointers(calls'[b].ai_context) ELSE << >>
  BY <1>2 DEF Owned
<1> QED BY <1>3, <1>4

\* What a step leaves alone.
LEMMA OthersSame ==
  ASSUME NEW T,
         << "new", Null >> \in T \/ BarePointers(new') = BarePointers(new),
         << "new context", Null >> \in T \/ new'.ai_context = new.ai_context,
         << "context", Null >> \in T \/ ctx' = ctx,
         << "mine", Null >> \in T \/ mine' = mine,
         << "list", Null >> \in T \/ list'.global_ai_context = list.global_ai_context,
         \A b \in CallBlock :
           \/ << "call", b >> \in T
           \/ b \in Alive /\ b \in Alive' /\ BarePointers(calls'[b]) = BarePointers(calls[b])
           \/ b \notin Alive /\ b \notin Alive',
         \A b \in CallBlock :
           \/ << "call context", b >> \in T
           \/ b \in Alive /\ b \in Alive' /\ calls'[b].ai_context = calls[b].ai_context
           \/ b \notin Alive /\ b \notin Alive'
  PROVE  \A o \in Owner \ T : Owned'[o] = Owned[o]
<1> SUFFICES ASSUME NEW o \in Owner \ T PROVE Owned'[o] = Owned[o] OBVIOUS
<1>1. CASE o = << "new", Null >> BY <1>1, OwnedAt, OwnedNext
<1>2. CASE o = << "new context", Null >> BY <1>2, OwnedAt, OwnedNext
<1>3. CASE o = << "context", Null >> BY <1>3, OwnedAt, OwnedNext
<1>4. CASE o = << "mine", Null >> BY <1>4, OwnedAt, OwnedNext
<1>5. CASE o = << "list", Null >> BY <1>5, OwnedAt, OwnedNext
<1>6. ASSUME NEW b \in CallBlock, o = << "call", b >> PROVE Owned'[o] = Owned[o]
  BY <1>6, OwnedAt, OwnedNext
<1>7. ASSUME NEW b \in CallBlock, o = << "call context", b >> PROVE Owned'[o] = Owned[o]
  BY <1>7, OwnedAt, OwnedNext
<1> QED BY <1>1, <1>2, <1>3, <1>4, <1>5, <1>6, <1>7, OwnersAre

\* These are owners.
LEMMA OwnersNamed ==
  /\ \A r \in {"new", "new context", "context", "mine", "list"} : << r, Null >> \in Owner
  /\ \A b \in CallBlock : << "call", b >> \in Owner /\ << "call context", b >> \in Owner
BY DEF Owner

\* The pointers of a call do not depend on what is next.
LEMMA SameBare ==
  ASSUME NEW c, NEW d, c.args = d.args, \A f \in CallField : c[f] = d[f]
  PROVE  BarePointers(c) = BarePointers(d)
<1>1. OwnPointers(c, CallField) = OwnPointers(d, CallField) BY DEF OwnPointers
<1>2. ArgsPointers(c.args) = ArgsPointers(d.args) OBVIOUS
<1> QED BY <1>1, <1>2 DEF BarePointers

-----------------------------------------------------------------------------
(* What allocating and freeing do                                          *)

\* b is null and memory is as it was, or b is new and holds the content.
Takes(b, content) ==
  \/ b = Null /\ heap' = heap
  \/ /\ b # Null /\ b \notin DOMAIN heap
     /\ DOMAIN heap' = DOMAIN heap \cup {b} /\ heap'[b] = content
     /\ \A x \in DOMAIN heap : heap'[x] = heap[x]

\* malloc takes a block that was free, or returns null.
LEMMA AllocTakes ==
  ASSUME NEW role, NEW c, NEW a, NEW b \in Malloc(role, c, a), NEW content, Alloc(b, content)
  PROVE  Takes(b, content)
<1>1. b = Null \/ b \notin DOMAIN heap BY DEF Malloc
<1> QED BY <1>1 DEF Alloc, Takes

\* So does the copy of a string; of a null pointer it is null.
LEMMA DupTakes ==
  ASSUME NEW role, NEW c, NEW a, NEW b \in Malloc(role, c, a), NEW text, Dup(b, text)
  PROVE  Takes(b, text) /\ (text = Null => b = Null)
<1>1. CASE text = Null BY <1>1 DEF Dup, Takes
<1>2. CASE text # Null BY <1>2, AllocTakes DEF Dup
<1> QED BY <1>1, <1>2

\* A call that is alive holds its own block.
LEMMA AliveIsHeld ==
  ASSUME TypeInv, ListInv, NEW b \in Alive
  PROVE  b \in CallBlock /\ b \in Named(Owned[<< "call", b >>])
<1>1. b \in CallBlock /\ b # Null /\ calls[b].call = b BY DEF TypeInv, ListInv, Alive
<1>2. Owned[<< "call", b >>] = BarePointers(calls[b]) BY <1>1, OwnedAt
<1>3. "call" \in CallField BY DEF CallField
<1>4. BarePointers(calls[b])[<< "call", 0 >>] = calls[b]["call"] BY <1>3, BareAt
<1>5. << "call", 0 >> \in DOMAIN BarePointers(calls[b]) BY <1>3, BareAt
<1> QED BY <1>1, <1>2, <1>4, <1>5 DEF Named

\* The pointers of some owners are freed, and nothing else.
LEMMA FreeGives ==
  ASSUME TypeInv, ListInv, MemoryInv, NEW T \in SUBSET Owner, NEW p, Free(p), Separate(p),
         Named(p) = UNION {Named(Owned[o]) : o \in T}
  PROVE  /\ ~ faulty'
         /\ DOMAIN heap' = DOMAIN heap \ UNION {Named(Owned[o]) : o \in T}
         /\ \A x \in DOMAIN heap' : heap'[x] = heap[x]
         /\ \A b \in Alive : << "call", b >> \notin T => b \in DOMAIN heap'
<1>1. DOMAIN heap = UNION {Named(Owned[o]) : o \in Owner} BY DEF MemoryInv, Accounted
<1>2. UNION {Named(Owned[o]) : o \in T} \subseteq DOMAIN heap BY <1>1
<1>3. ~ faulty' BY <1>2 DEF Free, MemoryInv
<1>4. DOMAIN heap' = DOMAIN heap \ Named(p) /\ \A x \in DOMAIN heap' : heap'[x] = heap[x]
  BY DEF Free
<1>5. ASSUME NEW b \in Alive, << "call", b >> \notin T PROVE b \in DOMAIN heap'
  <2>1. b \in CallBlock /\ b \in Named(Owned[<< "call", b >>]) BY AliveIsHeld
  <2>2. << "call", b >> \in Owner BY <2>1, OwnersNamed
  <2>3. ASSUME NEW o \in T PROVE b \notin Named(Owned[o])
    BY <1>5, <2>1, <2>2 DEF MemoryInv, Accounted
  <2>4. b \in DOMAIN heap BY DEF Alive
  <2> QED BY <1>4, <2>3, <2>4
<1> QED BY <1>3, <1>4, <1>5

\* The same of one owner that is not a call.
LEMMA FreeOne ==
  ASSUME TypeInv, ListInv, MemoryInv, NEW t \in Owner, \A b \in CallBlock : t # << "call", b >>,
         NEW p, Free(p), Separate(p), Named(p) = Named(Owned[t]), DOMAIN calls' = DOMAIN calls
  PROVE  /\ ~ faulty' /\ Alive' = Alive
         /\ DOMAIN heap' = DOMAIN heap \ UNION {Named(Owned[o]) : o \in {t}}
<1>1. Named(p) = UNION {Named(Owned[o]) : o \in {t}} OBVIOUS
<1>2. /\ ~ faulty'
      /\ DOMAIN heap' = DOMAIN heap \ UNION {Named(Owned[o]) : o \in {t}}
      /\ \A b \in Alive : << "call", b >> \notin {t} => b \in DOMAIN heap'
  BY <1>1, {t} \in SUBSET Owner, FreeGives
<1>3. \A b \in Alive : b \in CallBlock BY AliveIsHeld
<1>4. \A b \in Alive : b \in DOMAIN heap' BY <1>2, <1>3
<1>5. Alive' = Alive BY <1>2, <1>4 DEF Alive
<1> QED BY <1>2, <1>5

\* Nothing that is not being made is lost when memory grows.
LEMMA AliveStays ==
  ASSUME ListInv, pc # "destroy", NEW b, NEW content, Takes(b, content),
         DOMAIN calls' = DOMAIN calls
  PROVE  Alive' = Alive
BY DEF ListInv, Takes, Alive

-----------------------------------------------------------------------------
(* Memory is accounted for                                                 *)

\* The call being made gets a pointer to the block that was allocated for it.
LEMMA NewGrows ==
  ASSUME TypeInv, ListInv, MemoryInv, pc # "destroy", NEW b, NEW content, Takes(b, content),
         UNCHANGED << calls, list, mine, ctx, faulty >>, new'.ai_context = new.ai_context,
         Named(BarePointers(new')) = Named(BarePointers(new)) \cup ({b} \ {Null}),
         Separate(BarePointers(new)) /\ b \notin Named(BarePointers(new)) =>
           Separate(BarePointers(new'))
  PROVE  MemoryInv' /\ Alive \subseteq DOMAIN heap'
<1> DEFINE t == << "new", Null >>
<1>1. t \in Owner BY OwnersNamed
<1>2. Alive' = Alive BY AliveStays
<1>3. \A o \in Owner \ {t} : Owned'[o] = Owned[o]
  BY <1>2, OthersSame
<1>4. Owned[t] = BarePointers(new) /\ Owned'[t] = BarePointers(new') BY OwnedAt, OwnedNext
<1>5. Accounted(Owned, DOMAIN heap) /\ ~ faulty BY DEF MemoryInv
<1>6. Separate(Owned[t]) /\ Named(Owned[t]) \subseteq DOMAIN heap BY <1>1, <1>5 DEF Accounted
<1>9. Alive \subseteq DOMAIN heap' BY <1>2 DEF Alive
<1>7. CASE b = Null
  <2>1. Null \notin Named(Owned[t]) BY DEF Named
  <2>2. Named(Owned'[t]) = Named(Owned[t]) /\ Separate(Owned'[t]) BY <1>4, <1>6, <1>7, <2>1
  <2>3. \A o \in Owner : Named(Owned'[o]) = Named(Owned[o]) /\ Separate(Owned'[o])
    BY <1>3, <1>5, <2>2 DEF Accounted
  <2>4. Accounted(Owned', DOMAIN heap) BY <1>5, <2>3, SameAccounts
  <2>5. heap' = heap BY <1>7 DEF Takes
  <2> QED BY <1>5, <1>9, <2>4, <2>5 DEF MemoryInv
<1>8. CASE b # Null
  <2>1. b \notin DOMAIN heap /\ DOMAIN heap' = DOMAIN heap \cup {b} BY <1>8 DEF Takes
  <2>2. Named(Owned'[t]) = Named(Owned[t]) \cup {b} /\ Separate(Owned'[t])
    BY <1>4, <1>6, <1>8, <2>1
  <2>3. Accounted(Owned', DOMAIN heap \cup {b})
    <3> HIDE DEF t
    <3> QED BY <1>1, <1>3, <1>5, <2>1, <2>2, AccountsGrow
  <2> QED BY <1>5, <1>9, <2>1, <2>3 DEF MemoryInv
<1> QED BY <1>7, <1>8

\* The call being made is given up.
LEMMA NewIsGivenUp ==
  ASSUME TypeInv, ListInv, MemoryInv, new.ai_context = Null, ctx = Null,
         NEW p, Free(p), Named(p) = Named(BarePointers(new)), Separate(p), Return,
         UNCHANGED << calls, list, mine >>
  PROVE  MemoryInv' /\ Alive \subseteq DOMAIN heap'
<1> DEFINE t == << "new", Null >>
<1>1. t \in Owner /\ \A b \in CallBlock : t # << "call", b >> BY OwnersNamed
<1>2. Owned[t] = BarePointers(new) /\ Owned'[t] = BarePointers(NoCall)
  BY OwnedAt, OwnedNext DEF Return
<1>3. ~ faulty' /\ Alive' = Alive
      /\ DOMAIN heap' = DOMAIN heap \ UNION {Named(Owned[o]) : o \in {t}}
  BY <1>1, <1>2, FreeOne
<1>4. new' = NoCall /\ ctx' = Null BY DEF Return
<1>5. \A o \in Owner \ {t} : Owned'[o] = Owned[o]
  BY <1>3, <1>4, NoCallHasNone, OthersSame
<1>6. Named(Owned'[t]) = {} /\ Separate(Owned'[t]) BY <1>2, NoCallHasNone
<1>7. Accounted(Owned, DOMAIN heap) BY DEF MemoryInv
<1> HIDE DEF t
<1>8. Accounted(Owned', DOMAIN heap \ UNION {Named(Owned[o]) : o \in {t}})
  BY <1>1, <1>5, <1>6, <1>7, {t} \in SUBSET Owner, AccountsDrop
<1>9. Alive \subseteq DOMAIN heap' BY <1>3 DEF Alive
<1> QED BY <1>3, <1>8, <1>9 DEF MemoryInv

\* A context goes to whom it was made for.
LEMMA DeliverMoves ==
  ASSUME TypeInv, PcInv, ListInv, pc \in Making, NEW c, Deliver(c), list' = list,
         DOMAIN calls \subseteq DOMAIN heap', NEW g, Accounted(g, DOMAIN heap'),
         g[<< "context", Null >>] = ContextPointers(c),
         \A o \in Owner \ {<< "context", Null >>} : g[o] = Owned[o]
  PROVE  Accounted(Owned', DOMAIN heap')
<1> DEFINE s == << "context", Null >>
<1>1. pc \notin {"idle", "destroy"} BY DEF Making, CtxField
<1>2. Alive = DOMAIN calls BY <1>1 DEF ListInv, Alive
<1>3. s \in Owner BY OwnersNamed
<1>4. CASE given.for = "attach"
  <2> DEFINE t == << "new context", Null >>
  <2>1. t \in Owner /\ s # t BY OwnersNamed
  <2>2. new' = [new EXCEPT !.ai_context = c] /\ ctx' = Null /\ calls' = calls /\ mine' = mine
    BY <1>4 DEF Deliver
  <2>3. Alive' = Alive BY <1>2, <2>2 DEF Alive
  <2>4. /\ new.ai_context = Null /\ new'.ai_context = c
        /\ BarePointers(new') = BarePointers(new)
    <3>1. new.ai_context = Null BY <1>4 DEF PcInv
    <3>2. new'.ai_context = c /\ new'.args = new.args /\ \A f \in CallField : new'[f] = new[f]
      BY <2>2 DEF TypeInv, CallType, CallField
    <3> QED BY <3>1, <3>2, SameBare
  <2>5. \A o \in Owner \ {s, t} : Owned'[o] = Owned[o]
    BY <2>2, <2>3, <2>4, OthersSame
  <2>6. Named(g[t]) = {} BY <2>1, <2>4, OwnedAt, NoPointers
  <2>7. Named(Owned'[s]) = {} /\ Separate(Owned'[s]) BY <2>2, OwnedNext, NoPointers
  <2>8. Owned'[t] = g[s] BY <2>4, OwnedNext
  <2> HIDE DEF s, t
  <2> QED BY <1>3, <2>1, <2>5, <2>6, <2>7, <2>8, AccountsMove DEF s
<1>5. CASE given.for = "set"
  <2> DEFINE t == << "call context", given.call >>
  <2>1. given.call \in DOMAIN calls /\ calls[given.call].ai_context = Null /\ new = NoCall
    BY <1>5 DEF PcInv
  <2>2. t \in Owner /\ s # t /\ given.call \in CallBlock BY <2>1, OwnersNamed DEF TypeInv
  <2>3. /\ new' = NoCall /\ ctx' = Null /\ mine' = mine
        /\ calls' = [calls EXCEPT ![given.call].ai_context = c]
    BY <1>5 DEF Deliver, Return
  <2>4. Alive' = Alive BY <1>2, <2>3 DEF Alive, TypeInv
  <2>5. /\ calls'[given.call].ai_context = c
        /\ \A b \in DOMAIN calls : BarePointers(calls'[b]) = BarePointers(calls[b])
        /\ \A b \in DOMAIN calls \ {given.call} : calls'[b] = calls[b]
    <3>1. \A b \in DOMAIN calls \ {given.call} : calls'[b] = calls[b] BY <2>3 DEF TypeInv
    <3>2. calls'[given.call] = [calls[given.call] EXCEPT !.ai_context = c]
      BY <2>1, <2>3 DEF TypeInv
    <3>3. calls[given.call] \in CallType BY <2>1 DEF TypeInv
    <3>4. /\ calls'[given.call].ai_context = c /\ calls'[given.call].args = calls[given.call].args
          /\ \A f \in CallField : calls'[given.call][f] = calls[given.call][f]
      BY <3>2, <3>3 DEF CallType, CallField
    <3>5. BarePointers(calls'[given.call]) = BarePointers(calls[given.call])
      BY <3>4, SameBare
    <3> QED BY <3>1, <3>4, <3>5
  <2>6. \A o \in Owner \ {s, t} : Owned'[o] = Owned[o]
    BY <1>2, <2>1, <2>3, <2>4, <2>5, OthersSame
  <2>7. Named(g[t]) = {} BY <2>1, <2>2, OwnedAt, NoPointers
  <2>8. Named(Owned'[s]) = {} /\ Separate(Owned'[s]) BY <2>3, OwnedNext, NoPointers
  <2>9. Owned'[t] = g[s] BY <1>2, <2>1, <2>2, <2>4, <2>5, OwnedNext
  <2> HIDE DEF s, t
  <2> QED BY <1>3, <2>2, <2>6, <2>7, <2>8, <2>9, AccountsMove DEF s
<1>6. CASE given.for = "create"
  <2> DEFINE t == << "mine", Null >>
  <2>1. t \in Owner /\ s # t BY OwnersNamed
  <2>2. new = NoCall /\ mine = Null BY <1>6 DEF PcInv
  <2>3. new' = NoCall /\ ctx' = Null /\ calls' = calls /\ mine' = c
    BY <1>6 DEF Deliver, Return
  <2>4. Alive' = Alive BY <1>2, <2>3 DEF Alive
  <2>5. \A o \in Owner \ {s, t} : Owned'[o] = Owned[o]
    BY <2>2, <2>3, <2>4, OthersSame
  <2>6. Named(g[t]) = {} BY <2>1, <2>2, OwnedAt, NoPointers
  <2>7. Named(Owned'[s]) = {} /\ Separate(Owned'[s]) BY <2>3, OwnedNext, NoPointers
  <2>8. Owned'[t] = g[s] BY <2>3, OwnedNext
  <2> HIDE DEF s, t
  <2> QED BY <1>3, <2>1, <2>5, <2>6, <2>7, <2>8, AccountsMove DEF s
<1> QED BY <1>4, <1>5, <1>6 DEF PcInv

\* The call appended is the last in the list and no longer being made.
LEMMA AppendMoves ==
  ASSUME TypeInv, PcInv, ListInv, MemoryInv, AppendCall
  PROVE  /\ new.call \in DOMAIN heap \ DOMAIN calls
         /\ MemoryInv' /\ Alive \subseteq DOMAIN heap'
<1> DEFINE b == new.call
           s == << "new", Null >>
           t == << "call", b >>
           sc == << "new context", Null >>
           tc == << "call context", b >>
           g == [o \in Owner |-> IF o = s THEN << >> ELSE IF o = t THEN Owned[s] ELSE Owned[o]]
<1>1. pc = "append" /\ Return /\ calls' = With(new) /\ UNCHANGED << heap, faulty, mine >>
      /\ list'.global_ai_context = list.global_ai_context
  BY DEF AppendCall, AppendTo, TypeInv, ListType
<1>2. b # Null /\ b \in CallBlock /\ new \in CallType
  BY <1>1 DEF PcInv, Adding, TypeInv, CallType
<1>3. s \in Owner /\ t \in Owner /\ sc \in Owner /\ tc \in Owner /\ s # t /\ sc # tc
      /\ s # sc /\ s # tc /\ t # sc /\ t # tc
  BY <1>2, OwnersNamed
<1>4. Alive = DOMAIN calls /\ Accounted(Owned, DOMAIN heap) /\ ~ faulty
  BY <1>1 DEF ListInv, Alive, MemoryInv
<1>5. b \in Named(Owned[s])
  <2>1. "call" \in CallField BY DEF CallField
  <2>2. << "call", 0 >> \in DOMAIN BarePointers(new) /\ BarePointers(new)[<< "call", 0 >>] = b
    BY <2>1, BareAt
  <2> QED BY <1>2, <2>2, OwnedAt DEF Named
<1>6. b \in DOMAIN heap \ DOMAIN calls
  <2>1. b \in DOMAIN heap BY <1>3, <1>4, <1>5 DEF Accounted
  <2>2. ASSUME b \in DOMAIN calls PROVE FALSE
    <3>1. b \in Named(Owned[t]) BY <1>4, <2>2, AliveIsHeld
    <3> QED BY <1>3, <1>4, <1>5, <3>1 DEF Accounted
  <2> QED BY <2>1, <2>2
<1>7. /\ Owned[t] = << >> /\ Owned[tc] = << >>
      /\ Owned[s] = BarePointers(new) /\ Owned[sc] = ContextPointers(new.ai_context)
  BY <1>2, <1>4, <1>6, OwnedAt
<1>8. Accounted(g, DOMAIN heap)
  <2>1. /\ g[s] = << >> /\ g[t] = Owned[s] /\ \A o \in Owner \ {s, t} : g[o] = Owned[o]
    BY <1>3
  <2>2. Named(Owned[t]) = {} /\ Named(g[s]) = {} /\ Separate(g[s]) BY <1>7, <2>1, NoPointers
  <2> HIDE DEF s, t, g
  <2> QED BY <1>3, <1>4, <2>1, <2>2, AccountsMove
<1>9. /\ Alive' = Alive \cup {b}
      /\ calls'[b] = new
      /\ \A x \in DOMAIN calls : BarePointers(calls'[x]) = BarePointers(calls[x])
                                 /\ calls'[x].ai_context = calls[x].ai_context
  <2>1. DOMAIN calls' = DOMAIN calls \cup {b} /\ calls'[b] = new BY <1>1 DEF With
  <2>2. ASSUME NEW x \in DOMAIN calls
        PROVE  /\ calls'[x].args = calls[x].args /\ calls'[x].ai_context = calls[x].ai_context
               /\ \A f \in CallField : calls'[x][f] = calls[x][f]
    <3>1. calls'[x] = IF x = list.tail THEN [calls[x] EXCEPT !.next = b] ELSE calls[x]
      BY <1>1, <1>6 DEF With
    <3>2. calls[x] \in CallType BY DEF TypeInv
    <3> QED BY <3>1, <3>2 DEF CallType, CallField
  <2>3. Alive' = Alive \cup {b} BY <1>1, <1>4, <1>6, <2>1 DEF Alive, ListInv
  <2> QED BY <2>1, <2>2, <2>3, SameBare
<1>10. new' = NoCall /\ ctx' = ctx BY <1>1 DEF Return, PcInv, Adding
<1>11. \A o \in Owner \ {s, t, sc, tc} : Owned'[o] = Owned[o]
  BY <1>1, <1>4, <1>9, <1>10, OthersSame
<1>12. /\ Owned'[s] = BarePointers(NoCall) /\ Owned'[sc] = << >>
       /\ Owned'[t] = BarePointers(new) /\ Owned'[tc] = ContextPointers(new.ai_context)
  BY <1>2, <1>9, <1>10, OwnedNext, NoCallHasNone, NoPointers
<1> DEFINE h == [o \in Owner |-> IF o = s THEN << >> ELSE Owned'[o]]
<1>13. Accounted(h, DOMAIN heap)
  <2>1. \A o \in Owner \ {sc, tc} : h[o] = g[o] BY <1>3, <1>7, <1>11, <1>12
  <2>2. g[tc] = << >> /\ h[sc] = << >> /\ h[tc] = g[sc] BY <1>3, <1>7, <1>12
  <2>3. Named(g[tc]) = {} /\ Named(h[sc]) = {} /\ Separate(h[sc]) BY <2>2, NoPointers
  <2> HIDE DEF sc, tc, g, h
  <2> QED BY <1>3, <1>8, <2>1, <2>2, <2>3, AccountsMove
<1>14. \A o \in Owner : Named(Owned'[o]) = Named(h[o]) /\ (Separate(h[o]) => Separate(Owned'[o]))
  <2>1. ASSUME NEW o \in Owner, o # s PROVE h[o] = Owned'[o] BY <2>1
  <2>2. h[s] = << >> BY <1>3
  <2> QED BY <1>12, <2>1, <2>2, NoPointers, NoCallHasNone
<1>15. \A o \in Owner : Separate(h[o]) BY <1>13 DEF Accounted
<1> HIDE DEF h
<1>16. Accounted(Owned', DOMAIN heap) BY <1>13, <1>14, <1>15, SameAccounts
<1>17. Alive \subseteq DOMAIN heap' BY <1>1 DEF Alive
<1> QED BY <1>1, <1>4, <1>6, <1>16, <1>17 DEF MemoryInv

\* Where destroy is: the call it frees is alive, and no call is when it is done.
LEMMA DestroyIsAt ==
  ASSUME TypeInv, ListInv, pc = "destroy"
  PROVE  IF current = Null THEN Alive = {} ELSE current \in Alive
<1>1. PICK n \in 1 .. list.size + 1 : DestroyingAt(n) BY DEF ListInv
<1>2. /\ Chain \in [1 .. list.size -> DOMAIN calls] /\ list.size \in Nat
      /\ \A b \in DOMAIN calls : \E m \in 1 .. list.size : Chain[m] = b
      /\ Null \notin DOMAIN calls
  BY DEF ListInv, Linked, TypeInv, ListType
<1>3. CASE n <= list.size BY <1>1, <1>2, <1>3 DEF DestroyingAt, Alive
<1>4. CASE ~ (n <= list.size)
  <2>1. current = Null BY <1>1, <1>4 DEF DestroyingAt
  <2>2. \A m \in 1 .. list.size : Chain[m] \notin DOMAIN heap BY <1>1, <1>2, <1>4 DEF DestroyingAt
  <2> QED BY <1>2, <2>1, <2>2 DEF Alive
<1> QED BY <1>3, <1>4

\* The call and its context are freed together.
LEMMA CallIsFreed ==
  ASSUME TypeInv, PcInv, ListInv, MemoryInv, DestroyCall
  PROVE  /\ Alive' = Alive \ {current}
         /\ MemoryInv'
<1> DEFINE c == calls[current]
           t == << "call", current >>
           tc == << "call context", current >>
           p == CallPointers(c)
<1>1. current \in Alive /\ current \in CallBlock BY DestroyIsAt DEF DestroyCall, Alive, TypeInv
<1>2. t \in Owner /\ tc \in Owner /\ t # tc BY <1>1, OwnersNamed
<1>3. Owned[t] = BarePointers(c) /\ Owned[tc] = ContextPointers(c.ai_context)
  BY <1>1, OwnedAt
<1>4. Accounted(Owned, DOMAIN heap) /\ ~ faulty BY DEF MemoryInv
<1>5. Named(p) = Named(Owned[t]) \cup Named(Owned[tc]) /\ Separate(p)
  <2> DEFINE a == BarePointers(c)
             d == ContextPointers(c.ai_context)
  <2>1. c.ai_context \in ContextType \cup {Null} BY <1>1 DEF Alive, TypeInv, CallType
  <2>2. DOMAIN d \subseteq (CtxField \cup {"block"}) \X {0} BY <2>1, ContextAt, NoPointers
  <2>3. DOMAIN a = (CallField \X {0}) \cup (ArgField \X DOMAIN c.args) BY BareAt
  <2>4. \A f \in CtxField \cup {"block"} : f \notin CallField /\ f \notin ArgField
    BY DEF CtxField, CallField, ArgField
  <2>5. DOMAIN a \cap DOMAIN d = {}
    <3> SUFFICES ASSUME NEW x \in DOMAIN d PROVE x \notin DOMAIN a OBVIOUS
    <3>1. PICK f \in CtxField \cup {"block"} : x = << f, 0 >> BY <2>2
    <3> QED BY <2>3, <2>4, <3>1
  <2>6. Separate(a) /\ Separate(d) /\ Named(a) \cap Named(d) = {}
    BY <1>2, <1>3, <1>4 DEF Accounted
  <2>7. p = Both(a, d) BY DEF CallPointers
  <2> HIDE DEF a, d, p
  <2>8. Named(p) = Named(a) \cup Named(d) /\ Separate(p) BY <2>5, <2>6, <2>7, JoinPointers
  <2> QED BY <1>3, <2>8 DEF a, d
<1>6. Free(p) /\ UNCHANGED << calls, list, mine, new, ctx >> BY DEF DestroyCall
<1>7. Named(p) = UNION {Named(Owned[o]) : o \in {t, tc}} BY <1>5
<1>8. /\ ~ faulty'
      /\ DOMAIN heap' = DOMAIN heap \ UNION {Named(Owned[o]) : o \in {t, tc}}
      /\ \A b \in Alive : << "call", b >> \notin {t, tc} => b \in DOMAIN heap'
  <2> HIDE DEF p, t, tc
  <2> QED BY <1>2, <1>5, <1>6, <1>7, FreeGives, {t, tc} \in SUBSET Owner
<1>9. Alive' = Alive \ {current}
  <2>1. current \in Named(Owned[t]) BY <1>1, AliveIsHeld
  <2>2. current \notin DOMAIN heap' BY <1>8, <2>1
  <2>3. \A b \in Alive \ {current} : b \in DOMAIN heap' BY <1>8
  <2> QED BY <1>6, <1>8, <2>2, <2>3 DEF Alive
<1>10. \A o \in Owner \ {t, tc} : Owned'[o] = Owned[o] BY <1>6, <1>9, OthersSame
<1>11. Owned'[t] = << >> /\ Owned'[tc] = << >> BY <1>1, <1>9, OwnedNext
<1>12. Accounted(Owned', DOMAIN heap \ UNION {Named(Owned[o]) : o \in {t, tc}})
  <2>1. \A o \in {t, tc} : Named(Owned'[o]) = {} /\ Separate(Owned'[o]) BY <1>11, NoPointers
  <2> HIDE DEF t, tc
  <2> QED BY <1>2, <1>4, <1>10, <2>1, {t, tc} \in SUBSET Owner, AccountsDrop
<1> QED BY <1>8, <1>9, <1>12 DEF MemoryInv

\* What one owner has is freed, and the owner has nothing.
LEMMA OneIsFreed ==
  ASSUME MemoryInv, NEW t \in Owner, ~ faulty',
         DOMAIN heap' = DOMAIN heap \ UNION {Named(Owned[o]) : o \in {t}},
         \A o \in Owner \ {t} : Owned'[o] = Owned[o],
         Named(Owned'[t]) = {}, Separate(Owned'[t])
  PROVE  MemoryInv'
<1>1. Accounted(Owned, DOMAIN heap) BY DEF MemoryInv
<1>2. Accounted(Owned', DOMAIN heap \ UNION {Named(Owned[o]) : o \in {t}})
  BY <1>1, AccountsDropOne
<1> QED BY <1>2 DEF MemoryInv

\* The call being made without the pointers that are null.
LEMMA OwnAreBare ==
  ASSUME NEW c, NEW F \in SUBSET CallField, c.args = << >>, \A f \in CallField \ F : c[f] = Null
  PROVE  /\ Named(OwnPointers(c, F)) = Named(BarePointers(c))
         /\ Separate(BarePointers(c)) => Separate(OwnPointers(c, F))
<1> DEFINE p == OwnPointers(c, F)
           q == BarePointers(c)
<1>1. DOMAIN q = (CallField \X {0}) \cup (ArgField \X DOMAIN c.args)
      /\ \A f \in CallField : q[<< f, 0 >>] = c[f]
  BY BareAt
<1>2. DOMAIN p = F \X {0} /\ \A f \in F : p[<< f, 0 >>] = c[f] BY DEF OwnPointers
<1>3. DOMAIN q = CallField \X {0} BY <1>1
<1> HIDE DEF p, q
<1>4. DOMAIN p \subseteq DOMAIN q BY <1>2, <1>3
<1>5. ASSUME NEW x \in DOMAIN q PROVE IF x \in DOMAIN p THEN p[x] = q[x] ELSE q[x] = Null
  <2>1. PICK f \in CallField : x = << f, 0 >> BY <1>3
  <2>2. q[x] = c[f] BY <1>1, <2>1
  <2>3. CASE f \in F BY <1>2, <2>1, <2>2, <2>3
  <2>4. CASE f \notin F BY <1>2, <2>1, <2>2, <2>4
  <2> QED BY <2>3, <2>4
<1>6. Named(p) = Named(q)
  <2>1. ASSUME NEW x \in DOMAIN q, q[x] # Null PROVE q[x] \in Named(p) BY <1>5, <2>1 DEF Named
  <2>2. ASSUME NEW x \in DOMAIN p, p[x] # Null PROVE p[x] \in Named(q)
    BY <1>4, <1>5, <2>2 DEF Named
  <2> QED BY <2>1, <2>2 DEF Named
<1>7. Separate(q) => Separate(p) BY <1>4, <1>5 DEF Separate
<1> QED BY <1>6, <1>7 DEF p, q

\* The call being made has pointers to itself, and what it has is in memory.
LEMMA NewIsSeparate ==
  ASSUME MemoryInv
  PROVE  Separate(BarePointers(new)) /\ Named(BarePointers(new)) \subseteq DOMAIN heap
<1>1. << "new", Null >> \in Owner BY OwnersNamed
<1>2. Owned[<< "new", Null >>] = BarePointers(new) BY OwnedAt
<1> QED BY <1>1, <1>2 DEF MemoryInv, Accounted

\* add_call starts: the block of the call.
LEMMA AddCallKeepsMemory ==
  ASSUME TypeInv, PcInv, ListInv, MemoryInv, AddCall
  PROVE  MemoryInv' /\ Alive \subseteq DOMAIN heap'
<1>1. PICK fn \in Function, n \in 0 .. MaxArgs : \E args \in [1 .. n -> Argument] :
        \E b \in Malloc("call", 0, 0) :
          /\ Alloc(b, Node)
          /\ IF b = Null THEN Return
             ELSE new' = [NoCall EXCEPT !.call = b] /\ UNCHANGED ctx
  BY DEF AddCall
<1>2. PICK args \in [1 .. n -> Argument], b \in Malloc("call", 0, 0) :
        /\ Alloc(b, Node)
        /\ IF b = Null THEN Return
           ELSE new' = [NoCall EXCEPT !.call = b] /\ UNCHANGED ctx
  BY <1>1
<1>3. Takes(b, Node) BY <1>2, AllocTakes
<1>4. new = NoCall /\ ctx = Null /\ pc # "destroy" BY DEF AddCall, Idle, PcInv
<1>5. /\ UNCHANGED << calls, list, mine, faulty >>
      /\ ctx' = ctx
  BY <1>2, <1>4 DEF AddCall, Return
<1>6. new'.call = b /\ new'.function_name = Null /\ new'.arguments = Null
      /\ new'.args = << >> /\ new'.ai_context = Null
  BY <1>2 DEF Return, NoCall
<1>7. /\ new.call = Null /\ new.function_name = Null /\ new.arguments = Null
      /\ new.args = << >> /\ new.ai_context = Null
  BY <1>4 DEF NoCall
<1>8. /\ Named(BarePointers(new')) = Named(BarePointers(new)) \cup ({b} \ {Null})
      /\ Separate(BarePointers(new)) /\ b \notin Named(BarePointers(new)) =>
           Separate(BarePointers(new'))
  <2>1. "call" \in CallField /\ new["call"] = Null /\ new'["call"] = b
        /\ \A g \in CallField \ {"call"} : new'[g] = new[g]
    BY <1>6, <1>7 DEF CallField
  <2>2. new'.args = new.args /\ DOMAIN new.args = {} BY <1>6, <1>7
  <2> QED BY <2>1, <2>2, FieldIsFilled
<1> QED BY <1>3, <1>4, <1>5, <1>6, <1>7, <1>8, NewGrows

\* The copy of the name; if it failed, the block of the call is freed.
LEMMA NameKeepsMemory ==
  ASSUME TypeInv, PcInv, ListInv, MemoryInv, Name
  PROVE  MemoryInv' /\ Alive \subseteq DOMAIN heap'
<1>1. /\ pc = "function_name" /\ new.function_name = Null /\ new.arguments = Null
      /\ new.args = << >> /\ new.ai_context = Null /\ ctx = Null
      /\ UNCHANGED << calls, list, mine >>
  BY DEF Name, PcInv, Adding
<1>2. CASE Return /\ Free(OwnPointers(new, {"call"}))
  <2>1. {"call"} \in SUBSET CallField /\ \A f \in CallField \ {"call"} : new[f] = Null
    BY <1>1 DEF CallField
  <2>2. /\ Named(OwnPointers(new, {"call"})) = Named(BarePointers(new))
        /\ Separate(OwnPointers(new, {"call"}))
    BY <1>1, <2>1, OwnAreBare, NewIsSeparate
  <2> QED BY <1>1, <1>2, <2>2, NewIsGivenUp
<1>3. CASE ~ (Return /\ Free(OwnPointers(new, {"call"})))
  <2>1. PICK b \in Malloc("function_name", k, 0) :
          Alloc(b, given.function) /\ new' = [new EXCEPT !.function_name = b]
          /\ UNCHANGED << faulty, ctx >>
    BY <1>3 DEF Name
  <2>2. Takes(b, given.function) BY <2>1, AllocTakes
  <2>3. /\ new'.function_name = b /\ new'.args = new.args /\ new'.ai_context = new.ai_context
        /\ \A g \in CallField \ {"function_name"} : new'[g] = new[g]
    BY <2>1 DEF TypeInv, CallType, CallField
  <2>4. "function_name" \in CallField /\ new["function_name"] = Null BY <1>1 DEF CallField
  <2>6. DOMAIN new.args = {} /\ DOMAIN new'.args = {} BY <1>1, <2>3
  <2>5. /\ Named(BarePointers(new')) = Named(BarePointers(new)) \cup ({b} \ {Null})
        /\ Separate(BarePointers(new)) /\ b \notin Named(BarePointers(new)) =>
             Separate(BarePointers(new'))
    BY <2>3, <2>4, <2>6, FieldIsFilled
  <2> QED BY <1>1, <2>1, <2>2, <2>3, <2>5, NewGrows
<1> QED BY <1>2, <1>3

\* The array of the arguments; if it failed, name and call are freed.
LEMMA ArgumentsKeepMemory ==
  ASSUME TypeInv, PcInv, ListInv, MemoryInv, Arguments
  PROVE  MemoryInv' /\ Alive \subseteq DOMAIN heap'
<1> DEFINE F == {"function_name", "call"}
<1>1. /\ pc = "arguments" /\ new.arguments = Null
      /\ new.args = << >> /\ new.ai_context = Null /\ ctx = Null
      /\ UNCHANGED << calls, list, mine >>
  BY DEF Arguments, PcInv, Adding
<1>2. CASE Return /\ Free(OwnPointers(new, F))
  <2>1. F \in SUBSET CallField /\ \A f \in CallField \ F : new[f] = Null
    BY <1>1 DEF CallField
  <2> HIDE DEF F
  <2>2. /\ Named(OwnPointers(new, F)) = Named(BarePointers(new))
        /\ Separate(OwnPointers(new, F))
    BY <1>1, <2>1, OwnAreBare, NewIsSeparate
  <2> QED BY <1>1, <1>2, <2>2, NewIsGivenUp
<1>3. CASE ~ (Return /\ Free(OwnPointers(new, F)))
  <2>1. PICK b \in Malloc("arguments", k, 0) :
          Alloc(b, Node) /\ new' = [new EXCEPT !.arguments = b, !.args = << NoArg >>]
          /\ UNCHANGED << faulty, ctx >>
    BY <1>3 DEF Arguments
  <2>2. Takes(b, Node) BY <2>1, AllocTakes
  <2>3. /\ new'.arguments = b /\ new'.args = << NoArg >> /\ new'.ai_context = new.ai_context
        /\ \A g \in CallField \ {"arguments"} : new'[g] = new[g]
    BY <2>1 DEF TypeInv, CallType, CallField
  <2>4. "arguments" \in CallField /\ new["arguments"] = Null BY <1>1 DEF CallField
  <2>5. DOMAIN new.args = {} /\ \A n \in DOMAIN new'.args : new'.args[n] = NoArg BY <1>1, <2>3
  <2>6. /\ Named(BarePointers(new')) = Named(BarePointers(new)) \cup ({b} \ {Null})
        /\ Separate(BarePointers(new)) /\ b \notin Named(BarePointers(new)) =>
             Separate(BarePointers(new'))
    BY <2>3, <2>4, <2>5, FieldIsFilled
  <2> QED BY <1>1, <2>1, <2>2, <2>3, <2>6, NewGrows
<1> QED BY <1>2, <1>3

\* A pointer of the last argument is set where there was none.
LEMMA LastIsFilled ==
  ASSUME TypeInv, PcInv, ListInv, MemoryInv, pc # "destroy", new.args # << >>,
         NEW f \in ArgField, new.args[i][f] = Null, NEW b \in Pointer, NEW content, Takes(b, content),
         new' = [new EXCEPT !.args[i][f] = b],
         UNCHANGED << calls, list, mine, ctx, faulty >>
  PROVE  MemoryInv' /\ Alive \subseteq DOMAIN heap'
<1>1. i \in 1 .. MaxArgs /\ new'.args = [new.args EXCEPT ![i][f] = b] BY ArgIsTyped
<1>2. new.args \in [1 .. i -> [ArgField -> Pointer]] /\ DOMAIN new.args = 1 .. i
  <2>1. new.args \in Args BY DEF TypeInv, CallType
  <2> QED BY <2>1, ArgsAre DEF i
<1>3. i \in DOMAIN new.args BY <1>1, <1>2
<1>4. \A g \in CallField : new'[g] = new[g] BY DEF TypeInv, CallType, CallField
<1>5. new'.ai_context = new.ai_context BY DEF TypeInv, CallType
<1>6. DOMAIN new'.args = DOMAIN new.args /\ new'.args[i] = [new.args[i] EXCEPT ![f] = b]
      /\ \A m \in DOMAIN new.args : m # i => new'.args[m] = new.args[m]
  BY <1>1, <1>2
<1>7. new.args[i] \in [ArgField -> Pointer] BY <1>2, <1>3
<1>8. new'.args[i][f] = b
      /\ \A m \in DOMAIN new.args, g \in ArgField :
           m # i \/ g # f => new'.args[m][g] = new.args[m][g]
  BY <1>6, <1>7
<1>9. /\ Named(BarePointers(new')) = Named(BarePointers(new)) \cup ({b} \ {Null})
      /\ Separate(BarePointers(new)) /\ b \notin Named(BarePointers(new)) =>
           Separate(BarePointers(new'))
  BY <1>3, <1>4, <1>6, <1>8, ArgIsFilled
<1> QED BY <1>5, <1>9, NewGrows

\* Nobody gets, gives or frees anything.
LEMMA SameMemory ==
  ASSUME TypeInv, MemoryInv, UNCHANGED << heap, faulty, calls, list, mine, new, ctx >>
  PROVE  MemoryInv'
<1>1. Alive' = Alive BY DEF Alive
<1>2. \A o \in Owner \ {} : Owned'[o] = Owned[o] BY <1>1, OthersSame
<1>3. Accounted(Owned, DOMAIN heap) BY DEF MemoryInv
<1>4. \A o \in Owner : Named(Owned'[o]) = Named(Owned[o]) /\ Separate(Owned'[o])
  BY <1>2, <1>3 DEF Accounted
<1>5. Accounted(Owned', DOMAIN heap) BY <1>3, <1>4, SameAccounts
<1> QED BY <1>5 DEF MemoryInv

\* Copying a field, or filling it, adds what it allocates to the call being made.
LEMMA CopyKeepsMemory ==
  ASSUME TypeInv, PcInv, ListInv, MemoryInv, CopyField \/ Fill
  PROVE  MemoryInv' /\ Alive \subseteq DOMAIN heap'
<1>1. pc # "destroy" /\ new.args # << >> BY DEF CopyField, Fill, PcInv, ArgField
<1>2. i \in 0 .. MaxArgs
  <2>1. i \in 1 .. MaxArgs BY <1>1, ArgIsTyped, "data" \in ArgField, Null \in Pointer
        DEF ArgField, Pointer
  <2> QED BY <2>1
<1>3. CASE CopyField
  <2>1. PICK b \in Malloc(pc, k, i) : Dup(b, from[pc]) /\ new' = [new EXCEPT !.args[i][pc] = b]
    BY <1>3 DEF CopyField
  <2>2. pc \in ArgField /\ pc \in Role /\ UNCHANGED << calls, list, mine, ctx, faulty >>
    BY <1>3 DEF CopyField, Role
  <2>3. b \in Pointer BY <1>2, <2>2, MallocGives, CallNumber
  <2>4. Takes(b, from[pc]) BY <2>1, DupTakes
  <2>5. new.args[i][pc] = Null
    <3>1. pc \in Later[pc] BY <2>2 DEF Later, ArgField
    <3> QED BY <2>2, <3>1 DEF PcInv, i
  <2> QED BY <1>1, <2>1, <2>2, <2>3, <2>4, <2>5, LastIsFilled
<1>4. CASE Fill /\ from.isString /\ new.args[i].data = Null
  <2>1. PICK b \in Malloc("data", k, i) : Alloc(b, AINull) /\ new' = [new EXCEPT !.args[i]["data"] = b]
    BY <1>4 DEF Fill
  <2>2. "data" \in ArgField /\ "data" \in Role /\ UNCHANGED << calls, list, mine, ctx, faulty >>
    BY <1>4 DEF Fill, Role, ArgField
  <2>3. b \in Pointer BY <1>2, <2>2, MallocGives, CallNumber
  <2>4. Takes(b, AINull) BY <2>1, AllocTakes
  <2>5. new.args[i]["data"] = Null BY <1>4
  <2> QED BY <1>1, <2>1, <2>2, <2>3, <2>4, <2>5, LastIsFilled
<1>5. CASE Fill /\ ~ (from.isString /\ new.args[i].data = Null)
  <2>1. UNCHANGED << heap, new, calls, list, mine, ctx, faulty >> BY <1>5 DEF Fill
  <2> QED BY <2>1, SameMemory DEF Alive
<1> QED BY <1>3, <1>4, <1>5

\* An argument is kept as it was copied, or all that was copied is freed.
LEMMA KeepKeepsMemory ==
  ASSUME TypeInv, PcInv, ListInv, MemoryInv, Keep
  PROVE  MemoryInv' /\ Alive \subseteq DOMAIN heap'
<1>1. UNCHANGED << heap, calls, list, mine, ctx, faulty >> BY DEF Keep
<1>2. Alive' = Alive BY <1>1 DEF Alive
<1>5. Alive \subseteq DOMAIN heap' BY <1>1 DEF Alive
<1>3. CASE new' = new BY <1>1, <1>3, <1>5, SameMemory
<1>4. CASE new' # new
  <2>1. new' = [new EXCEPT !.args = Append(@, NoArg)] BY <1>4 DEF Keep
  <2>2. /\ new'.args = Append(new.args, NoArg) /\ new'.ai_context = new.ai_context
        /\ \A g \in CallField : new'[g] = new[g]
    BY <2>1 DEF TypeInv, CallType, CallField
  <2>3. new.args \in Args BY DEF TypeInv, CallType
  <2>4. /\ Len(new.args) \in Nat /\ DOMAIN new.args = 1 .. Len(new.args)
        /\ new.args \in Seq([ArgField -> Pointer]) /\ NoArg \in [ArgField -> Pointer]
    BY <2>3, ArgsAre, BoundsAssumption DEF NoArg, Pointer
  <2> DEFINE m == Len(new.args) + 1
  <2>5. /\ DOMAIN new'.args = 1 .. m /\ new'.args[m] = NoArg
        /\ \A n \in DOMAIN new.args : new'.args[n] = new.args[n]
    <3> DEFINE S == [ArgField -> Pointer]
               s == new.args
    <3>1. s \in Seq(S) /\ NoArg \in S BY <2>4
    <3> HIDE DEF S
    <3>2. /\ Append(s, NoArg) \in Seq(S) /\ Len(Append(s, NoArg)) = Len(s) + 1
          /\ \A n \in 1 .. Len(s) : Append(s, NoArg)[n] = s[n]
          /\ Append(s, NoArg)[Len(s) + 1] = NoArg
      BY <3>1, AppendProperties
    <3>3. DOMAIN Append(s, NoArg) = 1 .. Len(Append(s, NoArg)) BY <3>2, LenProperties
    <3> QED BY <2>2, <2>4, <3>2, <3>3
  <2>6. m \notin DOMAIN new.args /\ DOMAIN new'.args = DOMAIN new.args \cup {m}
    BY <2>4, <2>5
  <2> HIDE DEF m
  <2>7. /\ Named(BarePointers(new')) = Named(BarePointers(new))
        /\ Separate(BarePointers(new)) => Separate(BarePointers(new'))
    BY <2>2, <2>5, <2>6, ArgIsAdded
  <2> DEFINE t == << "new", Null >>
  <2>8. Separate(BarePointers(new)) BY NewIsSeparate
  <2>9. Owned[t] = BarePointers(new) /\ Owned'[t] = BarePointers(new') BY OwnedAt, OwnedNext
  <2>10. Alive = DOMAIN calls BY DEF Keep, ListInv, Alive
  <2>11. \A o \in Owner \ {t} : Owned'[o] = Owned[o] BY <1>1, <1>2, <2>2, OthersSame
  <2>12. Accounted(Owned, DOMAIN heap) BY DEF MemoryInv
  <2>13. \A o \in Owner : Separate(Owned[o]) BY <2>12 DEF Accounted
  <2>14. \A o \in Owner : Named(Owned'[o]) = Named(Owned[o]) /\ Separate(Owned'[o])
    BY <2>7, <2>8, <2>9, <2>11, <2>13
  <2>15. Accounted(Owned', DOMAIN heap) BY <2>12, <2>14, SameAccounts
  <2> QED BY <1>1, <1>5, <2>15 DEF MemoryInv
<1> QED BY <1>3, <1>4

\* Without allocation, only ownership of a context can change.
LEMMA GiveKeepsMemory ==
  ASSUME TypeInv, PcInv, ListInv, MemoryInv, GiveToList
  PROVE  MemoryInv' /\ Alive \subseteq DOMAIN heap'
<1> DEFINE s == << "mine", Null >>
           t == << "list", Null >>
<1>1. /\ list.global_ai_context = Null /\ mine' = Null
      /\ UNCHANGED << heap, faulty, calls, new, ctx >>
      /\ list'.global_ai_context = mine
  BY DEF GiveToList, TypeInv, ListType
<1>2. Alive' = Alive BY <1>1 DEF Alive
<1>3. s \in Owner /\ t \in Owner /\ s # t BY OwnersNamed
<1>4. \A o \in Owner \ {s, t} : Owned'[o] = Owned[o] BY <1>1, <1>2, OthersSame
<1>5. Owned[t] = << >> /\ Owned'[s] = << >> /\ Owned'[t] = Owned[s]
  BY <1>1, OwnedAt, OwnedNext, NoPointers
<1>6. Named(Owned[t]) = {} /\ Named(Owned'[s]) = {} /\ Separate(Owned'[s]) BY <1>5, NoPointers
<1>7. Accounted(Owned, DOMAIN heap) /\ ~ faulty BY DEF MemoryInv
<1> HIDE DEF s, t
<1>8. Accounted(Owned', DOMAIN heap) BY <1>3, <1>4, <1>5, <1>6, <1>7, AccountsMove
<1>9. Alive \subseteq DOMAIN heap' BY <1>1 DEF Alive
<1> QED BY <1>1, <1>7, <1>8, <1>9 DEF MemoryInv

\* The context of the test is freed.
LEMMA DestroyContextKeepsMemory ==
  ASSUME TypeInv, PcInv, ListInv, MemoryInv, DestroyContext
  PROVE  MemoryInv' /\ Alive \subseteq DOMAIN heap'
<1> DEFINE t == << "mine", Null >>
<1>1. /\ Free(ContextPointers(mine)) /\ mine' = Null
      /\ UNCHANGED << calls, list, new, ctx >>
  BY DEF DestroyContext
<1>2. t \in Owner /\ \A b \in CallBlock : t # << "call", b >> BY OwnersNamed
<1>3. Owned[t] = ContextPointers(mine) /\ Owned'[t] = << >>
  BY <1>1, OwnedAt, OwnedNext, NoPointers
<1>4. Separate(ContextPointers(mine)) BY <1>2, <1>3 DEF MemoryInv, Accounted
<1>5. ~ faulty' /\ Alive' = Alive
      /\ DOMAIN heap' = DOMAIN heap \ UNION {Named(Owned[o]) : o \in {t}}
  BY <1>1, <1>2, <1>3, <1>4, FreeOne
<1>6. \A o \in Owner \ {t} : Owned'[o] = Owned[o] BY <1>1, <1>5, OthersSame
<1>7. Named(Owned'[t]) = {} /\ Separate(Owned'[t]) BY <1>3, NoPointers
<1>20. Alive \subseteq DOMAIN heap' BY <1>5 DEF Alive
<1> HIDE DEF t
<1> QED BY <1>2, <1>5, <1>6, <1>7, <1>20, OneIsFreed

\* The context that a new one replaces is freed first.
LEMMA SetContextKeepsMemory ==
  ASSUME TypeInv, PcInv, ListInv, MemoryInv, SetContext
  PROVE  MemoryInv' /\ Alive \subseteq DOMAIN heap'
<1>1. PICK c \in DOMAIN calls, x \in {mine, list.global_ai_context} :
        /\ Free(ContextPointers(calls[c].ai_context))
        /\ calls' = [calls EXCEPT ![c].ai_context = Null]
        /\ IF x = Null THEN Return ELSE UNCHANGED << new, ctx >>
  BY DEF SetContext
<1> DEFINE t == << "call context", c >>
<1>2. new = NoCall /\ ctx = Null /\ pc = "idle" BY DEF SetContext, Idle, PcInv
<1>3. UNCHANGED << list, mine >> /\ new' = new /\ ctx' = ctx
  BY <1>1, <1>2 DEF SetContext, Return
<1>4. Alive = DOMAIN calls BY <1>2 DEF ListInv, Alive
<1>5. c \in CallBlock /\ calls[c] \in CallType BY DEF TypeInv
<1>6. t \in Owner /\ \A b \in CallBlock : t # << "call", b >> BY <1>5, OwnersNamed
<1>7. DOMAIN calls' = DOMAIN calls /\ calls'[c].ai_context = Null
      /\ BarePointers(calls'[c]) = BarePointers(calls[c])
      /\ \A b \in DOMAIN calls \ {c} : calls'[b] = calls[b]
  <2>1. calls'[c] = [calls[c] EXCEPT !.ai_context = Null] /\ DOMAIN calls' = DOMAIN calls
        /\ \A b \in DOMAIN calls \ {c} : calls'[b] = calls[b]
    BY <1>1 DEF TypeInv
  <2>2. /\ calls'[c].ai_context = Null /\ calls'[c].args = calls[c].args
        /\ \A f \in CallField : calls'[c][f] = calls[c][f]
    BY <1>5, <2>1 DEF CallType, CallField
  <2> QED BY <2>1, <2>2, SameBare
<1>8. Owned[t] = ContextPointers(calls[c].ai_context) /\ Owned'[t] = << >>
  BY <1>4, <1>5, <1>7, OwnedAt, OwnedNext, NoPointers
<1>9. Separate(ContextPointers(calls[c].ai_context)) BY <1>6, <1>8 DEF MemoryInv, Accounted
<1>10. ~ faulty' /\ Alive' = Alive
      /\ DOMAIN heap' = DOMAIN heap \ UNION {Named(Owned[o]) : o \in {t}}
  BY <1>1, <1>6, <1>7, <1>8, <1>9, FreeOne
<1>11. \A o \in Owner \ {t} : Owned'[o] = Owned[o] BY <1>3, <1>4, <1>7, <1>10, OthersSame
<1>12. Named(Owned'[t]) = {} /\ Separate(Owned'[t]) BY <1>8, NoPointers
<1>20. Alive \subseteq DOMAIN heap' BY <1>10 DEF Alive
<1> HIDE DEF t
<1> QED BY <1>6, <1>10, <1>11, <1>12, <1>20, OneIsFreed

\* When all calls are freed, so is the context of the list.
LEMMA DestroyListKeepsMemory ==
  ASSUME TypeInv, PcInv, ListInv, MemoryInv, DestroyList
  PROVE  MemoryInv' /\ Alive \subseteq DOMAIN heap'
<1> DEFINE t == << "list", Null >>
           p == ContextPointers(list.global_ai_context)
<1>1. /\ Free(p) /\ calls' = << >> /\ list'.global_ai_context = Null
      /\ UNCHANGED << mine, new, ctx >>
  BY DEF DestroyList
<1>2. t \in Owner /\ \A b \in CallBlock : t # << "call", b >> BY OwnersNamed
<1>3. Owned[t] = p /\ Owned'[t] = << >> BY <1>1, OwnedAt, OwnedNext, NoPointers
<1>4. Separate(p) BY <1>2, <1>3 DEF MemoryInv, Accounted
<1>5. Alive = {} /\ Alive' = {} BY <1>1, DestroyIsAt DEF DestroyList, Alive
<1>6. \A o \in Owner \ {t} : Owned'[o] = Owned[o] BY <1>1, <1>5, OthersSame
<1>7. ~ faulty' /\ DOMAIN heap' = DOMAIN heap \ UNION {Named(Owned[o]) : o \in {t}}
  <2>1. Named(p) = UNION {Named(Owned[o]) : o \in {t}} BY <1>3
  <2>2. {t} \in SUBSET Owner BY <1>2
  <2> HIDE DEF p, t
  <2> QED BY <1>1, <1>4, <2>1, <2>2, FreeGives
<1>8. Named(Owned'[t]) = {} /\ Separate(Owned'[t]) BY <1>3, NoPointers
<1> HIDE DEF t
<1> QED BY <1>2, <1>5, <1>6, <1>7, <1>8, OneIsFreed

\* The block of a context and its texts.
LEMMA ContextKeepsMemory ==
  ASSUME TypeInv, PcInv, ListInv, MemoryInv, ContextBlock \/ ContextField
  PROVE  MemoryInv' /\ Alive \subseteq DOMAIN heap'
<1> DEFINE s == << "context", Null >>
<1>1. /\ pc \in Making /\ pc # "destroy" /\ UNCHANGED << faulty, list >>
      /\ s \in Owner
  BY OwnersNamed DEF ContextBlock, ContextField, Making, CtxField
<1>2. Alive = DOMAIN calls /\ DOMAIN calls \subseteq DOMAIN heap BY <1>1 DEF ListInv, Alive
<1>3. Accounted(Owned, DOMAIN heap) /\ ~ faulty BY DEF MemoryInv
<1>4. Owned[s] = ContextPointers(ctx) BY OwnedAt
<1>5. Separate(Owned[s]) /\ Named(Owned[s]) \subseteq DOMAIN heap BY <1>1, <1>3 DEF Accounted
<1>6. ASSUME NEW b \in Pointer, NEW content, Takes(b, content), NEW c,
             Named(ContextPointers(c)) = Named(ContextPointers(ctx)) \cup ({b} \ {Null}),
             Separate(ContextPointers(ctx)) /\ b \notin Named(ContextPointers(ctx)) =>
               Separate(ContextPointers(c))
      PROVE  \E g : /\ Accounted(g, DOMAIN heap')
                    /\ g[s] = ContextPointers(c)
                    /\ \A o \in Owner \ {s} : g[o] = Owned[o]
  <2> DEFINE g == [o \in Owner |-> IF o = s THEN ContextPointers(c) ELSE Owned[o]]
  <2>1. g[s] = ContextPointers(c) /\ \A o \in Owner \ {s} : g[o] = Owned[o] BY <1>1
  <2> HIDE DEF g, s
  <2>2. CASE b = Null
    <3>1. Null \notin Named(ContextPointers(ctx)) BY DEF Named
    <3>2. Named(g[s]) = Named(Owned[s]) /\ Separate(g[s]) BY <1>4, <1>5, <1>6, <2>1, <2>2, <3>1
    <3>3. \A o \in Owner : Named(g[o]) = Named(Owned[o]) /\ Separate(g[o])
      BY <1>3, <2>1, <3>2 DEF Accounted
    <3>4. Accounted(g, DOMAIN heap) BY <1>3, <3>3, SameAccounts
    <3>5. heap' = heap BY <1>6, <2>2 DEF Takes
    <3> QED BY <2>1, <3>4, <3>5
  <2>3. CASE b # Null
    <3>1. b \notin DOMAIN heap /\ DOMAIN heap' = DOMAIN heap \cup {b} BY <1>6, <2>3 DEF Takes
    <3>2. Named(g[s]) = Named(Owned[s]) \cup {b} /\ Separate(g[s])
      BY <1>4, <1>5, <1>6, <2>1, <2>3, <3>1
    <3>3. Accounted(g, DOMAIN heap \cup {b}) BY <1>1, <1>3, <2>1, <3>1, <3>2, AccountsGrow
    <3> QED BY <2>1, <3>1, <3>3
  <2> QED BY <2>2, <2>3
<1>7. ASSUME NEW c, Deliver(c), NEW g, Accounted(g, DOMAIN heap'), g[s] = ContextPointers(c),
             \A o \in Owner \ {s} : g[o] = Owned[o], DOMAIN heap \subseteq DOMAIN heap'
      PROVE  MemoryInv' /\ Alive \subseteq DOMAIN heap'
  <2>1. DOMAIN calls \subseteq DOMAIN heap' BY <1>2, <1>7
  <2>2. Accounted(Owned', DOMAIN heap') BY <1>1, <1>7, <2>1, DeliverMoves
  <2>3. Alive \subseteq DOMAIN heap' BY <1>7 DEF Alive
  <2> QED BY <1>1, <1>3, <2>2, <2>3 DEF MemoryInv
<1>8. ASSUME NEW b, NEW content, Takes(b, content), UNCHANGED << calls, mine, new >>,
             NEW g, Accounted(g, DOMAIN heap'), g[s] = ContextPointers(ctx'),
             \A o \in Owner \ {s} : g[o] = Owned[o]
      PROVE  MemoryInv' /\ Alive \subseteq DOMAIN heap'
  <2>1. Alive' = Alive BY <1>1, <1>8, AliveStays
  <2>2. \A o \in Owner \ {s} : Owned'[o] = Owned[o] BY <1>1, <1>2, <1>8, <2>1, OthersSame
  <2>3. Owned'[s] = ContextPointers(ctx') BY OwnedNext
  <2>4. \A o \in Owner : Owned'[o] = g[o] BY <1>8, <2>2, <2>3
  <2>5. \A o \in Owner : Separate(g[o]) BY <1>8 DEF Accounted
  <2>6. \A o \in Owner : Named(Owned'[o]) = Named(g[o]) /\ Separate(Owned'[o]) BY <2>4, <2>5
  <2>7. Accounted(Owned', DOMAIN heap') BY <1>8, <2>6, SameAccounts
  <2>8. Alive \subseteq DOMAIN heap' BY <2>1 DEF Alive
  <2> QED BY <1>1, <1>3, <2>7, <2>8 DEF MemoryInv
<1>9. ASSUME NEW b, NEW content, Takes(b, content) PROVE DOMAIN heap \subseteq DOMAIN heap'
  BY <1>9 DEF Takes
<1>10. CASE ContextBlock
  <2>1. PICK b \in Malloc("context", k, 0) :
          /\ Alloc(b, Node)
          /\ IF b = Null THEN Deliver(Null)
             ELSE /\ ctx' = [x \in CtxField \cup {"block"} |-> IF x = "block" THEN b ELSE Null]
                  /\ UNCHANGED << calls, mine, new >>
    BY <1>10 DEF ContextBlock
  <2>2. ctx = Null BY <1>10 DEF ContextBlock, PcInv
  <2>3. b \in Pointer BY MallocGives, CallNumber, BoundsAssumption DEF Role
  <2>4. Takes(b, Node) BY <2>1, AllocTakes
  <2> HIDE DEF s
  <2>5. CASE b = Null
    <3>1. /\ Named(ContextPointers(Null)) = Named(ContextPointers(ctx)) \cup ({b} \ {Null})
          /\ Separate(ContextPointers(Null))
      BY <2>2, <2>5, NoPointers
    <3>2. PICK g : /\ Accounted(g, DOMAIN heap') /\ g[s] = ContextPointers(Null)
                   /\ \A o \in Owner \ {s} : g[o] = Owned[o]
      BY <1>6, <2>3, <2>4, <3>1
    <3> QED BY <1>7, <1>9, <2>1, <2>4, <2>5, <3>2
  <2>6. CASE b # Null
    <3>1. /\ Named(ContextPointers(ctx')) = Named(ContextPointers(ctx)) \cup ({b} \ {Null})
          /\ Separate(ContextPointers(ctx'))
      <4>1. Named(ContextPointers(ctx')) = {b} /\ Separate(ContextPointers(ctx'))
        BY <2>1, <2>3, <2>6, ContextIsMade
      <4>2. Named(ContextPointers(ctx)) = {} BY <2>2, NoPointers
      <4> QED BY <2>6, <4>1, <4>2
    <3>2. PICK g : /\ Accounted(g, DOMAIN heap') /\ g[s] = ContextPointers(ctx')
                   /\ \A o \in Owner \ {s} : g[o] = Owned[o]
      BY <1>6, <2>3, <2>4, <3>1
    <3> QED BY <1>8, <2>1, <2>4, <2>6, <3>2
  <2> QED BY <2>5, <2>6
<1>11. CASE ContextField
  <2>1. PICK b \in Malloc(pc, k, 0) :
          /\ Dup(b, given.texts[pc])
          /\ IF pc = "ai_notes" THEN Deliver([ctx EXCEPT ![pc] = b])
             ELSE ctx' = [ctx EXCEPT ![pc] = b] /\ UNCHANGED << calls, mine, new >>
    BY <1>11 DEF ContextField
  <2>2. pc \in CtxField /\ pc \in Role /\ 0 \in 0 .. MaxArgs
    BY <1>11, BoundsAssumption DEF ContextField, Role
  <2>3. b \in Pointer BY <2>2, MallocGives, CallNumber
  <2>4. Takes(b, given.texts[pc]) BY <2>1, DupTakes
  <2>5. ctx \in ContextType /\ ctx[pc] = Null
    <3>1. pc \in Later[pc] BY <2>2 DEF Later, CtxField
    <3> QED BY <2>2, <3>1 DEF PcInv, TypeInv
  <2> DEFINE c == [ctx EXCEPT ![pc] = b]
  <2>6. c \in ContextType BY <2>2, <2>3, <2>5 DEF ContextType
  <2>7. /\ Named(ContextPointers(c)) = Named(ContextPointers(ctx)) \cup ({b} \ {Null})
        /\ Separate(ContextPointers(ctx)) /\ b \notin Named(ContextPointers(ctx)) =>
             Separate(ContextPointers(c))
    BY <2>2, <2>5, <2>6, ContextIsFilled
  <2> HIDE DEF c, s
  <2>8. PICK g : /\ Accounted(g, DOMAIN heap') /\ g[s] = ContextPointers(c)
                 /\ \A o \in Owner \ {s} : g[o] = Owned[o]
    BY <1>6, <2>3, <2>4, <2>7
  <2>9. CASE pc = "ai_notes"
    <3>1. Deliver(c) BY <2>1, <2>9 DEF c
    <3> QED BY <1>7, <1>9, <2>4, <2>8, <3>1
  <2>10. CASE pc # "ai_notes"
    <3>1. ctx' = c /\ UNCHANGED << calls, mine, new >> BY <2>1, <2>10 DEF c
    <3> QED BY <1>8, <2>4, <2>8, <3>1
  <2> QED BY <2>9, <2>10
<1> QED BY <1>10, <1>11

\* No step loses a block, and none frees one twice.
LEMMA MemoryStep ==
  ASSUME TypeInv, PcInv, ListInv, MemoryInv, [Next]_vars
  PROVE  MemoryInv' /\ (DestroyCall \/ Alive \subseteq DOMAIN heap')
<1>1. CASE Undo
  <2>1. /\ new.ai_context = Null /\ ctx = Null /\ Free(BarePointers(new)) /\ Return
        /\ UNCHANGED << calls, list, mine >>
    BY <1>1 DEF Undo, PcInv, Adding
  <2>2. Separate(BarePointers(new)) BY NewIsSeparate
  <2> QED BY <2>1, <2>2, NewIsGivenUp
<1>2. CASE CreateContext \/ Destroy \/ UNCHANGED vars
  BY <1>2, SameMemory DEF CreateContext, Destroy, vars, Alive
<1> QED
  BY <1>1, <1>2, AddCallKeepsMemory, NameKeepsMemory, ArgumentsKeepMemory, CopyKeepsMemory,
     KeepKeepsMemory, AppendMoves, SetContextKeepsMemory, ContextKeepsMemory,
     DestroyContextKeepsMemory, GiveKeepsMemory, CallIsFreed, DestroyListKeepsMemory DEF Next

-----------------------------------------------------------------------------
(* The list is a chain                                                     *)

\* An order that the calls are linked in is the chain.
LEMMA OrderIsChain ==
  ASSUME NEW l, NEW cs, NEW order, Linked(l, cs, order), l.size \in Nat
  PROVE  (CHOOSE ch : ch = [n \in 1 .. l.size |-> IF n = 1 THEN l.head ELSE cs[ch[n - 1]].next])
           = order
<1> DEFINE D == 1 .. l.size
           Follows(ch) == ch = [n \in D |-> IF n = 1 THEN l.head ELSE cs[ch[n - 1]].next]
           c == CHOOSE ch : Follows(ch)
<1>1. Follows(order)
  <2>1. order = [n \in D |-> order[n]] BY DEF Linked
  <2>2. ASSUME NEW n \in D PROVE order[n] = IF n = 1 THEN l.head ELSE cs[order[n - 1]].next
    <3>1. CASE n = 1 BY <3>1 DEF Linked
    <3>2. CASE n # 1
      <4>1. n - 1 \in 1 .. l.size - 1 BY <3>2
      <4>2. cs[order[n - 1]].next = order[(n - 1) + 1] BY <4>1 DEF Linked
      <4> QED BY <3>2, <4>2
    <3> QED BY <3>1, <3>2
  <2> HIDE DEF D
  <2> QED BY <2>1, <2>2
<1>2. Follows(c) BY <1>1
<1>3. ASSUME NEW f, NEW g, Follows(f), Follows(g) PROVE f = g
  <2> DEFINE Differ == {n \in Nat : n \in D /\ f[n] # g[n]}
  <2>1. SUFFICES ASSUME Differ # {} PROVE FALSE
    <3>1. \A n \in D : f[n] = g[n] BY <2>1
    <3>2. f = [n \in D |-> f[n]] BY <1>3
    <3>3. g = [n \in D |-> g[n]] BY <1>3
    <3> HIDE DEF Follows, D
    <3> QED BY <3>1, <3>2, <3>3
  <2>6. Differ \subseteq Nat OBVIOUS
  <2>7. \A m \in D : m \in Nat /\ (f[m] # g[m] => m \in Differ) OBVIOUS
  <2>8. \A m \in Differ : m \in D /\ f[m] # g[m] OBVIOUS
  <2> HIDE DEF Differ
  <2>2. PICK n \in Differ : \A m \in Differ : ~ (<< m, n >> \in OpToRel(<, Nat))
    BY <2>1, <2>6, NatLessThanWellFounded, WFMin
  <2>9. \A m \in Differ : ~ (m < n) BY <2>2, <2>6 DEF OpToRel
  <2>3. \A m \in D : m < n => f[m] = g[m] BY <2>7, <2>9
  <2>4. CASE n = 1 BY <1>3, <2>4, <2>8
  <2>5. CASE n # 1
    <3>1. n - 1 \in D /\ n - 1 < n BY <2>5, <2>8
    <3>2. f[n - 1] = g[n - 1] BY <2>3, <3>1
    <3>3. f[n] = cs[f[n - 1]].next /\ g[n] = cs[g[n - 1]].next BY <1>3, <2>5, <2>8
    <3> QED BY <2>8, <3>2, <3>3
  <2> QED BY <2>4, <2>5
<1>4. c = order
  <2> HIDE DEF Follows, c
  <2> QED BY <1>1, <1>2, <1>3
<1> QED BY <1>4

\* The chain of the list is the only order its calls are linked in.
LEMMA ChainIs ==
  ASSUME NEW order, Linked(list, calls, order), list.size \in Nat
  PROVE  Chain = order
BY OrderIsChain DEF Chain

\* The same after a step.
LEMMA ChainNext ==
  ASSUME NEW order, Linked(list', calls', order), list'.size \in Nat
  PROVE  Chain' = order
BY OrderIsChain DEF Chain

\* What a step that leaves the pointers next alone keeps.
LEMMA SameChain ==
  ASSUME TypeInv, ListInv, list'.head = list.head, list'.tail = list.tail, list'.size = list.size,
         DOMAIN calls' = DOMAIN calls, \A b \in DOMAIN calls : calls'[b].next = calls[b].next
  PROVE  Chain' = Chain /\ Linked(list', calls', Chain')
<1> DEFINE order == Chain
<1>1. Linked(list, calls, order) /\ list.size \in Nat BY DEF ListInv, TypeInv, ListType
<1> HIDE DEF order
<1>2. order \in [1 .. list'.size -> DOMAIN calls'] BY <1>1 DEF Linked
<1>3. list'.size > 0 => calls'[order[list'.size]].next = Null
  <2>1. list.size > 0 => order[list.size] \in DOMAIN calls BY <1>1 DEF Linked
  <2> QED BY <1>1, <2>1 DEF Linked
<1>4. \A n \in 1 .. list'.size - 1 : calls'[order[n]].next = order[n + 1]
  <2>1. \A n \in 1 .. list.size - 1 : order[n] \in DOMAIN calls BY <1>1 DEF Linked
  <2> QED BY <1>1, <2>1 DEF Linked
<1>5. Linked(list', calls', order) BY <1>1, <1>2, <1>3, <1>4 DEF Linked
<1>6. Chain' = order BY <1>1, <1>5, ChainNext
<1> QED BY <1>5, <1>6 DEF order

\* The call appended is the last of the chain.
LEMMA AppendExtends ==
  ASSUME TypeInv, PcInv, ListInv, MemoryInv, AppendCall
  PROVE  /\ Chain' = [n \in 1 .. list.size + 1 |-> IF n <= list.size THEN Chain[n] ELSE new.call]
         /\ Linked(list', calls', Chain')
<1> DEFINE b == new.call
           size == list.size
           order == [n \in 1 .. size + 1 |-> IF n <= size THEN Chain[n] ELSE b]
<1>1. Linked(list, calls, Chain) /\ list.size \in Nat /\ list \in ListType
  BY DEF ListInv, TypeInv, ListType
<1>2. b \notin DOMAIN calls /\ b # Null /\ new.next = Null
  BY AppendMoves DEF AppendCall, PcInv, Adding
<1>3. DOMAIN calls' = DOMAIN calls \cup {b} /\ calls'[b] = new
      /\ \A x \in DOMAIN calls :
           calls'[x].next = IF x = list.tail THEN b ELSE calls[x].next
  <2>1. calls' = With(new) BY DEF AppendCall, AppendTo
  <2>2. \A x \in DOMAIN calls : calls[x] \in CallType BY DEF TypeInv
  <2>3. \A x \in DOMAIN calls :
          calls'[x] = IF x = list.tail THEN [calls[x] EXCEPT !.next = b] ELSE calls[x]
    BY <1>2, <2>1 DEF With
  <2>4. \A x \in DOMAIN calls :
          calls'[x].next = IF x = list.tail THEN b ELSE calls[x].next
    BY <2>2, <2>3 DEF CallType
  <2> QED BY <2>1, <2>4 DEF With
<1>4. list'.size = size + 1 /\ list'.tail = b
      /\ list'.head = IF list.tail = Null THEN b ELSE list.head
  BY <1>1 DEF AppendCall, AppendTo, ListType
<1>5. \A n \in 1 .. size : Chain[n] \in DOMAIN calls /\ Chain[n] # b BY <1>1, <1>2 DEF Linked
<1>6. order \in [1 .. list'.size -> DOMAIN calls'] BY <1>1, <1>3, <1>4, <1>5
<1>7. (\A n \in 1 .. size : order[n] = Chain[n]) /\ order[size + 1] = b BY <1>1
<1>8. \A n, m \in 1 .. list'.size : order[n] = order[m] => n = m
  <2>1. \A n, m \in 1 .. size : Chain[n] = Chain[m] => n = m BY <1>1 DEF Linked
  <2>2. \A n \in 1 .. list'.size : n \in 1 .. size \/ n = size + 1 BY <1>1, <1>4
  <2> HIDE DEF order
  <2> QED BY <1>5, <1>7, <2>1, <2>2
<1>9. \A x \in DOMAIN calls' : \E n \in 1 .. list'.size : order[n] = x
  <2>1. \A x \in DOMAIN calls : \E n \in 1 .. size : Chain[n] = x BY <1>1 DEF Linked
  <2>2. \A n \in 1 .. size : n \in 1 .. list'.size BY <1>1, <1>4
  <2>3. size + 1 \in 1 .. list'.size BY <1>1, <1>4
  <2> HIDE DEF order
  <2> QED BY <1>3, <1>7, <2>1, <2>2, <2>3
<1>10. list'.head = order[1]
  <2>1. CASE size = 0 BY <1>1, <1>4, <1>7, <2>1 DEF Linked
  <2>2. CASE size > 0
    <3>1. list.tail = Chain[size] /\ list.head = Chain[1] /\ Chain[size] \in DOMAIN calls
      BY <1>1, <1>5, <2>2 DEF Linked
    <3>2. list.tail # Null BY <3>1 DEF ListInv
    <3> HIDE DEF order
    <3> QED BY <1>1, <1>4, <1>7, <2>2, <3>1, <3>2
  <2> QED BY <1>1, <2>1, <2>2
<1>11. calls'[order[list'.size]].next = Null BY <1>2, <1>3, <1>4, <1>7
<1>12. ASSUME NEW n \in 1 .. list'.size - 1 PROVE calls'[order[n]].next = order[n + 1]
  <2>1. n \in 1 .. size /\ order[n] = Chain[n] /\ Chain[n] \in DOMAIN calls
    BY <1>1, <1>4, <1>5, <1>7, <1>12
  <2>2. CASE n = size
    <3>1. list.tail = Chain[n] BY <1>1, <2>1, <2>2 DEF Linked
    <3> HIDE DEF order
    <3> QED BY <1>3, <1>7, <2>1, <2>2, <3>1
  <2>3. CASE n < size
    <3>1. n \in 1 .. size - 1 /\ n + 1 \in 1 .. size /\ size \in 1 .. size BY <1>1, <2>1, <2>3
    <3>2. Chain[n] # list.tail
      <4>1. list.tail = Chain[size] /\ n # size BY <1>1, <2>1, <2>3 DEF Linked
      <4>2. \A x, y \in 1 .. size : Chain[x] = Chain[y] => x = y BY <1>1 DEF Linked
      <4> QED BY <2>1, <3>1, <4>1, <4>2
    <3>3. calls[Chain[n]].next = Chain[n + 1] BY <1>1, <3>1 DEF Linked
    <3>4. order[n + 1] = Chain[n + 1] BY <1>7, <3>1
    <3> HIDE DEF order
    <3> QED BY <1>3, <2>1, <3>2, <3>3, <3>4
  <2> QED BY <1>1, <2>1, <2>2, <2>3
<1>13. list'.size \in Nat /\ list'.size > 0 BY <1>1, <1>4
<1>14. list'.tail = order[list'.size] BY <1>4, <1>7
<1>15. Linked(list', calls', order)
  <2> HIDE DEF order
  <2> QED BY <1>6, <1>8, <1>9, <1>10, <1>11, <1>12, <1>13, <1>14 DEF Linked
<1>16. Chain' = order
  <2> HIDE DEF order
  <2> QED BY <1>13, <1>15, ChainNext
<1> QED BY <1>15, <1>16

\* What destroy and the log see of a call.
SameCall(c, d) == d.next = c.next /\ d.function_name = c.function_name /\ d.args = c.args

\* Steps other than those of add_call's end and of destroy leave the chain alone.
LEMMA ChainStays ==
  ASSUME TypeInv, PcInv, [Next]_vars, ~ AppendCall, ~ DestroyList
  PROVE  /\ list'.head = list.head /\ list'.tail = list.tail /\ list'.size = list.size
         /\ DOMAIN calls' = DOMAIN calls
         /\ \A b \in DOMAIN calls : SameCall(calls[b], calls'[b])
         /\ pc' = "destroy" => Destroy \/ (pc = "destroy" /\ (DestroyCall \/ UNCHANGED vars))
<1> USE DEF SameCall
<1>1. ASSUME NEW c, NEW x, calls' = [calls EXCEPT ![c].ai_context = x]
      PROVE  /\ DOMAIN calls' = DOMAIN calls
             /\ \A b \in DOMAIN calls : SameCall(calls[b], calls'[b])
  BY <1>1 DEF TypeInv, CallType
<1>2. ASSUME pc \in Making, NEW c, Deliver(c)
      PROVE  /\ DOMAIN calls' = DOMAIN calls
             /\ \A b \in DOMAIN calls : SameCall(calls[b], calls'[b])
             /\ pc' # "destroy"
  <2>1. CASE given.for = "attach" BY <2>1, <1>2 DEF Deliver
  <2>2. CASE given.for = "set" BY <2>2, <1>1, <1>2 DEF Deliver, Return
  <2>3. CASE given.for = "create" BY <2>3, <1>2 DEF Deliver, Return
  <2> QED BY <1>2, <2>1, <2>2, <2>3 DEF PcInv
<1>3. CASE AddCall BY <1>3 DEF AddCall, Return
<1>4. CASE Name BY <1>4 DEF Name, Return, Attach
<1>5. CASE Arguments BY <1>5 DEF Arguments, Return
<1>6. CASE CopyField
  <2>1. pc' = NextField[pc] /\ pc \in ArgField /\ list' = list /\ calls' = calls
    BY <1>6 DEF CopyField
  <2>2. pc' # "destroy" BY <2>1 DEF NextField, ArgField
  <2> QED BY <2>1, <2>2
<1>7. CASE Fill BY <1>7 DEF Fill
<1>8. CASE Undo BY <1>8 DEF Undo, Return
<1>9. CASE Keep BY <1>9 DEF Keep, Attach
<1>10. CASE CreateContext BY <1>10 DEF CreateContext
<1>11. CASE SetContext
  <2>1. list' = list /\ pc' # "destroy" BY <1>11 DEF SetContext, Return
  <2>2. PICK c \in DOMAIN calls : calls' = [calls EXCEPT ![c].ai_context = Null]
    BY <1>11 DEF SetContext
  <2> QED BY <1>1, <2>1, <2>2
<1>12. CASE ContextBlock
  <2>1. list' = list /\ pc \in Making BY <1>12 DEF ContextBlock, Making
  <2>2. PICK b : IF b = Null THEN Deliver(Null)
                 ELSE /\ pc' = "context_info"
                      /\ UNCHANGED << calls, mine, new >>
    BY <1>12 DEF ContextBlock
  <2>3. CASE b = Null BY <1>2, <2>1, <2>2, <2>3
  <2>4. CASE b # Null BY <2>1, <2>2, <2>4
  <2> QED BY <2>3, <2>4
<1>13. CASE ContextField
  <2>1. list' = list /\ pc \in Making BY <1>13 DEF ContextField, Making
  <2>2. \/ \E b : Deliver([ctx EXCEPT ![pc] = b])
        \/ calls' = calls /\ pc' # "destroy"
    BY <1>13 DEF ContextField
  <2> QED BY <1>2, <2>1, <2>2
<1>14. CASE DestroyContext BY <1>14 DEF DestroyContext, Idle
<1>15. CASE GiveToList
  <2>1. /\ list'.head = list.head /\ list'.tail = list.tail /\ list'.size = list.size
    BY <1>15 DEF GiveToList, TypeInv, ListType
  <2> QED BY <1>15, <2>1 DEF GiveToList, Idle
<1>16. CASE Destroy
  <2>1. list' = list /\ calls' = calls BY <1>16 DEF Destroy
  <2> QED BY <1>16, <2>1
<1>17. CASE DestroyCall BY <1>17 DEF DestroyCall
<1>18. CASE UNCHANGED vars BY <1>18 DEF vars
<1> QED
  BY <1>3, <1>4, <1>5, <1>6, <1>7, <1>8, <1>9, <1>10, <1>11, <1>12, <1>13, <1>14, <1>15,
     <1>16, <1>17, <1>18 DEF Next

\* destroy goes from one call of the chain to the next.
LEMMA DestroyGoesOn ==
  ASSUME TypeInv, PcInv, ListInv, MemoryInv, DestroyCall, Chain' = Chain
  PROVE  \E n \in 1 .. list'.size + 1 : DestroyingAt(n)'
<1>1. PICK n \in 1 .. list.size + 1 : DestroyingAt(n) BY DEF DestroyCall, ListInv
<1>2. Linked(list, calls, Chain) /\ list.size \in Nat /\ Null \notin DOMAIN calls
  BY DEF ListInv, TypeInv, ListType
<1>3. /\ current # Null /\ current' = calls[current].next /\ list' = list /\ calls' = calls
  BY DEF DestroyCall
<1>4. n <= list.size /\ current = Chain[n] BY <1>1, <1>3 DEF DestroyingAt
<1>5. n \in 1 .. list.size /\ n + 1 \in 1 .. list.size + 1 BY <1>1, <1>2, <1>4
<1>6. current' = IF n + 1 <= list.size THEN Chain[n + 1] ELSE Null
  <2>1. CASE n = list.size BY <1>2, <1>3, <1>4, <2>1 DEF Linked
  <2>2. CASE n # list.size
    <3>1. n \in 1 .. list.size - 1 BY <1>2, <1>5, <2>2
    <3>2. calls[Chain[n]].next = Chain[n + 1] BY <1>2, <3>1 DEF Linked
    <3> QED BY <1>2, <1>3, <1>4, <3>1, <3>2
  <2> QED BY <2>1, <2>2
<1>7. ASSUME NEW m \in 1 .. list.size PROVE Chain[m] \in DOMAIN heap' <=> n + 1 <= m
  <2>1. Chain[m] \in DOMAIN calls BY <1>2 DEF Linked
  <2>2. Chain[m] \in DOMAIN heap <=> n <= m BY <1>1 DEF DestroyingAt
  <2>3. Chain[m] = Chain[n] <=> m = n BY <1>2, <1>5 DEF Linked
  <2>4. Alive' = Alive \ {current} BY CallIsFreed
  <2>5. Chain[m] \in DOMAIN heap' <=> Chain[m] \in DOMAIN heap /\ Chain[m] # current
    BY <1>3, <2>1, <2>4 DEF Alive
  <2> QED BY <1>2, <1>4, <2>2, <2>3, <2>5
<1>8. DestroyingAt(n + 1)' BY <1>3, <1>6, <1>7 DEF DestroyingAt
<1> QED BY <1>3, <1>5, <1>8

\* The chain leads through all calls before and after every step.
LEMMA ListStep ==
  ASSUME TypeInv, PcInv, ListInv, MemoryInv, [Next]_vars
  PROVE  ListInv'
<1>1. Linked(list, calls, Chain) /\ list.size \in Nat /\ Null \notin DOMAIN calls
  BY DEF ListInv, TypeInv, ListType
<1>2. CASE AppendCall
  <2>1. pc = "append" /\ heap' = heap /\ pc' = "idle" /\ calls' = With(new)
    BY <1>2 DEF AppendCall, AppendTo, Return
  <2>2. DOMAIN calls' = DOMAIN calls \cup {new.call} BY <2>1 DEF With
  <2>3. new.call \in DOMAIN heap /\ new.call # Null /\ DOMAIN calls \subseteq DOMAIN heap
    BY <1>2, <2>1, AppendMoves DEF PcInv, Adding, ListInv
  <2>4. Linked(list', calls', Chain') BY <1>2, AppendExtends
  <2> QED BY <1>1, <2>1, <2>2, <2>3, <2>4 DEF ListInv
<1>3. CASE DestroyList
  <2>1. /\ calls' = << >> /\ pc' = "idle"
        /\ list' = [head |-> Null, tail |-> Null, size |-> 0, global_ai_context |-> Null]
    BY <1>3 DEF DestroyList
  <2>2. Linked(list', calls', << >>) /\ list'.size \in Nat BY <2>1 DEF Linked
  <2>3. Chain' = << >> BY <2>2, ChainNext
  <2>4. DOMAIN calls' = {} BY <2>1
  <2> QED BY <2>1, <2>2, <2>3, <2>4 DEF ListInv
<1>4. CASE ~ AppendCall /\ ~ DestroyList
  <2>1. /\ list'.head = list.head /\ list'.tail = list.tail /\ list'.size = list.size
        /\ DOMAIN calls' = DOMAIN calls
        /\ \A b \in DOMAIN calls : calls'[b].next = calls[b].next
        /\ pc' = "destroy" => Destroy \/ (pc = "destroy" /\ (DestroyCall \/ UNCHANGED vars))
    BY <1>4, ChainStays DEF SameCall
  <2>2. Chain' = Chain /\ Linked(list', calls', Chain') BY <2>1, SameChain
  <2>3. ASSUME pc' # "destroy" PROVE DOMAIN calls' \subseteq DOMAIN heap'
    <3>1. pc # "destroy"
      BY <1>4, <2>3 DEF Next, vars, AddCall, Name, Arguments, CopyField, Fill, Undo, Keep,
         CreateContext, SetContext, ContextBlock, ContextField, DestroyContext, GiveToList,
         Destroy, DestroyCall, Idle, ArgField, CtxField
    <3>2. Alive = DOMAIN calls BY <3>1 DEF ListInv, Alive
    <3>3. ~ DestroyCall BY <3>1 DEF DestroyCall
    <3>4. Alive \subseteq DOMAIN heap' BY <3>3, MemoryStep
    <3> QED BY <2>1, <3>2, <3>4
  <2>4. ASSUME pc' = "destroy" PROVE \E n \in 1 .. list'.size + 1 : DestroyingAt(n)'
    <3>1. CASE Destroy
      <4>1. current' = list.head /\ heap' = heap /\ pc = "idle" BY <3>1 DEF Destroy, Idle
      <4>2. \A m \in 1 .. list.size : Chain[m] \in DOMAIN heap
        BY <1>1, <4>1 DEF ListInv, Linked
      <4>3. current' = IF 1 <= list.size THEN Chain[1] ELSE Null
        BY <1>1, <4>1 DEF Linked
      <4>4. DestroyingAt(1)' BY <1>1, <2>1, <2>2, <4>1, <4>2, <4>3 DEF DestroyingAt
      <4> QED BY <1>1, <2>1, <4>4
    <3>2. CASE DestroyCall BY <2>2, <3>2, DestroyGoesOn
    <3>3. CASE pc = "destroy" /\ UNCHANGED vars
      <4>1. PICK n \in 1 .. list.size + 1 : DestroyingAt(n) BY <3>3 DEF ListInv
      <4>2. DestroyingAt(n)' BY <2>2, <3>3, <4>1 DEF DestroyingAt, vars
      <4> QED BY <3>3, <4>2 DEF vars
    <3> QED BY <2>1, <2>4, <3>1, <3>2, <3>3
  <2> QED BY <1>1, <2>1, <2>2, <2>3, <2>4 DEF ListInv
<1> QED BY <1>2, <1>3, <1>4

-----------------------------------------------------------------------------
(* What holds of every execution                                           *)

ListMemoryInv == TypeInv /\ PcInv /\ MemoryInv /\ ListInv

\* An initialised list is an empty chain and memory is empty.
LEMMA ListMemoryInit ==
  ASSUME Init
  PROVE  ListMemoryInv
<1>1. /\ heap = << >> /\ ~ faulty /\ calls = << >> /\ mine = Null /\ pc = "idle"
      /\ given = Nothing /\ new = NoCall /\ ctx = Null
      /\ list = [head |-> Null, tail |-> Null, size |-> 0, global_ai_context |-> Null]
  BY DEF Init
<1>2. TypeInv BY <1>1, NothingIsTyped DEF TypeInv, ListType, Nothing
<1>3. PcInv BY <1>1 DEF PcInv, Adding, Making, ArgField, CtxField
<1>4. Linked(list, calls, << >>) /\ list.size \in Nat BY <1>1 DEF Linked
<1>5. Chain = << >> BY <1>4, ChainIs
<1>6. ListInv BY <1>1, <1>4, <1>5 DEF ListInv
<1>7. \A o \in Owner : Named(Owned[o]) = {} /\ Separate(Owned[o])
  <2>1. Alive = {} BY <1>1 DEF Alive
  <2> SUFFICES ASSUME NEW o \in Owner PROVE Named(Owned[o]) = {} /\ Separate(Owned[o]) OBVIOUS
  <2>2. CASE o \in {<< "new", Null >>, << "new context", Null >>, << "context", Null >>,
                    << "mine", Null >>, << "list", Null >>}
    BY <1>1, <2>2, OwnedAt, NoPointers, NoCallHasNone
  <2>3. CASE \E b \in CallBlock : o = << "call", b >> \/ o = << "call context", b >>
    BY <2>1, <2>3, OwnedAt, NoPointers
  <2> QED BY <2>2, <2>3, OwnersAre
<1>9. UNION {Named(Owned[o]) : o \in Owner} = {} BY <1>7
<1>11. \A o1, o2 \in Owner : Named(Owned[o1]) \cap Named(Owned[o2]) = {} BY <1>7
<1>12. DOMAIN heap = {} BY <1>1
<1>10. Accounted(Owned, DOMAIN heap)
  <2> HIDE DEF Init
  <2> QED BY <1>7, <1>9, <1>11, <1>12 DEF Accounted
<1>8. MemoryInv BY <1>1, <1>10 DEF MemoryInv
<1> QED BY <1>2, <1>3, <1>6, <1>8 DEF ListMemoryInv

\* Every step keeps types, order, memory and chain; each part needs those before.
LEMMA ListMemoryStep ==
  ASSUME ListMemoryInv, [Next]_vars
  PROVE  ListMemoryInv'
BY TypeStep, PcStep, MemoryStep, ListStep DEF ListMemoryInv

\* The types, the order of the steps, and the shapes of memory and list.
THEOREM ListAndMemory == Spec => []ListMemoryInv
<1>1. Init => ListMemoryInv BY ListMemoryInit
<1>2. ListMemoryInv /\ [Next]_vars => ListMemoryInv' BY ListMemoryStep
<1> QED BY <1>1, <1>2, PTL DEF Spec

\* The pointers of a call in the list are its own and those of its context.
LEMMA CallNames ==
  ASSUME TypeInv, NEW b \in DOMAIN calls
  PROVE  Named(CallPointers(calls[b])) =
           Named(BarePointers(calls[b])) \cup Named(ContextPointers(calls[b].ai_context))
<1> DEFINE p == BarePointers(calls[b])
           q == ContextPointers(calls[b].ai_context)
<1>1. calls[b].ai_context \in ContextType \cup {Null} BY DEF TypeInv, CallType
<1>2. DOMAIN q \subseteq (CtxField \cup {"block"}) \X {0} BY <1>1, ContextAt, NoPointers
<1>3. DOMAIN p = (CallField \X {0}) \cup (ArgField \X DOMAIN calls[b].args) BY BareAt
<1>4. \A f \in CtxField \cup {"block"} : f \notin CallField /\ f \notin ArgField
  BY DEF CtxField, CallField, ArgField
<1>5. DOMAIN p \cap DOMAIN q = {}
  <2> SUFFICES ASSUME NEW x \in DOMAIN q PROVE x \notin DOMAIN p OBVIOUS
  <2>1. PICK f \in CtxField \cup {"block"} : x = << f, 0 >> BY <1>2
  <2> QED BY <1>3, <1>4, <2>1
<1>6. CallPointers(calls[b]) = Both(p, q) BY DEF CallPointers
<1> HIDE DEF p, q
<1>7. Named(Both(p, q)) = Named(p) \cup Named(q) BY <1>5, JoinPointers
<1> QED BY <1>6, <1>7 DEF p, q

\* What is allocated while no function of the mock runs is what the program
\* can still reach.
LEMMA IdleHoldsHeld ==
  ASSUME ListMemoryInv, Idle
  PROVE  DOMAIN heap = Held
<1>1. TypeInv /\ PcInv /\ ListInv /\ MemoryInv BY DEF ListMemoryInv
<1>2. new = NoCall /\ ctx = Null /\ new.ai_context = Null
  BY <1>1, NoCallHasNone DEF Idle, PcInv
<1>3. Alive = DOMAIN calls /\ DOMAIN calls \subseteq CallBlock
  BY <1>1 DEF Idle, ListInv, Alive, TypeInv
<1>4. DOMAIN heap = UNION {Named(Owned[o]) : o \in Owner} BY <1>1 DEF MemoryInv, Accounted
<1> DEFINE ofCall(b) == Named(BarePointers(calls[b])) \cup Named(ContextPointers(calls[b].ai_context))
           ofCalls == UNION {ofCall(b) : b \in DOMAIN calls}
<1>5. Held = ofCalls \cup Named(ContextPointers(list.global_ai_context)) \cup Named(ContextPointers(mine))
  <2>1. \A b \in DOMAIN calls : Named(CallPointers(calls[b])) = ofCall(b) BY <1>1, CallNames
  <2> DEFINE held == UNION {Named(CallPointers(calls[b])) : b \in DOMAIN calls}
  <2>2. held = ofCalls
    <3> HIDE DEF ofCall
    <3> QED BY <2>1
  <2>3. Held = held \cup Named(ContextPointers(list.global_ai_context)) \cup Named(ContextPointers(mine))
    BY DEF Held
  <2> HIDE DEF ofCalls, held
  <2> QED BY <2>2, <2>3
<1>6. ASSUME NEW o \in Owner PROVE Named(Owned[o]) \subseteq Held
  <2>1. CASE o \in {<< "new", Null >>, << "new context", Null >>, << "context", Null >>}
    BY <1>2, <2>1, OwnedAt, NoPointers, NoCallHasNone
  <2>4. /\ Named(ContextPointers(list.global_ai_context)) \subseteq Held
        /\ Named(ContextPointers(mine)) \subseteq Held
        /\ ofCalls \subseteq Held
    <3> HIDE DEF ofCalls
    <3> QED BY <1>5
  <2>2. CASE o \in {<< "mine", Null >>, << "list", Null >>} BY <2>2, <2>4, OwnedAt
  <2>3. ASSUME NEW b \in CallBlock, o = << "call", b >> \/ o = << "call context", b >>
        PROVE  Named(Owned[o]) \subseteq Held
    <3>1. CASE b \in DOMAIN calls
      <4>1. Named(Owned[o]) \subseteq ofCall(b) BY <1>3, <2>3, <3>1, OwnedAt
      <4>2. ofCall(b) \subseteq ofCalls
        <5> HIDE DEF ofCall
        <5> QED BY <3>1
      <4> HIDE DEF ofCall, ofCalls
      <4> QED BY <2>4, <4>1, <4>2
    <3>2. CASE b \notin DOMAIN calls BY <1>3, <2>3, <3>2, OwnedAt, NoPointers
    <3> QED BY <3>1, <3>2
  <2> QED BY <2>1, <2>2, <2>3, OwnersAre
<1>7. Held \subseteq DOMAIN heap
  <2>1. \A o \in Owner : Named(Owned[o]) \subseteq DOMAIN heap BY <1>4
  <2>2. Named(ContextPointers(list.global_ai_context)) \subseteq DOMAIN heap
        /\ Named(ContextPointers(mine)) \subseteq DOMAIN heap
    BY <2>1, OwnedAt, OwnersNamed
  <2>3. ASSUME NEW b \in DOMAIN calls PROVE ofCall(b) \subseteq DOMAIN heap
    <3>1. b \in CallBlock BY <1>3
    <3>2. /\ Owned[<< "call", b >>] = BarePointers(calls[b])
          /\ Owned[<< "call context", b >>] = ContextPointers(calls[b].ai_context)
      BY <1>3, <3>1, OwnedAt
    <3>3. << "call", b >> \in Owner /\ << "call context", b >> \in Owner BY <3>1, OwnersNamed
    <3> QED BY <2>1, <3>2, <3>3
  <2>4. ofCalls \subseteq DOMAIN heap
    <3> HIDE DEF ofCall
    <3> QED BY <2>3
  <2> HIDE DEF ofCalls
  <2> QED BY <1>5, <2>2, <2>4
<1> QED BY <1>4, <1>6, <1>7

\* Whatever the arguments, the contexts, the order of the operations and the
\* allocations that fail, between calls of the functions of the mock exactly
\* what list, calls and test still point to is allocated, and nothing was
\* freed twice (mock.c:48-165, common.c:1932).
THEOREM MemoryIsAlwaysAccountedFor == Spec => []MemoryIsAccountedFor
<1>1. ListMemoryInv => MemoryIsAccountedFor
  BY IdleHoldsHeld DEF MemoryIsAccountedFor, ListMemoryInv, MemoryInv
<1> QED BY <1>1, ListAndMemory, PTL

\* The chain of an idle list goes through each call once and ends at tail.
LEMMA IdleListIsAChain ==
  ASSUME ListMemoryInv
  PROVE  ListIsAChain
<1>1. Linked(list, calls, Chain) /\ list.size \in Nat /\ Null \notin DOMAIN calls
  BY DEF ListMemoryInv, ListInv, TypeInv, ListType
<1> DEFINE D == 1 .. list.size
           R == {Chain[n] : n \in DOMAIN Chain}
<1>2. DOMAIN Chain = D /\ Chain \in [D -> DOMAIN calls] BY <1>1 DEF Linked
<1>3. R = DOMAIN calls
  <2>1. R = {Chain[n] : n \in D} BY <1>2
  <2>2. \A b \in DOMAIN calls : \E n \in D : Chain[n] = b BY <1>1 DEF Linked
  <2>3. \A n \in D : Chain[n] \in DOMAIN calls BY <1>2
  <2> HIDE DEF D, R
  <2> QED BY <2>1, <2>2, <2>3
<1>4. Cardinality(R) = list.size
  <2>1. \A n, m \in D : Chain[n] = Chain[m] => n = m BY <1>1 DEF Linked
  <2>2. Chain \in Bijection(D, R)
    BY <1>1, <1>2, <1>3, <2>1 DEF Bijection, Injection, Surjection, IsInjective
  <2>3. IsFiniteSet(D) /\ Cardinality(D) = list.size BY <1>1, FS_Interval
  <2> HIDE DEF D, R
  <2> QED BY <2>2, <2>3, FS_Bijection DEF ExistsBijection
<1>5. (list.size = 0) = (list.head = Null)
  <2>1. CASE list.size = 0 BY <1>1, <2>1 DEF Linked
  <2>2. CASE list.size # 0
    <3>1. list.head = Chain[1] /\ Chain[1] \in DOMAIN calls BY <1>1, <1>2, <2>2 DEF Linked
    <3> QED BY <1>1, <2>2, <3>1
  <2> QED BY <2>1, <2>2
<1>6. IF list.size = 0 THEN list.tail = Null
      ELSE list.tail = Chain[list.size] /\ calls[list.tail].next = Null
  BY <1>1 DEF Linked
<1> QED BY <1>3, <1>4, <1>5, <1>6 DEF ListIsAChain

\* From head, next leads through all the calls once, to tail, however many
\* were added, given up or destroyed before (mock.c:66-80, 154-165).
THEOREM ListIsAlwaysAChain == Spec => []ListIsAChain
<1>1. ListMemoryInv => ListIsAChain BY IdleListIsAChain
<1> QED BY <1>1, ListAndMemory, PTL

-----------------------------------------------------------------------------
(* What is recorded                                                        *)

\* A step that frees nothing leaves what it finds.
LEMMA TakesKeeps ==
  ASSUME NEW b, NEW content, Takes(b, content)
  PROVE  /\ DOMAIN heap \subseteq DOMAIN heap'
         /\ \A x \in DOMAIN heap : heap'[x] = heap[x]
         /\ b # Null => heap'[b] = content
BY DEF Takes

\* What the call being made points to is in memory.
LEMMA NewIsHeld ==
  ASSUME MemoryInv
  PROVE  /\ new.function_name # Null => new.function_name \in DOMAIN heap
         /\ \A n \in DOMAIN new.args : \A f \in ArgField :
              new.args[n][f] # Null => new.args[n][f] \in DOMAIN heap
<1> DEFINE p == BarePointers(new)
<1>1. Named(p) \subseteq DOMAIN heap BY NewIsSeparate
<1>2. /\ DOMAIN p = (CallField \X {0}) \cup (ArgField \X DOMAIN new.args)
      /\ \A f \in CallField : p[<< f, 0 >>] = new[f]
      /\ \A f \in ArgField, n \in DOMAIN new.args : p[<< f, n >>] = new.args[n][f]
  BY BareAt
<1> HIDE DEF p
<1>3. new.function_name # Null => new.function_name \in DOMAIN heap
  <2>1. "function_name" \in CallField BY DEF CallField
  <2>2. << "function_name", 0 >> \in DOMAIN p /\ p[<< "function_name", 0 >>] = new.function_name
    BY <1>2, <2>1
  <2> QED BY <1>1, <2>2 DEF Named
<1>4. ASSUME NEW n \in DOMAIN new.args, NEW f \in ArgField, new.args[n][f] # Null
      PROVE  new.args[n][f] \in DOMAIN heap
  <2>1. << f, n >> \in DOMAIN p /\ p[<< f, n >>] = new.args[n][f] BY <1>2
  <2> QED BY <1>1, <1>4, <2>1 DEF Named
<1> QED BY <1>3, <1>4

\* What was copied stays copied while memory grows.
LEMMA CopiedStays ==
  ASSUME TypeInv, MemoryInv, NEW a, \A x \in DOMAIN heap : heap'[x] = heap[x],
         lost \subseteq lost'
  PROVE  \A n \in 1 .. Len(new.args) :
           /\ \A f \in ArgField :
                Copied(heap, new.args[n], a[n], f, n \in lost)
                  => Copied(heap', new.args[n], a[n], f, n \in lost')
           /\ Complete(heap, new.args[n], a[n], n \in lost)
                => Complete(heap', new.args[n], a[n], n \in lost')
<1> SUFFICES ASSUME NEW n \in 1 .. Len(new.args)
             PROVE  /\ \A f \in ArgField :
                         Copied(heap, new.args[n], a[n], f, n \in lost)
                           => Copied(heap', new.args[n], a[n], f, n \in lost')
                    /\ Complete(heap, new.args[n], a[n], n \in lost)
                         => Complete(heap', new.args[n], a[n], n \in lost')
  OBVIOUS
<1>1. new.args \in Args BY DEF TypeInv, CallType
<1>2. n \in DOMAIN new.args BY <1>1, ArgsAre
<1>3. \A f \in ArgField :
        Copied(heap, new.args[n], a[n], f, n \in lost)
          => Copied(heap', new.args[n], a[n], f, n \in lost')
  BY <1>2, NewIsHeld DEF Copied
<1> QED BY <1>3 DEF Complete

\* The name that is kept is the name that was given.
LEMMA NameRecords ==
  ASSUME TypeInv, PcInv, MemoryInv, RecordInv, Name
  PROVE  RecordInv'
<1>1. CASE Return BY <1>1 DEF Return, RecordInv
<1>2. CASE ~ Return
  <2>1. PICK b \in Malloc("function_name", k, 0) :
          /\ b # Null
          /\ Alloc(b, given.function)
          /\ new' = [new EXCEPT !.function_name = b]
          /\ pc' = IF given.args = << >> THEN Attach ELSE "arguments"
          /\ given' = given
    BY <1>2 DEF Name
  <2>2. Takes(b, given.function) BY <2>1, AllocTakes
  <2>3. /\ new'.function_name = b /\ new'.args = << >>
        /\ pc = "function_name" /\ given.for = "attach"
    BY <2>1 DEF TypeInv, CallType, Name, PcInv, Adding
  <2>4. heap'[b] = given.function BY <2>1, <2>2, TakesKeeps
  <2>5. Len(new'.args) = 0 BY <2>3
  <2>6. given.function \in Function BY <2>3 DEF RecordInv
  <2>7. pc' \in Making \cup {"append"} => Len(given.args) = 0
    <3>1. pc' = "arguments" \/ given.args = << >> BY <2>1
    <3> QED BY <3>1 DEF Making, CtxField
  <2>8. 1 .. Len(new'.args) = {} /\ 1 .. Len(new'.args) - 1 = {} BY <2>5
  <2>9. pc' \notin DataIsDone BY <2>1 DEF Attach, DataIsDone
  <2> QED BY <2>1, <2>3, <2>4, <2>5, <2>6, <2>7, <2>8, <2>9 DEF RecordInv
<1> QED BY <1>1, <1>2

\* The first argument starts as all null pointers.
LEMMA ArgumentsRecord ==
  ASSUME TypeInv, PcInv, MemoryInv, RecordInv, Arguments
  PROVE  RecordInv'
<1>1. CASE Return BY <1>1 DEF Return, RecordInv
<1>2. CASE ~ Return
  <2>1. PICK b \in Malloc("arguments", k, 0) :
          /\ Alloc(b, Node)
          /\ new' = [new EXCEPT !.arguments = b, !.args = << NoArg >>]
          /\ pc' = "data" /\ given' = given
    BY <1>2 DEF Arguments
  <2>2. Takes(b, Node) BY <2>1, AllocTakes
  <2>3. /\ new'.function_name = new.function_name /\ new'.args = << NoArg >>
        /\ pc = "arguments" /\ given.for = "attach"
    BY <2>1 DEF TypeInv, CallType, Arguments, PcInv, Adding
  <2>4. given.function \in Function /\ new.function_name # Null
        /\ heap[new.function_name] = given.function
    BY <2>3 DEF RecordInv
  <2>5. heap'[new.function_name] = given.function BY <2>2, <2>4, TakesKeeps, NewIsHeld
  <2>6. Len(new'.args) = 1 /\ new'.args[1] = NoArg BY <2>3
  <2>7. \A n \in 1 .. Len(new'.args) : \A f \in ArgField :
          Copied(heap', new'.args[n], given.args[n], f, n \in lost')
    BY <2>6 DEF Copied, NoArg
  <2>8. 1 .. Len(new'.args) - 1 = {} BY <2>6
  <2>9. pc' \notin Making \cup {"append"} \cup DataIsDone
    BY <2>1 DEF Making, CtxField, DataIsDone
  <2> QED BY <2>1, <2>3, <2>4, <2>5, <2>7, <2>8, <2>9 DEF RecordInv
<1> QED BY <1>1, <1>2

\* A field of the last argument is copied, or filled.
LEMMA LastIsCopied ==
  ASSUME TypeInv, PcInv, MemoryInv, RecordInv, pc \in ArgField \cup {"fill"},
         NEW f \in ArgField, NEW b \in Pointer, NEW content, Takes(b, content),
         new' = [new EXCEPT !.args[i][f] = b],
         b # Null => \/ from[f] # Null /\ content = from[f]
                     \/ /\ f = "data" /\ from.isString /\ content = AINull
                        /\ from.data = Null \/ i \in lost,
         lost \subseteq lost',
         pc' \in DataIsDone /\ from.data # Null =>
           IF f = "data" THEN b = Null => i \in lost' ELSE pc \in DataIsDone,
         given' = given, pc' \in ArgField \cup {"fill", "check"}
  PROVE  RecordInv'
<1>1. /\ pc \notin {"idle", "destroy", "function_name"} /\ given.for = "attach"
      /\ new.args # << >>
  BY DEF PcInv, Adding, ArgField
<1>2. i \in 1 .. MaxArgs /\ new'.args = [new.args EXCEPT ![i][f] = b] BY <1>1, ArgIsTyped
<1>3. new.args \in [1 .. i -> [ArgField -> Pointer]] /\ DOMAIN new.args = 1 .. i /\ i = Len(new.args)
  <2>1. new.args \in Args BY DEF TypeInv, CallType
  <2> QED BY <2>1, ArgsAre DEF i
<1>4. DOMAIN new'.args = 1 .. i /\ new'.args[i] = [new.args[i] EXCEPT ![f] = b]
      /\ \A m \in 1 .. i : m # i => new'.args[m] = new.args[m]
  BY <1>2, <1>3
<1>5. Len(new'.args) = i
  <2>1. new'.args = [m \in 1 .. i |-> new'.args[m]] BY <1>2, <1>3
  <2>2. new'.args \in [1 .. i -> {new'.args[m] : m \in 1 .. i}] BY <2>1
  <2>3. i \in Nat BY <1>2
  <2> QED BY <2>2, <2>3, TupleLength
<1>6. new'.function_name = new.function_name BY DEF TypeInv, CallType
<1>7. /\ given.function \in Function /\ new.function_name # Null
      /\ heap[new.function_name] = given.function
      /\ \A n \in 1 .. i : \A g \in ArgField : Copied(heap, new.args[n], given.args[n], g, n \in lost)
      /\ \A n \in 1 .. i - 1 : Complete(heap, new.args[n], given.args[n], n \in lost)
  BY <1>1, <1>3 DEF RecordInv
<1>8. \A x \in DOMAIN heap : heap'[x] = heap[x] BY TakesKeeps
<1>9. heap'[new.function_name] = given.function BY <1>7, <1>8, NewIsHeld
<1>10. /\ \A n \in 1 .. i : \A g \in ArgField : Copied(heap', new.args[n], given.args[n], g, n \in lost')
       /\ \A n \in 1 .. i - 1 : Complete(heap', new.args[n], given.args[n], n \in lost')
  BY <1>3, <1>7, <1>8, CopiedStays
<1>11. i \in 1 .. i /\ \A n \in 1 .. i - 1 : n \in 1 .. i /\ n # i BY <1>2
<1>12. ASSUME NEW n \in 1 .. i, NEW g \in ArgField
       PROVE  Copied(heap', new'.args[n], given.args[n], g, n \in lost')
  <2>1. CASE n # i BY <1>4, <1>10, <2>1
  <2>2. CASE n = i /\ g # f
    <3>1. new'.args[n][g] = new.args[n][g] BY <1>3, <1>4, <2>2
    <3> QED BY <1>10, <3>1 DEF Copied
  <2>3. CASE n = i /\ g = f
    <3>1. new'.args[n][g] = b BY <1>3, <1>4, <2>3
    <3>2. b # Null => heap'[b] = content BY TakesKeeps
    <3> QED BY <2>3, <3>1, <3>2 DEF Copied, from
  <2> QED BY <2>1, <2>2, <2>3
<1>13. \A n \in 1 .. i - 1 : Complete(heap', new'.args[n], given.args[n], n \in lost')
  BY <1>4, <1>10, <1>11
<1>14. pc' \notin Making \cup {"append"} BY DEF Making, CtxField, ArgField
<1>15. ASSUME pc' \in DataIsDone, from'.data # Null, new'.args[i].data = Null
       PROVE  i \in lost'
  <2>1. i' = i /\ from' = from BY <1>5 DEF i, from
  <2>2. CASE f = "data"
    <3>1. new'.args[i].data = b BY <1>3, <1>4, <1>11, <2>2
    <3> QED BY <1>15, <2>1, <2>2, <3>1
  <2>3. CASE f # "data"
    <3>1. "data" \in ArgField BY DEF ArgField
    <3>2. new'.args[i].data = new.args[i].data BY <1>3, <1>4, <2>3, <3>1
    <3>3. pc \in DataIsDone BY <1>15, <2>1, <2>3
    <3>4. i \in lost BY <1>1, <1>15, <2>1, <3>2, <3>3 DEF RecordInv
    <3> QED BY <3>4
  <2> QED BY <2>2, <2>3
<1>16. i' = i /\ from' = from BY <1>5 DEF i, from
<1> QED BY <1>5, <1>6, <1>7, <1>9, <1>12, <1>13, <1>14, <1>15, <1>16 DEF RecordInv

\* What is recorded so far stays while the call being made is as it was.
LEMMA RecordStays ==
  ASSUME TypeInv, MemoryInv, RecordInv, pc \notin {"idle", "destroy"}, given.for = "attach",
         \A x \in DOMAIN heap : heap'[x] = heap[x],
         new'.function_name = new.function_name, new'.args = new.args,
         given'.args = given.args, given'.function = given.function,
         pc' # "function_name" => pc # "function_name", pc' \notin DataIsDone,
         lost \subseteq lost',
         pc' \in Making \cup {"append"} =>
           /\ Len(new.args) = Len(given.args)
           /\ \A n \in 1 .. Len(new.args) : Complete(heap, new.args[n], given.args[n], n \in lost)
  PROVE  RecordInv'
<1>1. given.function \in Function BY DEF RecordInv
<1>2. pc # "function_name" => /\ new.function_name # Null
                              /\ heap'[new.function_name] = given.function
  BY NewIsHeld DEF RecordInv
<1>3. \A n \in 1 .. Len(new.args) : \A f \in ArgField :
        Copied(heap', new.args[n], given.args[n], f, n \in lost')
  BY CopiedStays DEF RecordInv
<1>4. \A n \in 1 .. Len(new.args) - 1 : Complete(heap', new.args[n], given.args[n], n \in lost')
  <2>1. Len(new.args) \in Nat
    <3>1. new.args \in Args BY DEF TypeInv, CallType
    <3> QED BY <3>1, ArgsAre, BoundsAssumption
  <2>2. \A n \in 1 .. Len(new.args) - 1 : n \in 1 .. Len(new.args) BY <2>1
  <2> QED BY <2>2, CopiedStays DEF RecordInv
<1>5. pc' \in Making \cup {"append"} =>
        \A n \in 1 .. Len(new.args) : Complete(heap', new.args[n], given.args[n], n \in lost')
  BY CopiedStays
<1> QED BY <1>1, <1>2, <1>3, <1>4, <1>5 DEF RecordInv

\* Nothing is copied yet.
LEMMA AddCallRecords ==
  ASSUME TypeInv, PcInv, AddCall
  PROVE  RecordInv'
<1>1. PICK fn \in Function, n \in 0 .. MaxArgs : \E args \in [1 .. n -> Argument] :
        \E b \in Malloc("call", 0, 0) :
          IF b = Null THEN Return
          ELSE /\ pc' = "function_name"
               /\ given' = [Nothing EXCEPT !.function = fn, !.args = args, !.for = "attach"]
               /\ new' = [NoCall EXCEPT !.call = b]
  BY DEF AddCall
<1>2. PICK args \in [1 .. n -> Argument], b \in Malloc("call", 0, 0) :
        IF b = Null THEN Return
        ELSE /\ pc' = "function_name"
             /\ given' = [Nothing EXCEPT !.function = fn, !.args = args, !.for = "attach"]
             /\ new' = [NoCall EXCEPT !.call = b]
  BY <1>1
<1>3. CASE b = Null BY <1>2, <1>3 DEF Return, RecordInv
<1>4. CASE b # Null
  <2>1. given'.function = fn /\ new'.args = << >> /\ pc' = "function_name"
    BY <1>2, <1>4 DEF Nothing, NoCall
  <2>2. 1 .. Len(new'.args) = {} /\ 1 .. Len(new'.args) - 1 = {} BY <2>1
  <2>3. pc' \notin Making \cup {"append"} \cup DataIsDone
    BY <2>1 DEF Making, CtxField, DataIsDone
  <2> QED BY <2>1, <2>2, <2>3 DEF RecordInv
<1> QED BY <1>3, <1>4

\* A field that is copied, or filled with AI_NULL, is as it was given.
LEMMA CopyRecords ==
  ASSUME TypeInv, PcInv, MemoryInv, RecordInv, CopyField \/ Fill
  PROVE  RecordInv'
<1>1. new.args # << >> /\ given' = given /\ pc \notin {"idle", "destroy", "function_name"}
      /\ pc \in ArgField \cup {"fill"} /\ given.for = "attach"
  BY DEF CopyField, Fill, PcInv, ArgField, Adding
<1>2. i \in 0 .. MaxArgs
  <2>1. i \in 1 .. MaxArgs BY <1>1, ArgIsTyped, "data" \in ArgField, Null \in Pointer
        DEF ArgField, Pointer
  <2> QED BY <2>1
<1>3. CASE CopyField
  <2>1. PICK b \in Malloc(pc, k, i) :
          /\ Dup(b, from[pc])
          /\ new' = [new EXCEPT !.args[i][pc] = b]
          /\ lost' = IF pc = "data" /\ from.data # Null /\ b = Null THEN lost \cup {i} ELSE lost
    BY <1>3 DEF CopyField
  <2>2. pc \in ArgField /\ pc \in Role BY <1>3 DEF CopyField, Role
  <2>3. b \in Pointer BY <1>2, <2>2, MallocGives, CallNumber
  <2>4. Takes(b, from[pc]) /\ (b # Null => from[pc] # Null) BY <2>1, DupTakes
  <2>5. pc' \in ArgField \cup {"fill", "check"}
    BY <1>3, <2>2 DEF CopyField, NextField, ArgField
  <2>6. lost \subseteq lost' BY <2>1, <1>3 DEF CopyField
  <2>7. from.data # Null =>
          IF pc = "data" THEN b = Null => i \in lost' ELSE pc \in DataIsDone
    BY <2>1, <2>2 DEF ArgField, DataIsDone
  <2> QED BY <1>1, <2>1, <2>2, <2>3, <2>4, <2>5, <2>6, <2>7, LastIsCopied
<1>4. CASE Fill /\ from.isString /\ new.args[i].data = Null
  <2>1. PICK b \in Malloc("data", k, i) : Alloc(b, AINull) /\ new' = [new EXCEPT !.args[i]["data"] = b]
    BY <1>4 DEF Fill
  <2>2. "data" \in ArgField /\ "data" \in Role BY DEF Role, ArgField
  <2>3. b \in Pointer BY <1>2, <2>2, MallocGives, CallNumber
  <2>4. Takes(b, AINull) BY <2>1, AllocTakes
  <2>5. pc' = "check" /\ lost' = lost /\ pc = "fill" BY <1>4 DEF Fill
  <2>6. pc' \in ArgField \cup {"fill", "check"} /\ pc' \notin DataIsDone /\ pc \in DataIsDone
    BY <2>5 DEF DataIsDone
  <2>7. from.data = Null \/ i \in lost BY <1>1, <1>4, <2>6 DEF RecordInv
  <2> QED BY <1>1, <1>4, <2>1, <2>2, <2>3, <2>4, <2>5, <2>6, <2>7, LastIsCopied
<1>5. CASE Fill /\ ~ (from.isString /\ new.args[i].data = Null)
  <2>1. UNCHANGED << heap, new, lost >> /\ pc' = "check" BY <1>5 DEF Fill
  <2>2. pc' \notin Making \cup {"append"} \cup DataIsDone
    BY <2>1 DEF Making, CtxField, DataIsDone
  <2> QED BY <1>1, <2>1, <2>2, RecordStays
<1> QED BY <1>3, <1>4, <1>5

\* An argument is kept only when every field that was given is there.
LEMMA KeepRecords ==
  ASSUME TypeInv, PcInv, MemoryInv, RecordInv, Keep
  PROVE  RecordInv'
<1>1. pc = "check" /\ ~ Missing /\ UNCHANGED << heap, given, lost >> /\ given.for = "attach"
      /\ new.args # << >> /\ i <= Len(given.args)
  BY DEF Keep, PcInv, Adding, i
<1>2. new.args \in Args BY DEF TypeInv, CallType
<1>3. i = Len(new.args) /\ i \in 1 .. MaxArgs
  BY <1>1, ArgIsTyped, "data" \in ArgField, Null \in Pointer DEF ArgField, Pointer, i
<1>4. Complete(heap, new.args[i], given.args[i], i \in lost)
  <2>1. \A f \in ArgField : Copied(heap, new.args[i], given.args[i], f, i \in lost)
    BY <1>1, <1>3 DEF RecordInv
  <2>2. \A f \in ArgField : given.args[i][f] # Null => new.args[i][f] # Null
    BY <1>1 DEF Missing, from
  <2> QED BY <2>1, <2>2 DEF Complete
<1>5. \A n \in 1 .. i : Complete(heap, new.args[n], given.args[n], n \in lost)
  <2>1. \A n \in 1 .. i - 1 : Complete(heap, new.args[n], given.args[n], n \in lost)
    BY <1>1, <1>3 DEF RecordInv
  <2>2. \A n \in 1 .. i : n \in 1 .. i - 1 \/ n = i BY <1>3
  <2> QED BY <1>4, <2>1, <2>2
<1>6. CASE ~ (i < Len(given.args))
  <2>1. new' = new /\ Len(new.args) = Len(given.args)
    BY <1>1, <1>3, <1>6, GivenAre, BoundsAssumption DEF Keep
  <2>2. pc' \notin DataIsDone /\ pc' # "function_name"
    BY <1>6 DEF Keep, Attach, DataIsDone
  <2> QED BY <1>1, <1>3, <1>5, <2>1, <2>2, RecordStays
<1>7. CASE i < Len(given.args)
  <2>1. pc' = "data" /\ new' = [new EXCEPT !.args = Append(@, NoArg)] BY <1>7 DEF Keep
  <2>2. new'.args = Append(new.args, NoArg) /\ new'.function_name = new.function_name
    BY <2>1 DEF TypeInv, CallType
  <2>3. /\ Len(new'.args) = i + 1 /\ new'.args[i + 1] = NoArg
        /\ \A n \in 1 .. i : new'.args[n] = new.args[n]
    <3> DEFINE S == [ArgField -> Pointer]
               s == new.args
    <3>1. s \in Seq(S) /\ NoArg \in S /\ Len(s) = i BY <1>2, <1>3, ArgsAre DEF NoArg, Pointer
    <3> HIDE DEF S
    <3> QED BY <2>2, <3>1, AppendProperties
  <2>4. \A n \in 1 .. Len(new'.args) : \A f \in ArgField :
          Copied(heap', new'.args[n], given'.args[n], f, n \in lost')
    <3>1. \A n \in 1 .. i + 1 : n \in 1 .. i \/ n = i + 1 BY <1>3
    <3>2. \A n \in 1 .. i : \A f \in ArgField : Copied(heap, new.args[n], given.args[n], f, n \in lost)
      BY <1>1, <1>3 DEF RecordInv
    <3>3. \A f \in ArgField : Copied(heap, NoArg, given.args[i + 1], f, i + 1 \in lost)
      BY DEF Copied, NoArg
    <3> QED BY <1>1, <2>3, <3>1, <3>2, <3>3
  <2>5. \A n \in 1 .. Len(new'.args) - 1 : Complete(heap', new'.args[n], given'.args[n], n \in lost')
    BY <1>1, <1>3, <1>5, <2>3
  <2>6. pc' \notin Making \cup {"append"} \cup DataIsDone
    BY <2>1 DEF Making, CtxField, DataIsDone
  <2>7. /\ given'.function \in Function /\ new'.function_name # Null
        /\ heap'[new'.function_name] = given'.function
    BY <1>1, <2>2 DEF RecordInv
  <2> QED BY <2>4, <2>5, <2>6, <2>7 DEF RecordInv
<1> QED BY <1>6, <1>7

\* Making a context changes nothing that was copied of the call.
LEMMA ContextRecords ==
  ASSUME TypeInv, PcInv, MemoryInv, RecordInv, ContextBlock \/ ContextField
  PROVE  RecordInv'
<1>1. pc \in Making /\ pc \notin {"idle", "destroy", "function_name"}
  BY DEF ContextBlock, ContextField, Making, CtxField
<1>2. PICK b, content : Takes(b, content)
  <2>1. CASE ContextBlock BY <2>1, AllocTakes DEF ContextBlock
  <2>2. CASE ContextField BY <2>2, DupTakes DEF ContextField
  <2> QED BY <2>1, <2>2
<1>3. \A x \in DOMAIN heap : heap'[x] = heap[x] BY <1>2, TakesKeeps
<1>4. given.for # "attach" => pc' \in {"idle", "destroy"} \/ given'.for = given.for
  BY <1>1 DEF ContextBlock, ContextField, Deliver, Return, PcInv
<1>5. CASE given.for = "attach"
  <2>1. /\ pc' \in {"append", "context_info", "expected_behavior", "ai_notes"} /\ lost' = lost
        /\ new'.function_name = new.function_name /\ new'.args = new.args
        /\ given'.args = given.args /\ given'.function = given.function
    <3>1. ASSUME NEW c, Deliver(c)
          PROVE  given' = given /\ new'.function_name = new.function_name /\ new'.args = new.args
                 /\ pc' = "append" /\ lost' = lost
      BY <1>5, <3>1 DEF Deliver, TypeInv, CallType
    <3>2. CASE ContextBlock
      <4>1. PICK x : IF x = Null THEN Deliver(Null)
                     ELSE /\ pc' = "context_info" /\ new' = new /\ lost' = lost
                          /\ given' = [given EXCEPT !.texts = Texts(list.global_ai_context)]
        BY <1>5, <3>2 DEF ContextBlock
      <4>2. CASE x = Null BY <3>1, <4>1, <4>2
      <4>3. CASE x # Null BY <4>1, <4>3 DEF TypeInv
      <4> QED BY <4>2, <4>3
    <3>3. CASE ContextField
      <4>1. PICK c : IF pc = "ai_notes" THEN Deliver(c)
                     ELSE /\ pc' \in {"expected_behavior", "ai_notes"}
                          /\ new' = new /\ given' = given /\ lost' = lost
        BY <3>3 DEF ContextField
      <4>2. CASE pc = "ai_notes" BY <3>1, <4>1, <4>2
      <4>3. CASE pc # "ai_notes" BY <4>1, <4>3
      <4> QED BY <4>2, <4>3
    <3> QED BY <3>2, <3>3
  <2>2. /\ Len(new.args) = Len(given.args)
        /\ \A n \in 1 .. Len(new.args) : Complete(heap, new.args[n], given.args[n], n \in lost)
    BY <1>1, <1>5 DEF RecordInv
  <2>3. pc' \notin DataIsDone /\ lost \subseteq lost' BY <2>1 DEF DataIsDone
  <2> QED BY <1>1, <1>3, <1>5, <2>1, <2>2, <2>3, RecordStays
<1>6. CASE given.for # "attach" BY <1>4, <1>6 DEF RecordInv
<1> QED BY <1>5, <1>6

\* What is recorded of a call being added is what it was given.
LEMMA RecordStep ==
  ASSUME ListMemoryInv, RecordInv, [Next]_vars
  PROVE  RecordInv'
<1> USE DEF ListMemoryInv
<1>1. CASE Undo BY <1>1 DEF Undo, Return, RecordInv
<1>2. CASE AppendCall BY <1>2 DEF AppendCall, Return, RecordInv
<1>3. CASE CreateContext
  <2>1. PICK t : given' = [Nothing EXCEPT !.for = "create", !.texts = t] BY <1>3 DEF CreateContext
  <2>2. given'.for = "create" BY <2>1 DEF Nothing
  <2> QED BY <2>2 DEF RecordInv
<1>4. CASE SetContext
  <2>1. PICK c, t :
          IF t = Null THEN Return
          ELSE given' = [Nothing EXCEPT !.for = "set", !.call = c, !.texts = WithNotes(Texts(t))]
    BY <1>4 DEF SetContext
  <2>2. CASE t = Null BY <2>1, <2>2 DEF Return, RecordInv
  <2>3. CASE t # Null
    <3>1. given'.for = "set" BY <2>1, <2>3 DEF Nothing
    <3> QED BY <3>1 DEF RecordInv
  <2> QED BY <2>2, <2>3
<1>5. CASE DestroyContext \/ GiveToList \/ Destroy \/ DestroyCall \/ DestroyList
  BY <1>5 DEF DestroyContext, GiveToList, Destroy, DestroyCall, DestroyList, Idle, RecordInv
<1>6. CASE UNCHANGED vars BY <1>6 DEF vars, RecordInv, i, from
<1> QED
  BY <1>1, <1>2, <1>3, <1>4, <1>5, <1>6, AddCallRecords, NameRecords, ArgumentsRecord,
     CopyRecords, KeepRecords, ContextRecords DEF Next

-----------------------------------------------------------------------------
(* The list implements the log of the calls                                *)

\* No step writes over a block that is allocated before and after it.
LEMMA HeapSteady ==
  ASSUME [Next]_vars
  PROVE  \A x \in DOMAIN heap \cap DOMAIN heap' : heap'[x] = heap[x]
<1> DEFINE Steady == \A x \in DOMAIN heap \cap DOMAIN heap' : heap'[x] = heap[x]
<1>1. ASSUME NEW b, NEW content, Takes(b, content) PROVE Steady BY <1>1 DEF Takes
<1>2. ASSUME NEW p, Free(p) PROVE Steady BY <1>2 DEF Free
<1>3. heap' = heap => Steady OBVIOUS
<1> SUFFICES Steady OBVIOUS
<1> HIDE DEF Steady
<1>4. CASE AddCall
  <2>1. PICK b \in Malloc("call", 0, 0) : Alloc(b, Node) BY <1>4 DEF AddCall
  <2> QED BY <1>1, <2>1, AllocTakes
<1>5. CASE Name
  <2>1. CASE Free(OwnPointers(new, {"call"})) BY <1>2, <2>1
  <2>2. CASE ~ Free(OwnPointers(new, {"call"}))
    <3>1. PICK b \in Malloc("function_name", k, 0) : Alloc(b, given.function)
      BY <1>5, <2>2 DEF Name
    <3> QED BY <1>1, <3>1, AllocTakes
  <2> QED BY <2>1, <2>2
<1>6. CASE Arguments
  <2> DEFINE F == {"function_name", "call"}
  <2>1. CASE Free(OwnPointers(new, F)) BY <1>2, <2>1
  <2>2. CASE ~ Free(OwnPointers(new, F))
    <3>1. PICK b \in Malloc("arguments", k, 0) : Alloc(b, Node) BY <1>6, <2>2 DEF Arguments
    <3> QED BY <1>1, <3>1, AllocTakes
  <2> QED BY <2>1, <2>2
<1>7. CASE CopyField
  <2>1. PICK b \in Malloc(pc, k, i) : Dup(b, from[pc]) BY <1>7 DEF CopyField
  <2> QED BY <1>1, <2>1, DupTakes
<1>8. CASE Fill
  <2>1. PICK b \in Malloc("data", k, i) : Alloc(b, AINull) \/ heap' = heap BY <1>8 DEF Fill
  <2> QED BY <1>1, <1>3, <2>1, AllocTakes
<1>9. CASE Undo BY <1>2, <1>9 DEF Undo
<1>10. CASE Keep \/ AppendCall \/ CreateContext \/ GiveToList \/ Destroy \/ UNCHANGED vars
  BY <1>3, <1>10 DEF Keep, AppendCall, CreateContext, GiveToList, Destroy, vars
<1>11. CASE SetContext
  <2>1. PICK c \in DOMAIN calls : Free(ContextPointers(calls[c].ai_context))
    BY <1>11 DEF SetContext
  <2> QED BY <1>2, <2>1
<1>12. CASE ContextBlock
  <2>1. PICK b \in Malloc("context", k, 0) : Alloc(b, Node) BY <1>12 DEF ContextBlock
  <2> QED BY <1>1, <2>1, AllocTakes
<1>13. CASE ContextField
  <2>1. PICK b \in Malloc(pc, k, 0) : Dup(b, given.texts[pc]) BY <1>13 DEF ContextField
  <2> QED BY <1>1, <2>1, DupTakes
<1>14. CASE DestroyContext BY <1>2, <1>14 DEF DestroyContext
<1>15. CASE DestroyCall BY <1>2, <1>15 DEF DestroyCall
<1>16. CASE DestroyList BY <1>2, <1>16 DEF DestroyList
<1> QED
  BY <1>4, <1>5, <1>6, <1>7, <1>8, <1>9, <1>10, <1>11, <1>12, <1>13, <1>14, <1>15, <1>16
  DEF Next

\* The pointers of which the log knows the contents.
Visible(c, mem) ==
  /\ c.function_name # Null => c.function_name \in DOMAIN mem
  /\ \A n \in DOMAIN c.args : \A f \in ArgField :
       c.args[n][f] # Null => c.args[n][f] \in DOMAIN mem

\* They are the call's own pointers.
LEMMA NamedIsVisible ==
  ASSUME NEW c, NEW mem, Named(BarePointers(c)) \subseteq DOMAIN mem
  PROVE  Visible(c, mem)
<1> DEFINE p == BarePointers(c)
<1>1. /\ DOMAIN p = (CallField \X {0}) \cup (ArgField \X DOMAIN c.args)
      /\ \A f \in CallField : p[<< f, 0 >>] = c[f]
      /\ \A f \in ArgField, n \in DOMAIN c.args : p[<< f, n >>] = c.args[n][f]
  BY BareAt
<1>2. Named(p) \subseteq DOMAIN mem OBVIOUS
<1> HIDE DEF p
<1>3. c.function_name # Null => c.function_name \in DOMAIN mem
  <2>1. "function_name" \in CallField BY DEF CallField
  <2>2. << "function_name", 0 >> \in DOMAIN p /\ p[<< "function_name", 0 >>] = c.function_name
    BY <1>1, <2>1
  <2> QED BY <1>2, <2>2 DEF Named
<1>4. ASSUME NEW n \in DOMAIN c.args, NEW f \in ArgField, c.args[n][f] # Null
      PROVE  c.args[n][f] \in DOMAIN mem
  <2>1. << f, n >> \in DOMAIN p /\ p[<< f, n >>] = c.args[n][f] BY <1>1
  <2> QED BY <1>2, <1>4, <2>1 DEF Named
<1> QED BY <1>3, <1>4 DEF Visible

\* Calls that are alive are in memory, before a step and after it.
LEMMA CallsAreVisible ==
  ASSUME TypeInv, ListInv, MemoryInv, pc # "destroy"
  PROVE  \A b \in DOMAIN calls : Visible(calls[b], heap)
<1> SUFFICES ASSUME NEW b \in DOMAIN calls PROVE Visible(calls[b], heap) OBVIOUS
<1>1. b \in CallBlock /\ b \in Alive BY DEF TypeInv, ListInv, Alive
<1>2. Owned[<< "call", b >>] = BarePointers(calls[b]) BY <1>1, OwnedAt
<1>3. << "call", b >> \in Owner BY <1>1, OwnersNamed
<1>4. Named(BarePointers(calls[b])) \subseteq DOMAIN heap
  BY <1>2, <1>3 DEF MemoryInv, Accounted
<1> QED BY <1>4, NamedIsVisible

\* The same after a step.
LEMMA CallsAreVisibleNext ==
  ASSUME TypeInv', ListInv', MemoryInv', pc' # "destroy"
  PROVE  \A b \in DOMAIN calls' : Visible(calls'[b], heap')
<1> SUFFICES ASSUME NEW b \in DOMAIN calls' PROVE Visible(calls'[b], heap') OBVIOUS
<1>1. b \in CallBlock /\ b \in Alive' BY DEF TypeInv, ListInv, Alive
<1>2. Owned'[<< "call", b >>] = BarePointers(calls'[b]) BY <1>1, OwnedNext
<1>3. << "call", b >> \in Owner BY <1>1, OwnersNamed
<1>4. Accounted(Owned', DOMAIN heap') BY DEF MemoryInv
<1>5. Named(Owned'[<< "call", b >>]) \subseteq DOMAIN heap' BY <1>3, <1>4 DEF Accounted
<1>6. Named(BarePointers(calls'[b])) \subseteq DOMAIN heap' BY <1>2, <1>5
<1> QED BY <1>6, NamedIsVisible

\* What memory holds of a call.
RecordOf(c, mem) ==
  [function |-> IF c.function_name = Null THEN Null ELSE mem[c.function_name],
   args |-> [n \in DOMAIN c.args |->
               [f \in ArgField |-> IF c.args[n][f] = Null THEN Null ELSE mem[c.args[n][f]]]]]

\* The record does not change while what is visible of the call does not.
LEMMA SameRecord ==
  ASSUME NEW c, NEW d, NEW m1, NEW m2, SameCall(c, d), Visible(c, m1), Visible(d, m2),
         \A x \in DOMAIN m1 \cap DOMAIN m2 : m2[x] = m1[x]
  PROVE  RecordOf(d, m2) = RecordOf(c, m1)
<1>1. d.function_name = c.function_name /\ d.args = c.args BY DEF SameCall
<1>2. c.function_name # Null => m2[c.function_name] = m1[c.function_name] BY <1>1 DEF Visible
<1>3. \A n \in DOMAIN c.args : \A f \in ArgField :
        c.args[n][f] # Null => m2[c.args[n][f]] = m1[c.args[n][f]]
  BY <1>1 DEF Visible
<1>4. [n \in DOMAIN c.args |->
         [f \in ArgField |-> IF c.args[n][f] = Null THEN Null ELSE m2[c.args[n][f]]]]
      = [n \in DOMAIN c.args |->
           [f \in ArgField |-> IF c.args[n][f] = Null THEN Null ELSE m1[c.args[n][f]]]]
  BY <1>3
<1> QED BY <1>1, <1>2, <1>4 DEF RecordOf

\* The log that the list implements.
LogOf(chain, cs, mem) == [n \in DOMAIN chain |-> RecordOf(cs[chain[n]], mem)]
Logged == IF pc = "destroy" THEN << >> ELSE LogOf(Chain, calls, heap)

\* A step that neither appends nor destroys leaves the log as it was.
LEMMA LogStays ==
  ASSUME ListMemoryInv, [Next]_vars, ~ AppendCall, ~ DestroyList,
         pc # "destroy", pc' # "destroy"
  PROVE  Logged' = Logged
<1> USE DEF ListMemoryInv
<1>1. ListMemoryInv' BY ListMemoryStep
<1>2. /\ list'.head = list.head /\ list'.tail = list.tail /\ list'.size = list.size
      /\ DOMAIN calls' = DOMAIN calls
      /\ \A b \in DOMAIN calls : SameCall(calls[b], calls'[b])
  BY ChainStays
<1>3. Chain' = Chain BY <1>2, SameChain DEF SameCall
<1>4. \A b \in DOMAIN calls : Visible(calls[b], heap) /\ Visible(calls'[b], heap')
  BY <1>1, <1>2, CallsAreVisible, CallsAreVisibleNext
<1>5. \A b \in DOMAIN calls : RecordOf(calls'[b], heap') = RecordOf(calls[b], heap)
  BY <1>2, <1>4, HeapSteady, SameRecord
<1>6. Chain \in [1 .. list.size -> DOMAIN calls] BY DEF ListInv, Linked
<1>7. LogOf(Chain', calls', heap') = LogOf(Chain, calls, heap) BY <1>3, <1>5, <1>6 DEF LogOf
<1> QED BY <1>7 DEF Logged

\* The step that appends a call appends its record to the log.
LEMMA LogGrows ==
  ASSUME ListMemoryInv, AppendCall
  PROVE  /\ Logged' = Append(Logged, RecordOf(new, heap))
         /\ Len(Logged') = Len(Logged) + 1
<1> USE DEF ListMemoryInv
<1> DEFINE size == list.size
           r == RecordOf(new, heap)
           S == {r} \cup {RecordOf(calls[b], heap) : b \in DOMAIN calls}
<1>1. pc = "append" /\ pc' = "idle" /\ heap' = heap /\ calls' = With(new)
  BY DEF AppendCall, AppendTo, Return
<1>2. Chain' = [n \in 1 .. size + 1 |-> IF n <= size THEN Chain[n] ELSE new.call]
  BY AppendExtends
<1>3. new.call \notin DOMAIN calls BY AppendMoves
<1>4. /\ size \in Nat /\ Chain \in [1 .. size -> DOMAIN calls]
      /\ \A b \in DOMAIN calls : calls[b] \in CallType
  BY DEF ListInv, Linked, TypeInv, ListType
<1>5. calls'[new.call] = new BY <1>1 DEF With
<1>6. \A b \in DOMAIN calls : RecordOf(calls'[b], heap) = RecordOf(calls[b], heap)
  <2> SUFFICES ASSUME NEW b \in DOMAIN calls
               PROVE  RecordOf(calls'[b], heap) = RecordOf(calls[b], heap)
    OBVIOUS
  <2>1. calls'[b] = IF b = list.tail THEN [calls[b] EXCEPT !.next = new.call] ELSE calls[b]
    BY <1>1, <1>3 DEF With
  <2>2. calls'[b].function_name = calls[b].function_name /\ calls'[b].args = calls[b].args
    BY <1>4, <2>1 DEF CallType
  <2> QED BY <2>2 DEF RecordOf
<1>7. /\ Logged = [n \in 1 .. size |-> RecordOf(calls[Chain[n]], heap)]
      /\ Logged' = [n \in 1 .. size + 1 |-> RecordOf(calls'[Chain'[n]], heap)]
  BY <1>1, <1>2, <1>4 DEF Logged, LogOf
<1>8. /\ \A n \in 1 .. size : Logged'[n] = Logged[n] /\ Logged[n] \in S
      /\ Logged'[size + 1] = r
  <2>1. \A n \in 1 .. size : n \in 1 .. size + 1 /\ n <= size BY <1>4
  <2>2. \A n \in 1 .. size : Chain'[n] = Chain[n] /\ Chain[n] \in DOMAIN calls
    BY <1>2, <1>4, <2>1
  <2>3. size + 1 \in 1 .. size + 1 /\ Chain'[size + 1] = new.call BY <1>2, <1>4
  <2>4. \A n \in 1 .. size : Logged'[n] = RecordOf(calls[Chain[n]], heap)
                             /\ Logged[n] = RecordOf(calls[Chain[n]], heap)
    BY <1>6, <1>7, <2>1, <2>2
  <2>5. Logged'[size + 1] = r BY <1>5, <1>7, <2>3
  <2> QED BY <2>2, <2>4, <2>5
<1>9. /\ Logged \in [1 .. size -> S] /\ Logged' \in [1 .. size + 1 -> S]
  <2>1. r \in S OBVIOUS
  <2>2. \A n \in 1 .. size + 1 : n \in 1 .. size \/ n = size + 1 BY <1>4
  <2>3. \A n \in 1 .. size + 1 : Logged'[n] \in S BY <1>8, <2>1, <2>2
  <2>4. \A n \in 1 .. size : Logged[n] \in S BY <1>8
  <2>5. Logged = [n \in 1 .. size |-> Logged[n]] BY <1>7
  <2>6. Logged' = [n \in 1 .. size + 1 |-> Logged'[n]] BY <1>7
  <2> HIDE DEF S
  <2> QED BY <2>3, <2>4, <2>5, <2>6
<1> HIDE DEF S, r
<1>10. /\ Logged \in Seq(S) /\ Len(Logged) = size
       /\ Logged' \in Seq(S) /\ Len(Logged') = size + 1
  <2>1. size \in Nat /\ size + 1 \in Nat BY <1>4
  <2>2. Logged \in Seq(S) /\ Len(Logged) = size BY <1>9, <2>1, TupleLength
  <2> DEFINE next == Logged'
             m == size + 1
  <2>3. next \in [1 .. m -> S] /\ m \in Nat BY <1>9, <2>1
  <2> HIDE DEF next, m
  <2>4. next \in Seq(S) /\ Len(next) = m BY <2>3, TupleLength
  <2> QED BY <2>2, <2>4 DEF next, m
<1>11. r \in S BY DEF S
<1>12. /\ Append(Logged, r) \in Seq(S) /\ Len(Append(Logged, r)) = size + 1
       /\ \A n \in 1 .. size : Append(Logged, r)[n] = Logged[n]
       /\ Append(Logged, r)[size + 1] = r
  BY <1>10, <1>11, AppendProperties
<1>13. \A n \in 1 .. size + 1 : Logged'[n] = Append(Logged, r)[n]
  <2>1. \A n \in 1 .. size + 1 : n \in 1 .. size \/ n = size + 1 BY <1>4
  <2> QED BY <1>8, <1>12, <2>1
<1>14. Logged' = Append(Logged, r) BY <1>10, <1>12, <1>13, SeqEqual
<1> QED BY <1>10, <1>14 DEF r

\* A complete copy records what add_call may record of an argument.
LEMMA CompleteIsRecorded ==
  ASSUME NEW h, NEW copy, NEW a \in Argument, NEW isLost \in BOOLEAN,
         Complete(h, copy, a, isLost)
  PROVE  [f \in ArgField |-> IF copy[f] = Null THEN Null ELSE h[copy[f]]]
           \in RecordedArg(a, isLost)
<1> DEFINE r == [f \in ArgField |-> IF copy[f] = Null THEN Null ELSE h[copy[f]]]
           filled == IF a.isString /\ (a.data = Null \/ isLost) THEN {AINull} ELSE {}
           D == {a.data} \cup filled
<1>1. \A f \in ArgField \ {"data"} : r[f] = a[f] BY DEF Complete, Copied
<1>2. "data" \in ArgField /\ a.data = a["data"] BY DEF ArgField
<1>3. \/ copy["data"] = Null /\ a.data = Null /\ r["data"] = Null
      \/ copy["data"] # Null /\ a.data # Null /\ r["data"] = a.data
      \/ copy["data"] # Null /\ a.isString /\ (a.data = Null \/ isLost) /\ r["data"] = AINull
  BY <1>2 DEF Complete, Copied
<1>4. r["data"] \in D
  <2>1. CASE r["data"] = a.data BY <2>1
  <2>2. CASE a.isString /\ (a.data = Null \/ isLost) /\ r["data"] = AINull
    <3>1. filled = {AINull} BY <2>2
    <3> HIDE DEF r, filled
    <3> QED BY <2>2, <3>1
  <2> HIDE DEF r, D
  <2> QED BY <1>3, <2>1, <2>2
<1>5. r = [f \in ArgField |-> IF f = "data" THEN r["data"] ELSE a[f]]
  <2>1. \A f \in ArgField : r[f] = IF f = "data" THEN r["data"] ELSE a[f] BY <1>1
  <2>2. r = [f \in ArgField |-> r[f]] OBVIOUS
  <2> HIDE DEF r
  <2> QED BY <2>1, <2>2
<1>6. RecordedArg(a, isLost) = {[f \in ArgField |-> IF f = "data" THEN d ELSE a[f]] : d \in D}
  BY DEF RecordedArg
<1> HIDE DEF D
<1>7. r \in RecordedArg(a, isLost) BY <1>4, <1>5, <1>6
<1> QED BY <1>7

\* What AppendCall appends may be recorded of what add_call was asked.
LEMMA NewMayBeRecorded ==
  ASSUME ListMemoryInv, RecordInv, pc = "append"
  PROVE  RecordOf(new, heap) \in MayRecord([function |-> given.function, args |-> given.args], lost)
<1> DEFINE c == [function |-> given.function, args |-> given.args]
           r == RecordOf(new, heap)
           n == Len(new.args)
           arg(x) == [f \in ArgField |->
                        IF new.args[x][f] = Null THEN Null ELSE heap[new.args[x][f]]]
           R == UNION {RecordedArg(a, b) : a \in Argument, b \in BOOLEAN}
<1>1. given.for = "attach" /\ TypeInv BY DEF ListMemoryInv, PcInv, Adding
<1>2. /\ given.function \in Function /\ new.function_name # Null
      /\ heap[new.function_name] = given.function /\ n = Len(given.args)
      /\ \A x \in 1 .. n : Complete(heap, new.args[x], given.args[x], x \in lost)
  BY <1>1 DEF RecordInv
<1>3. new.args \in Args /\ DOMAIN new.args = 1 .. n
  <2>1. new.args \in Args BY <1>1 DEF TypeInv, CallType
  <2> QED BY <2>1, ArgsAre
<1>4. DOMAIN given.args = 1 .. n /\ \A x \in 1 .. n : given.args[x] \in Argument
  BY <1>1, <1>2, GivenAre
<1>6. r = [function |-> given.function, args |-> [x \in 1 .. n |-> arg(x)]]
  BY <1>2, <1>3 DEF RecordOf
<1>7. \A x \in 1 .. n : arg(x) \in RecordedArg(given.args[x], x \in lost)
  <2> SUFFICES ASSUME NEW x \in 1 .. n PROVE arg(x) \in RecordedArg(given.args[x], x \in lost)
    OBVIOUS
  <2> DEFINE gone == x \in lost
             copy == new.args[x]
             a == given.args[x]
  <2>1. gone \in BOOLEAN /\ a \in Argument BY <1>4
  <2>2. Complete(heap, copy, a, gone) BY <1>2
  <2> HIDE DEF gone, copy, a
  <2>3. [f \in ArgField |-> IF copy[f] = Null THEN Null ELSE heap[copy[f]]]
          \in RecordedArg(a, gone)
    BY <2>1, <2>2, CompleteIsRecorded
  <2> QED BY <2>3 DEF gone, copy, a
<1>8. \A x \in 1 .. n : arg(x) \in R
  <2>1. \A a \in Argument, b \in BOOLEAN : RecordedArg(a, b) \subseteq R
    <3> SUFFICES ASSUME NEW a \in Argument, NEW b \in BOOLEAN, NEW y \in RecordedArg(a, b)
                 PROVE  y \in R
      OBVIOUS
    <3>1. RecordedArg(a, b) \in {RecordedArg(a1, b1) : a1 \in Argument, b1 \in BOOLEAN}
      OBVIOUS
    <3> QED BY <3>1
  <2>2. \A x \in 1 .. n : (x \in lost) \in BOOLEAN OBVIOUS
  <2> HIDE DEF arg, R
  <2> QED BY <1>4, <1>7, <2>1, <2>2
<1>9. r \in [function : {c.function}, args : [DOMAIN c.args -> R]]
  <2>1. c.function = given.function /\ DOMAIN c.args = 1 .. n BY <1>4
  <2> HIDE DEF arg, R, c, r
  <2> QED BY <1>6, <1>8, <2>1
<1>10. \A x \in DOMAIN c.args : r.args[x] \in RecordedArg(c.args[x], x \in lost)
  <2>1. c.args = given.args /\ DOMAIN c.args = 1 .. n BY <1>4
  <2> HIDE DEF arg, c, r
  <2>2. \A x \in 1 .. n : r.args[x] = arg(x) BY <1>6
  <2> QED BY <1>7, <2>1, <2>2
<1>11. r \in MayRecord(c, lost)
  <2> HIDE DEF r, c
  <2> QED BY <1>9, <1>10 DEF MayRecord, R
<1> QED BY <1>11

\* Arguments get lost in add_call only, and are arguments that it was given.
LostInv == IF Asked THEN lost \subseteq DOMAIN given.args ELSE lost = {}

\* What a step does to the request: it is made, it loses an argument, it ends, or
\* it stays as it was.
Starts == ~ Asked /\ Asked' /\ lost' = {} /\ given'.function \in Function
Stays ==
  /\ Asked <=> Asked'
  /\ Asked => given'.function = given.function /\ given'.args = given.args
  /\ lost' = lost
Loses ==
  /\ Asked /\ Asked'
  /\ given'.function = given.function /\ given'.args = given.args
  /\ \E n \in DOMAIN given.args : lost' = lost \cup {n}
Ends == Asked /\ ~ Asked' /\ lost' = {}

LEMMA RequestStep ==
  ASSUME TypeInv, PcInv, LostInv, [Next]_vars
  PROVE  Starts \/ Stays \/ Loses \/ Ends
<1>1. Return => Ends \/ Stays BY DEF Return, Ends, Stays, Asked, LostInv
<1>2. CASE AddCall
  <2>1. PICK fn \in Function, n \in 0 .. MaxArgs : \E args \in [1 .. n -> Argument] :
          \E b \in Malloc("call", 0, 0) :
            IF b = Null THEN Return
            ELSE /\ pc' = "function_name"
                 /\ given' = [Nothing EXCEPT !.function = fn, !.args = args, !.for = "attach"]
                 /\ lost' = lost
    BY <1>2 DEF AddCall
  <2>2. pc = "idle" BY <1>2 DEF AddCall, Idle
  <2>3. Return \/ (/\ pc' = "function_name" /\ lost' = lost
                  /\ given'.function = fn /\ given'.for = "attach")
    BY <2>1 DEF Nothing
  <2>4. lost = {} BY <2>2 DEF LostInv, Asked
  <2> QED BY <1>1, <2>2, <2>3, <2>4 DEF Starts, Asked
<1>3. CASE Name \/ Arguments
  <2>1. Return \/ (pc' \in {"arguments", "append", "context", "data"} /\ given' = given /\ lost' = lost)
    BY <1>3 DEF Name, Arguments, Attach
  <2>2. pc \in {"function_name", "arguments"} BY <1>3 DEF Name, Arguments
  <2> QED BY <1>1, <2>1, <2>2 DEF Stays, Asked
<1>4. CASE CopyField
  <2>1. /\ pc \in ArgField /\ given' = given /\ pc' \in {"name", "description", "id", "fill"}
        /\ lost' = lost \/ lost' = lost \cup {i}
    BY <1>4 DEF CopyField, NextField, ArgField
  <2>2. i \in DOMAIN given.args /\ Asked
    <3>1. /\ given.for = "attach" /\ new.args # << >> /\ Len(new.args) <= Len(given.args)
          /\ pc \notin {"idle", "destroy"}
      BY <2>1 DEF PcInv, Adding, ArgField
    <3>2. i \in 1 .. MaxArgs
      BY <2>1, <3>1, ArgIsTyped, "data" \in ArgField, Null \in Pointer DEF ArgField, Pointer
    <3>3. Len(given.args) \in Nat /\ DOMAIN given.args = 1 .. Len(given.args)
      BY GivenAre, BoundsAssumption
    <3> QED BY <3>1, <3>2, <3>3 DEF i, Asked
  <2>3. Asked' BY <2>1, <2>2 DEF Asked
  <2> QED BY <2>1, <2>2, <2>3 DEF Stays, Loses
<1>5. CASE Fill \/ Keep
  <2>1. given' = given /\ lost' = lost /\ pc \in {"fill", "check"}
        /\ pc' \in {"check", "data", "append", "context"}
    BY <1>5 DEF Fill, Keep, Attach
  <2> QED BY <2>1 DEF Stays, Asked
<1>6. CASE Undo \/ AppendCall BY <1>1, <1>6 DEF Undo, AppendCall
<1>7. CASE CreateContext
  <2>1. PICK t : given' = [Nothing EXCEPT !.for = "create", !.texts = t] BY <1>7 DEF CreateContext
  <2>2. given'.for = "create" BY <2>1 DEF Nothing
  <2> QED BY <1>7, <2>2 DEF CreateContext, Stays, Asked, Idle
<1>8. CASE SetContext
  <2>1. PICK c, t :
          IF t = Null THEN Return
          ELSE /\ given' = [Nothing EXCEPT !.for = "set", !.call = c, !.texts = WithNotes(Texts(t))]
               /\ lost' = lost
    BY <1>8 DEF SetContext
  <2>2. CASE t = Null BY <1>1, <2>1, <2>2
  <2>3. CASE t # Null
    <3>1. given'.for = "set" /\ lost' = lost BY <2>1, <2>3 DEF Nothing
    <3> QED BY <1>8, <3>1 DEF SetContext, Stays, Asked, Idle
  <2> QED BY <2>2, <2>3
<1>9. ASSUME NEW c, Deliver(c), pc \in Making PROVE Ends \/ Stays
  <2>1. given.for \in {"attach", "set", "create"} BY <1>9 DEF PcInv
  <2>2. Return \/ (pc' = "append" /\ given' = given /\ lost' = lost)
    BY <1>9, <2>1 DEF Deliver
  <2> QED BY <1>1, <1>9, <2>2 DEF Stays, Asked, Making, CtxField
<1>10. CASE ContextBlock \/ ContextField
  <2>1. pc \in Making BY <1>10 DEF ContextBlock, ContextField, Making
  <2>2. (\E c : Deliver(c))
        \/ (/\ pc' \in {"context_info", "expected_behavior", "ai_notes"} /\ lost' = lost
            /\ \/ given' = given
               \/ given' = [given EXCEPT !.texts = Texts(list.global_ai_context)])
    <3>1. CASE ContextBlock BY <3>1 DEF ContextBlock
    <3>2. CASE ContextField BY <3>2 DEF ContextField
    <3> QED BY <1>10, <3>1, <3>2
  <2>3. CASE \E c : Deliver(c) BY <1>9, <2>1, <2>3
  <2>4. CASE ~ \E c : Deliver(c)
    <3>1. given'.for = given.for /\ given'.function = given.function /\ given'.args = given.args
      BY <2>2, <2>4 DEF TypeInv
    <3> QED BY <2>1, <2>2, <2>4, <3>1 DEF Stays, Asked, Making, CtxField
  <2> QED BY <2>3, <2>4
<1>11. CASE DestroyContext \/ GiveToList \/ Destroy \/ DestroyCall \/ DestroyList
  BY <1>11 DEF DestroyContext, GiveToList, Destroy, DestroyCall, DestroyList, Idle, Stays, Asked
<1>12. CASE UNCHANGED vars BY <1>12 DEF vars, Stays, Asked
<1> QED BY <1>2, <1>3, <1>4, <1>5, <1>6, <1>7, <1>8, <1>10, <1>11, <1>12 DEF Next

LEMMA LostStep ==
  ASSUME TypeInv, PcInv, LostInv, [Next]_vars
  PROVE  LostInv'
BY RequestStep DEF LostInv, Starts, Stays, Loses, Ends

\* Log's variable is Logged.
LEMMA LogIsLogged ==
  /\ (IF pc = "destroy" THEN << >> ELSE [n \in DOMAIN Chain |-> Recorded(calls[Chain[n]])]) = Logged
BY DEF Logged, LogOf, RecordOf, Recorded, Content

\* An initialised list is the empty log.
LEMMA RefineInit ==
  ASSUME Init
  PROVE  Log!Init
<1>1. list.size = 0 /\ ListMemoryInv BY ListMemoryInit DEF Init
<1>2. DOMAIN Chain = {} BY <1>1 DEF ListMemoryInv, ListInv, Linked
<1> QED BY <1>2 DEF Log!Init, Init, Request, Asked

\* A request is none but of add_call.
LEMMA RequestIs ==
  ASSUME TypeInv, RecordInv, LostInv
  PROVE  /\ Asked => /\ Request = [call |-> [function |-> given.function, args |-> given.args],
                                  lost |-> lost]
                     /\ Request.call \in Given
                     /\ Request # Null
         /\ ~ Asked => Request = Null
<1>1. CASE Asked
  <2> DEFINE c == [function |-> given.function, args |-> given.args]
  <2>1. Request = [call |-> c, lost |-> lost] BY <1>1 DEF Request
  <2>2. c \in Given BY <1>1 DEF Given, TypeInv, RecordInv, Asked
  <2>3. lost \in SUBSET (1 .. MaxArgs)
    BY <1>1, GivenAre, BoundsAssumption DEF LostInv
  <2> HIDE DEF c
  <2>4. Request \in [call : Given, lost : SUBSET (1 .. MaxArgs)] BY <2>1, <2>2, <2>3
  <2>5. Request.call = c BY <2>1
  <2> QED BY <1>1, <2>1, <2>2, <2>4, <2>5, NullAssumption DEF c
<1>2. CASE ~ Asked BY <1>2 DEF Request
<1> QED BY <1>1, <1>2

RefineInv == ListMemoryInv /\ RecordInv /\ LostInv

\* The steps of the log, on what the list implements.
Asks == Request = Null /\ \E c \in Given : Request' = [call |-> c, lost |-> {}]
LosesOne ==
  /\ Request # Null
  /\ \E n \in PartsOf(Request.call) : Request' = [Request EXCEPT !.lost = @ \cup {n}]
GivesUp == Request # Null /\ Request' = Null
Records ==
  /\ Request # Null /\ Request' = Null
  /\ \E r \in MayRecord(Request.call, Request.lost) : Logged' = Append(Logged, r)
Clears == Request = Null /\ Request' = Null /\ Logged' = << >>

\* The request is made, loses an argument, is given up, or stays.
LEMMA RefineRequest ==
  ASSUME RefineInv, RefineInv', [Next]_vars
  PROVE  Asks \/ LosesOne \/ GivesUp \/ Request' = Request
<1> USE DEF RefineInv, ListMemoryInv
<1>1. Starts \/ Stays \/ Loses \/ Ends BY RequestStep
<1> DEFINE c == [function |-> given.function, args |-> given.args]
<1>2. /\ Asked => /\ Request = [call |-> c, lost |-> lost] /\ Request # Null
      /\ ~ Asked => Request = Null
  BY RequestIs
<1>3. CASE Starts
  <2> DEFINE d == [function |-> given'.function, args |-> given'.args]
  <2>1. Request' = [call |-> d, lost |-> {}] BY <1>3 DEF Starts, Request
  <2>2. d \in Given BY <1>3 DEF Starts, Given, TypeInv
  <2> HIDE DEF c, d
  <2> QED BY <1>2, <1>3, <2>1, <2>2 DEF Starts, Asks
<1>4. CASE Stays BY <1>4 DEF Stays, Request
<1>5. CASE Loses
  <2>1. PICK n \in DOMAIN given.args : lost' = lost \cup {n} BY <1>5 DEF Loses
  <2>2. Request' = [call |-> c, lost |-> lost \cup {n}] BY <1>5, <2>1 DEF Loses, Request
  <2>3. Request = [call |-> c, lost |-> lost] /\ Request # Null BY <1>2, <1>5 DEF Loses
  <2>4. n \in PartsOf(c) BY DEF PartsOf
  <2> HIDE DEF c
  <2>5. Request.call = c /\ [Request EXCEPT !.lost = @ \cup {n}] = [call |-> c, lost |-> lost \cup {n}]
    BY <2>3
  <2> QED BY <2>2, <2>3, <2>4, <2>5 DEF LosesOne
<1>6. CASE Ends
  <2>1. Request' = Null BY <1>6 DEF Ends, Request
  <2> QED BY <1>2, <1>6, <2>1 DEF Ends, GivesUp
<1> QED BY <1>1, <1>3, <1>4, <1>5, <1>6

\* A step records the call that was asked for, empties the log, or leaves it
\* and goes on with the request.
LEMMA RefineStep ==
  ASSUME RefineInv, RefineInv', [Next]_vars
  PROVE  \/ Records \/ Clears
         \/ Logged' = Logged /\ (Asks \/ LosesOne \/ GivesUp \/ Request' = Request)
<1> USE DEF RefineInv
<1>1. CASE AppendCall
  <2>1. pc = "append" /\ pc' = "idle" BY <1>1 DEF AppendCall, Return
  <2>2. Asked /\ ~ Asked' BY <2>1 DEF Asked, ListMemoryInv, PcInv, Adding
  <2> DEFINE c == [function |-> given.function, args |-> given.args]
  <2>3. RecordOf(new, heap) \in MayRecord(c, lost) BY <2>1, NewMayBeRecorded
  <2>4. Logged' = Append(Logged, RecordOf(new, heap)) BY <1>1, LogGrows
  <2>5. Request = [call |-> c, lost |-> lost] /\ Request # Null
    BY <2>2, RequestIs DEF ListMemoryInv
  <2>6. Request' = Null BY <2>2 DEF Request
  <2> HIDE DEF c
  <2>7. Request.call = c /\ Request.lost = lost BY <2>5
  <2> QED BY <2>3, <2>4, <2>5, <2>6, <2>7 DEF Records
<1>2. CASE DestroyList
  <2>1. list'.size = 0 /\ pc = "destroy" /\ pc' = "idle" BY <1>2 DEF DestroyList
  <2>2. ListInv' BY DEF ListMemoryInv
  <2>3. DOMAIN Chain' = {} BY <2>1, <2>2 DEF ListInv, Linked
  <2>4. Logged' = << >> BY <2>1, <2>3 DEF Logged, LogOf
  <2>5. Request = Null /\ Request' = Null BY <2>1 DEF Request, Asked
  <2> QED BY <2>4, <2>5 DEF Clears
<1>3. ASSUME pc' = "destroy" PROVE pc \in {"idle", "destroy"}
  <2>1. ~ Return BY <1>3 DEF Return
  <2>2. CASE pc \in Making
    <3>1. given.for \in {"attach", "set", "create"}
      BY <2>2 DEF ListMemoryInv, PcInv
    <3>2. \A c : ~ Deliver(c) BY <1>3, <2>1, <3>1 DEF Deliver
    <3>3. ~ ContextBlock /\ ~ ContextField
      BY <1>3, <3>2 DEF ContextBlock, ContextField
    <3> QED BY <1>3, <2>2, <3>3 DEF Next, vars, AddCall, Name, Arguments, CopyField, Fill, Undo,
          Keep, AppendCall, CreateContext, SetContext, DestroyContext, GiveToList,
          Destroy, DestroyCall, DestroyList, Idle, ArgField, Making, CtxField
  <2>3. CASE pc \notin Making
    <3>1. ~ ContextBlock /\ ~ ContextField BY <2>3 DEF ContextBlock, ContextField, Making
    <3>2. ~ AddCall /\ ~ Name /\ ~ Arguments
      BY <1>3, <2>1 DEF AddCall, Name, Arguments, Attach
    <3>3. ~ CopyField /\ ~ Fill /\ ~ Undo /\ ~ Keep /\ ~ AppendCall
      BY <1>3, <2>1 DEF CopyField, NextField, ArgField, Fill, Undo, Keep, Attach, AppendCall
    <3>4. ~ CreateContext /\ ~ SetContext BY <1>3, <2>1 DEF CreateContext, SetContext
    <3> QED BY <1>3, <3>1, <3>2, <3>3, <3>4 DEF Next, vars, DestroyContext, GiveToList,
          Destroy, DestroyCall, DestroyList, Idle
  <2> QED BY <2>2, <2>3
<1>4. CASE pc' = "destroy"
  <2>1. Request = Null /\ Request' = Null BY <1>3, <1>4 DEF Request, Asked
  <2> QED BY <1>4, <2>1 DEF Clears, Logged
<1>5. CASE ~ AppendCall /\ ~ DestroyList /\ pc' # "destroy"
  <2>1. pc # "destroy"
    BY <1>5 DEF Next, vars, AddCall, Name, Arguments, CopyField, Fill, Undo, Keep,
       CreateContext, SetContext, ContextBlock, ContextField, DestroyContext, GiveToList,
       Destroy, DestroyCall, Idle, ArgField, CtxField
  <2> QED BY <1>5, <2>1, LogStays, RefineRequest
<1> QED BY <1>1, <1>2, <1>4, <1>5

\* The list of mock calls is the log of what add_call was asked: the call itself,
\* whole and last, with "AI_NULL" only for a string that has no data or of which
\* the copy of the data failed, or no call at all; and destroy empties the log;
\* whatever allocations fail and whatever contexts are set (mock.c:48-165,
\* 224-266).
THEOREM MockImplementsCallLog == Spec => ImplementsCallLog
<1>1. Init => RefineInv
  BY ListMemoryInit DEF Init, RecordInv, LostInv, Asked, RefineInv
<1>2. RefineInv /\ [Next]_vars => RefineInv'
  BY ListMemoryStep, RecordStep, LostStep DEF RefineInv, ListMemoryInv
<1>3. Init => Log!Init BY RefineInit
<1> DEFINE log == IF pc = "destroy" THEN << >>
                  ELSE [n \in DOMAIN Chain |-> Recorded(calls[Chain[n]])]
           Step == Log!Ask \/ Log!Lose \/ Log!GiveUp \/ Log!Record \/ Log!Clear
<1>4. RefineInv /\ RefineInv' /\ [Next]_vars => [Step]_<< log, Request >>
  <2> SUFFICES ASSUME RefineInv, RefineInv', [Next]_vars
               PROVE  [Step]_<< log, Request >>
    OBVIOUS
  <2>1. log = Logged BY LogIsLogged
  <2>2. log' = Logged' BY DEF Logged, LogOf, RecordOf, Recorded, Content
  <2>3. Clears => Log!Clear BY <2>2 DEF Log!Clear, Clears
  <2>4. Records => Log!Record BY <2>1, <2>2 DEF Log!Record, Records
  <2>5. Asks /\ log' = log => Log!Ask BY DEF Log!Ask, Asks
  <2>6. LosesOne /\ log' = log => Log!Lose BY DEF Log!Lose, LosesOne
  <2>7. GivesUp /\ log' = log => Log!GiveUp BY DEF Log!GiveUp, GivesUp
  <2> HIDE DEF log
  <2> QED BY RefineStep, <2>1, <2>2, <2>3, <2>4, <2>5, <2>6, <2>7
<1> QED BY <1>1, <1>2, <1>3, <1>4, PTL DEF Spec, ImplementsCallLog, Log!Spec

=============================================================================
