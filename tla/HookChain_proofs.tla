--------------------------- MODULE HookChain_proofs ---------------------------
(***************************************************************************)
(* Proofs about HookChain, for any functions, hook functions and import    *)
(* jump tables.  SkipJumps and the calls themselves are recursive, so the  *)
(* first part shows that they come to an end: a hook is installed on code  *)
(* that was there before it, so neither the jumps to newer hooks nor the   *)
(* way back to older ones can be followed for ever.                        *)
(***************************************************************************)
EXTENDS HookChain, SequenceTheorems, TLAPS

(* nxt cannot be followed in A for ever *)
Ends(nxt, A) == \A T \in SUBSET A : T # {} => \E b \in T : nxt[b] \notin T

(* s is defined by recursion along nxt *)
Recursive(s, nxt, base, step, A, None) ==
  \A b \in A : s[b] = IF nxt[b] = None THEN base[b] ELSE step[<<b, s[nxt[b]]>>]

(* A function defined by recursion along nxt exists if nxt cannot be followed for ever. *)
LEMMA Recursion ==
  \A A, V, None, nxt, base, step :
    /\ None \notin A /\ nxt \in [A -> A \union {None}] /\ Ends(nxt, A)
    /\ base \in [A -> V] /\ step \in [A \X V -> V]
    => \E s \in [A -> V] : Recursive(s, nxt, base, step, A, None)
<1> SUFFICES ASSUME NEW A, NEW V, NEW None, None \notin A,
                    NEW nxt \in [A -> A \union {None}], Ends(nxt, A),
                    NEW base \in [A -> V], NEW step \in [A \X V -> V]
             PROVE  \E s \in [A -> V] : Recursive(s, nxt, base, step, A, None)
  BY Zenon
<1> DEFINE Closed(R) ==
             /\ \A b \in A : nxt[b] = None => <<b, base[b]>> \in R
             /\ \A b \in A, v \in V :
                  nxt[b] # None /\ <<nxt[b], v>> \in R => <<b, step[<<b, v>>]>> \in R
           G == {p \in A \X V : \A R \in SUBSET (A \X V) : Closed(R) => p \in R}
<1>1. \A R \in SUBSET (A \X V) : Closed(R) => G \subseteq R
  OBVIOUS
<1>2. Closed(G)
  <2>1. ASSUME NEW b \in A, nxt[b] = None PROVE <<b, base[b]>> \in G
    BY <2>1
  <2>2. ASSUME NEW b \in A, NEW v \in V, nxt[b] # None, <<nxt[b], v>> \in G
        PROVE  <<b, step[<<b, v>>]>> \in G
    <3>1. step[<<b, v>>] \in V
      OBVIOUS
    <3>2. ASSUME NEW R \in SUBSET (A \X V), Closed(R) PROVE <<b, step[<<b, v>>]>> \in R
      <4>1. <<nxt[b], v>> \in R
        BY <1>1, <2>2, <3>2
      <4>. QED BY <2>2, <3>2, <4>1
    <3>. QED BY <3>1, <3>2
  <2>. QED BY <2>1, <2>2
<1> DEFINE One(b) == \E v \in V : <<b, v>> \in G /\ \A w \in V : <<b, w>> \in G => w = v
           F == {b \in A : ~One(b)}
<1>3. G \subseteq A \X V
  OBVIOUS
<1> HIDE DEF G
<1>4. F = {}
  <2> SUFFICES ASSUME F # {} PROVE FALSE
    OBVIOUS
  <2>1. PICK b \in F : nxt[b] \notin F
    BY DEF Ends
  <2>2. b \in A /\ ~One(b)
    OBVIOUS
  <2>3. CASE nxt[b] = None
    <3>1. base[b] \in V /\ <<b, base[b]>> \in G
      BY <1>2, <2>2, <2>3
    <3>2. PICK w \in V : <<b, w>> \in G /\ w # base[b]
      BY <2>2, <3>1
    <3> DEFINE R == G \ {<<b, w>>}
    <3>3. Closed(R)
      BY <1>2, <2>2, <2>3, <3>2
    <3>. QED BY <1>1, <1>3, <3>2, <3>3
  <2>4. CASE nxt[b] # None
    <3>1. nxt[b] \in A /\ One(nxt[b])
      BY <2>1, <2>2, <2>4
    <3>2. PICK u \in V : <<nxt[b], u>> \in G /\ \A w \in V : <<nxt[b], w>> \in G => w = u
      BY <3>1
    <3>3. step[<<b, u>>] \in V /\ <<b, step[<<b, u>>]>> \in G
      BY <1>2, <2>2, <2>4, <3>2
    <3>4. PICK w \in V : <<b, w>> \in G /\ w # step[<<b, u>>]
      BY <2>2, <3>3
    <3> DEFINE R == G \ {<<b, w>>}
    <3>5. Closed(R)
      <4>1. ASSUME NEW c \in A, nxt[c] = None PROVE <<c, base[c]>> \in R
        BY <1>2, <2>4, <4>1
      <4>2. ASSUME NEW c \in A, NEW v \in V, nxt[c] # None, <<nxt[c], v>> \in R
            PROVE  <<c, step[<<c, v>>]>> \in R
        <5>1. <<nxt[c], v>> \in G /\ <<c, step[<<c, v>>]>> \in G
          BY <1>2, <4>2
        <5>2. c = b => v = u
          BY <3>2, <5>1
        <5>. QED BY <3>4, <5>1, <5>2
      <4>. QED BY <4>1, <4>2
    <3>. QED BY <1>1, <1>3, <3>4, <3>5
  <2>. QED BY <2>3, <2>4
<1> DEFINE s == [b \in A |-> CHOOSE v \in V : <<b, v>> \in G]
<1>5. \A b \in A : s[b] \in V /\ <<b, s[b]>> \in G /\ \A w \in V : <<b, w>> \in G => w = s[b]
  BY <1>4
<1> HIDE DEF s
<1>6. ASSUME NEW b \in A PROVE s[b] = IF nxt[b] = None THEN base[b] ELSE step[<<b, s[nxt[b]]>>]
  <2>1. CASE nxt[b] = None
    BY <1>2, <1>5, <2>1
  <2>2. CASE nxt[b] # None
    <3>1. nxt[b] \in A
      BY <2>2
    <3>2. <<b, step[<<b, s[nxt[b]]>>]>> \in G
      BY <1>2, <1>5, <2>2, <3>1
    <3>. QED BY <1>5, <2>2, <3>1, <3>2
  <2>. QED BY <2>1, <2>2
<1>7. s \in [A -> V]
  BY <1>5 DEF s
<1>. QED BY <1>6, <1>7 DEF Recursive
-------------------------------------------------------------------------------
(* The inductive invariant *)

Installed == {h \in HookFn : true[h] # NULL}

(* A hook in g_pHooks is what the code it was installed on jumps to, and nothing jumps
   but to a hook; the hooks are installed on functions and on hooks before them.       *)
ChainInv ==
  /\ TypeOK
  /\ \A h \in Installed : true[h] = Moved(h) /\ hook[h] = h /\ sys[h] \in Func \union Installed
  /\ \A h \in HookFn \ Installed : sys[h] = NULL /\ hook[h] = NULL /\ stub[h] = NULL
  /\ \A h \in HookFn : stub[h] \in {NULL, h}
  /\ \A h \in live : jump[sys[h]] = h \/ (jump[sys[h]] = Stub(h) /\ stub[h] = h)
  /\ \A c \in Code : jump[c] # NULL => \E h \in live : sys[h] = c
  /\ \A T \in SUBSET Installed : T # {} => \E t \in T : sys[t] \notin T
  /\ \A T \in SUBSET Installed : T # {} => \E t \in T : \A u \in T : sys[u] # t

(* What is an address, and what is none *)
LEMMA Addresses ==
  /\ Code \subseteq Address /\ Thunk \subseteq Address /\ Func \subseteq Code /\ HookFn \subseteq Code
  /\ NULL \notin Address
  /\ \A h \in HookFn : /\ Stub(h) \in Address /\ Moved(h) \in Address
                       /\ Stub(h) \notin Code \union Thunk /\ Moved(h) \notin Code \union Thunk
  /\ \A h, g \in HookFn : Stub(h) # Moved(g)
  /\ \A h, g \in HookFn : (Stub(h) = Stub(g) => h = g) /\ (Moved(h) = Moved(g) => h = g)
BY ChainAssumption DEF Address, Code, Stub, Moved

(* Where the jump at an address leads *)
LEMMA Hops ==
  ASSUME TypeOK
  PROVE  /\ \A b \in Address : Hop(b) \in Address \union {NULL}
         /\ \A b \in Thunk : Hop(b) = Lead[b]
         /\ \A c \in Code : Hop(c) = jump[c]
         /\ \A h \in HookFn : Hop(Stub(h)) = stub[h] /\ Hop(Moved(h)) = NULL
<1>1. \A b \in Thunk : Hop(b) = Lead[b] /\ Lead[b] \in Func \union Thunk
  BY ChainAssumption DEF Hop
<1>2. \A c \in Code : Hop(c) = jump[c]
  BY ChainAssumption DEF Hop
<1>3. \A h \in HookFn : Hop(Stub(h)) = stub[h] /\ Hop(Moved(h)) = NULL
  BY Addresses DEF Hop, Stub, Moved
<1>4. \A c \in Code : jump[c] \in Address \union {NULL}
  BY Addresses DEF TypeOK
<1>5. \A h \in HookFn : stub[h] \in Address \union {NULL}
  BY Addresses DEF TypeOK
<1>6. \A b \in Address : b \in Code \union Thunk \/ \E h \in HookFn : b = Stub(h) \/ b = Moved(h)
  BY DEF Address
<1>. QED BY <1>1, <1>2, <1>3, <1>4, <1>5, <1>6, Addresses

(* A hook in g_pHooks is installed, and where it was installed is known. *)
LEMMA LiveHooks ==
  ASSUME ChainInv, NEW h \in live
  PROVE  h \in Installed /\ sys[h] \in Func \union Installed /\ sys[h] \in Code
<1>1. h \in HookFn /\ sys[h] # NULL
  BY DEF ChainInv, TypeOK
<1>2. h \in Installed
  BY <1>1 DEF ChainInv
<1>. QED BY <1>2, Addresses DEF ChainInv, Installed

(* No jumps lead round in circles: the last of the hooks ends every way. *)
LEMMA JumpsEnd ==
  ASSUME ChainInv, NEW T \in SUBSET Address, T # {}
  PROVE  \E b \in T : Hop(b) \notin T
<1> SUFFICES ASSUME \A b \in T : Hop(b) \in T PROVE FALSE
  OBVIOUS
<1>1. TypeOK /\ NULL \notin T
  BY Addresses DEF ChainInv
<1> DEFINE H == {h \in live : h \in T /\ sys[h] \in T}
<1>2. ASSUME NEW c \in Code, c \in T PROVE \E h \in H : sys[h] = c
  <2>1. jump[c] \in T /\ jump[c] # NULL
    BY <1>1, <1>2, Hops
  <2>2. PICK h \in live : sys[h] = c
    BY <1>2, <2>1 DEF ChainInv
  <2>3. h \in HookFn
    BY <2>2, LiveHooks DEF Installed
  <2>4. CASE jump[c] = h
    BY <1>2, <2>1, <2>2, <2>4
  <2>5. CASE jump[c] = Stub(h) /\ stub[h] = h
    <3>1. h \in T
      BY <1>1, <2>1, <2>3, <2>5, Hops
    <3>. QED BY <1>2, <2>2, <3>1
  <2>. QED BY <2>2, <2>4, <2>5 DEF ChainInv
<1>3. H = {}
  <2> SUFFICES ASSUME H # {} PROVE FALSE
    OBVIOUS
  <2>1. H \in SUBSET Installed
    BY LiveHooks
  <2>2. PICK t \in H : \A u \in H : sys[u] # t
    BY <2>1 DEF ChainInv
  <2>3. t \in Code /\ t \in T
    BY <2>1, <2>2, Addresses DEF Installed
  <2>. QED BY <1>2, <2>2, <2>3
<1>4. \A c \in Code : c \notin T
  BY <1>2, <1>3
<1>5. T \intersect Thunk = {}
  <2> SUFFICES ASSUME T \intersect Thunk # {} PROVE FALSE
    OBVIOUS
  <2>1. PICK t \in T \intersect Thunk : Lead[t] \notin T \intersect Thunk
    BY ChainAssumption
  <2>2. Lead[t] \in T /\ Lead[t] \in Func \union Thunk
    BY <1>1, <2>1, Hops, ChainAssumption
  <2>. QED BY <1>4, <2>1, <2>2, Addresses
<1>6. PICK h \in HookFn : Stub(h) \in T \/ Moved(h) \in T
  BY <1>4, <1>5 DEF Address
<1>7. stub[h] \in T /\ stub[h] \in HookFn \union {NULL}
  BY <1>1, <1>6, Hops DEF TypeOK
<1>. QED BY <1>1, <1>4, <1>7, Addresses

(* SkipJumps follows one jump after the other. *)
LEMMA SkipUnrolls ==
  ASSUME ChainInv
  PROVE  \A b \in Address : SkipJumps(b) = IF Hop(b) = NULL THEN b ELSE SkipJumps(Hop(b))
<1> DEFINE IsSkip(s) == s = [b \in Address |-> IF Hop(b) = NULL THEN b ELSE s[Hop(b)]]
           skip == CHOOSE s : IsSkip(s)
           nxt == [b \in Address |-> Hop(b)]
           base == [b \in Address |-> b]
           step == [p \in Address \X Address |-> p[2]]
<1>1. \E s : IsSkip(s)
  <2>1. nxt \in [Address -> Address \union {NULL}] /\ NULL \notin Address
    BY Hops, Addresses DEF ChainInv
  <2>2. base \in [Address -> Address] /\ step \in [Address \X Address -> Address]
    OBVIOUS
  <2>3. Ends(nxt, Address)
    BY JumpsEnd DEF Ends
  <2>4. \A b \in Address : nxt[b] = Hop(b) /\ base[b] = b
    OBVIOUS
  <2>5. \A b, c \in Address : step[<<b, c>>] = c
    OBVIOUS
  <2> HIDE DEF nxt, base, step
  <2>6. PICK s \in [Address -> Address] : Recursive(s, nxt, base, step, Address, NULL)
    BY <2>1, <2>2, <2>3, Recursion, Zenon
  <2>7. ASSUME NEW b \in Address PROVE s[b] = IF Hop(b) = NULL THEN b ELSE s[Hop(b)]
    <3>1. s[b] = IF Hop(b) = NULL THEN b ELSE step[<<b, s[Hop(b)]>>]
      BY <2>4, <2>6 DEF Recursive
    <3>2. Hop(b) # NULL => s[Hop(b)] \in Address
      BY Hops DEF ChainInv
    <3>. QED BY <2>5, <3>1, <3>2
  <2>8. IsSkip(s)
    BY <2>7
  <2>. QED BY <2>8
<1>2. IsSkip(skip)
  BY <1>1
<1>3. \A c : SkipJumps(c) = skip[c]
  BY DEF SkipJumps
<1>4. \A b \in Address : skip[b] = IF Hop(b) = NULL THEN b ELSE skip[Hop(b)]
  BY <1>2
<1> HIDE DEF skip
<1>. QED BY <1>3, <1>4, Hops DEF ChainInv

(* A hook function that is not installed is not hooked, and moved code does not begin with
   a jump: there is nothing to skip.                                                    *)
LEMMA NothingSkipped ==
  ASSUME ChainInv
  PROVE  /\ \A h \in HookFn \ Installed : jump[h] = NULL /\ SkipJumps(h) = h
         /\ \A h \in HookFn : SkipJumps(Moved(h)) = Moved(h)
<1>1. ASSUME NEW h \in HookFn \ Installed PROVE jump[h] = NULL
  <2> SUFFICES ASSUME jump[h] # NULL PROVE FALSE
    OBVIOUS
  <2>1. PICK g \in live : sys[g] = h
    BY Addresses DEF ChainInv
  <2>. QED BY <2>1, LiveHooks, ChainAssumption
<1>. QED BY <1>1, SkipUnrolls, Hops, Addresses DEF ChainInv

(* Where the callers of a function can come to by jumps alone *)
Reached == Func \union Thunk \union live \union {Stub(g) : g \in {k \in live : stub[k] = k}}

LEMMA ReachedOn ==
  ASSUME ChainInv, NEW b \in Reached
  PROVE  /\ b \in Address
         /\ Hop(b) = NULL => b \in Func \union live
         /\ Hop(b) # NULL => Hop(b) \in Reached
         /\ b \in Func \union live /\ Hop(b) # NULL =>
              \E h \in live : sys[h] = b /\ (Hop(b) = h \/ (Hop(b) = Stub(h) /\ stub[h] = h))
<1>1. live \subseteq HookFn
  BY LiveHooks DEF Installed
<1>2. CASE b \in Thunk
  <2>1. Hop(b) \in Func \union Thunk
    BY <1>2, Hops, ChainAssumption DEF ChainInv
  <2>. QED BY <1>1, <1>2, <2>1, Addresses, ChainAssumption DEF Reached
<1>3. CASE b \in Func \union live
  <2>1. b \in Code /\ Hop(b) = jump[b]
    BY <1>1, <1>3, Hops, Addresses DEF ChainInv
  <2>2. jump[b] # NULL => \E h \in live : sys[h] = b
    BY <2>1 DEF ChainInv
  <2>3. jump[b] # NULL =>
          \E h \in live : sys[h] = b /\ (Hop(b) = h \/ (Hop(b) = Stub(h) /\ stub[h] = h))
    BY <2>1, <2>2 DEF ChainInv
  <2>. QED BY <1>3, <2>1, <2>3, Addresses DEF Reached
<1>4. ASSUME NEW g \in live, stub[g] = g, b = Stub(g)
      PROVE  Hop(b) = g /\ g \in live /\ b \in Address /\ g # NULL /\ b \notin Func \union live
  BY <1>1, <1>4, Hops, Addresses DEF ChainInv
<1>5. CASE b \in {Stub(g) : g \in {k \in live : stub[k] = k}}
  BY <1>4, <1>5 DEF Reached
<1>. QED BY <1>2, <1>3, <1>5 DEF Reached

(* SkipJumps comes to code that begins with no jump: the function or its last hook. *)
LEMMA SkipEnds ==
  ASSUME ChainInv, NEW b \in Reached
  PROVE  SkipJumps(b) \in Func \union live /\ jump[SkipJumps(b)] = NULL
<1> DEFINE Good(c) == SkipJumps(c) \in Func \union live /\ jump[SkipJumps(c)] = NULL
           T == {c \in Reached : ~Good(c)}
<1>1. T \subseteq Address
  BY ReachedOn
<1>2. ASSUME NEW c \in T PROVE Hop(c) \in T
  <2>1. c \in Reached /\ ~Good(c)
    OBVIOUS
  <2> HIDE DEF T
  <2>2. CASE Hop(c) = NULL
    <3>1. SkipJumps(c) = c /\ c \in Func \union live
      BY <2>1, <2>2, ReachedOn, SkipUnrolls
    <3>2. c \in Code
      BY <3>1, Addresses, LiveHooks DEF Installed
    <3>. QED BY <2>1, <2>2, <3>1, <3>2, Hops DEF ChainInv
  <2>3. CASE Hop(c) # NULL
    <3>1. Hop(c) \in Reached /\ SkipJumps(c) = SkipJumps(Hop(c))
      BY <2>1, <2>3, ReachedOn, SkipUnrolls
    <3>2. ~Good(Hop(c))
      BY <2>1, <3>1
    <3>. QED BY <3>1, <3>2 DEF T
  <2>. QED BY <2>2, <2>3
<1> HIDE DEF T
<1>3. T = {}
  BY <1>1, <1>2, JumpsEnd
<1>. QED BY <1>3 DEF T
-------------------------------------------------------------------------------
(* The steps *)

LEMMA InitOK == Init => ChainInv
<1> SUFFICES ASSUME Init PROVE ChainInv
  OBVIOUS
<1>1. TypeOK
  BY DEF Init, TypeOK
<1>2. Installed = {} /\ live = {} /\ \A c \in Code : jump[c] = NULL
  BY DEF Init, Installed
<1>. QED BY <1>1, <1>2 DEF Init, ChainInv, Installed

(* Both forms of Mhook_SetHook, and what they have found *)
Hooked(h, e, first, stubTo) ==
  /\ h \in HookFn \ Installed /\ e \in Func \union live /\ jump[e] = NULL
  /\ (first = h /\ stubTo = NULL) \/ (first = Stub(h) /\ stubTo = h)
  /\ Write(h, e, h, first, stubTo)
  /\ true' = [true EXCEPT ![h] = Moved(h)]
  /\ UNCHANGED removed

LEMMA SetHooks ==
  ASSUME ChainInv, NEW a \in Func \union Thunk, NEW h \in HookFn, SetHook(a, h) \/ SetHookFar(a, h)
  PROVE  \E first, stubTo : Hooked(h, SkipJumps(a), first, stubTo)
<1>1. h \in HookFn \ Installed
  BY DEF SetHook, SetHookFar, Installed
<1>2. SkipJumps(a) \in Func \union live /\ jump[SkipJumps(a)] = NULL
  BY SkipEnds DEF Reached
<1>3. SkipJumps(h) = h
  BY <1>1, NothingSkipped
<1>4. SetHook(a, h) => Hooked(h, SkipJumps(a), h, NULL)
  BY <1>1, <1>2, <1>3 DEF Hooked, SetHook, Write
<1>5. SetHookFar(a, h) => Hooked(h, SkipJumps(a), Stub(h), h)
  BY <1>1, <1>2, <1>3 DEF Hooked, SetHookFar, Write
<1>. QED BY <1>4, <1>5

(* Removing a hook that is in g_pHooks *)
LEMMA UnhookRestores ==
  ASSUME ChainInv, NEW h \in HookFn
  PROVE  /\ UnhookByHook(h) => h \in live /\ Restore(h) /\ UNCHANGED <<true, removed>>
         /\ UnhookVariable(h) => UNCHANGED <<jump, stub, sys, hook, live, true>>
                                 /\ removed' \in SUBSET HookFn
<1>1. \A t \in live : t \in HookFn /\ hook[t] = t
  BY LiveHooks DEF ChainInv, Installed
<1>2. UnhookByHook(h) => h \in live /\ Restore(h) /\ UNCHANGED <<true, removed>>
  BY <1>1 DEF UnhookByHook, Get
<1>3. ASSUME UnhookVariable(h)
      PROVE  UNCHANGED <<jump, stub, sys, hook, live, true>> /\ removed' \in SUBSET HookFn
  <2>1. true[h] = Moved(h)
    BY <1>3 DEF UnhookVariable, ChainInv, Installed
  <2>2. Get(true[h]) = {}
    BY <1>1, <2>1, Addresses DEF Get
  <2>3. removed' = removed \union {h} /\ removed \in SUBSET HookFn
    BY <1>3 DEF UnhookVariable, ChainInv, TypeOK
  <2>. QED BY <1>3, <2>2, <2>3 DEF UnhookVariable
<1>. QED BY <1>2, <1>3

LEMMA HookedKeeps ==
  ASSUME ChainInv, NEW h, NEW e, NEW first, NEW stubTo, Hooked(h, e, first, stubTo)
  PROVE  ChainInv'
<1>1. /\ h \in HookFn /\ h \notin Installed /\ e \in Func \union live /\ jump[e] = NULL
      /\ (first = h /\ stubTo = NULL) \/ (first = Stub(h) /\ stubTo = h)
      /\ jump' = [jump EXCEPT ![e] = first] /\ stub' = [stub EXCEPT ![h] = stubTo]
      /\ sys' = [sys EXCEPT ![h] = e] /\ hook' = [hook EXCEPT ![h] = h]
      /\ live' = live \union {h} /\ true' = [true EXCEPT ![h] = Moved(h)] /\ removed' = removed
  BY DEF Hooked, Write
<1>2. e \in Code /\ e # NULL /\ e # h /\ h \notin live /\ e \in Func \union Installed
  BY <1>1, LiveHooks, Addresses, ChainAssumption DEF Installed
<1>3. Installed' = Installed \union {h}
  BY <1>1, Addresses DEF Installed, ChainInv, TypeOK
<1>4. /\ jump'[e] = first /\ \A c \in Code \ {e} : jump'[c] = jump[c]
      /\ stub'[h] = stubTo /\ sys'[h] = e /\ hook'[h] = h /\ true'[h] = Moved(h)
      /\ \A g \in HookFn \ {h} : /\ stub'[g] = stub[g] /\ sys'[g] = sys[g]
                                 /\ hook'[g] = hook[g] /\ true'[g] = true[g]
  <2>. TypeOK
    BY DEF ChainInv
  <2>. QED BY <1>1, <1>2 DEF TypeOK
<1>5. TypeOK'
  <2>1. first \in HookFn \union {Stub(t) : t \in HookFn} /\ stubTo \in HookFn \union {NULL}
    BY <1>1
  <2>2. jump' \in [Code -> HookFn \union {Stub(t) : t \in HookFn} \union {NULL}]
    BY <1>1, <1>2, <2>1 DEF ChainInv, TypeOK
  <2>3. stub' \in [HookFn -> HookFn \union {NULL}] /\ hook' \in [HookFn -> HookFn \union {NULL}]
    BY <1>1, <2>1 DEF ChainInv, TypeOK
  <2>4. sys' \in [HookFn -> Code \union {NULL}]
    BY <1>1, <1>2 DEF ChainInv, TypeOK
  <2>5. true' \in [HookFn -> Code \union {Moved(t) : t \in HookFn} \union {NULL}]
    BY <1>1 DEF ChainInv, TypeOK
  <2>6. live' \in SUBSET {t \in HookFn : sys'[t] # NULL}
    BY <1>1, <1>2, <1>4 DEF ChainInv, TypeOK
  <2>7. removed' \in SUBSET HookFn
    BY <1>1 DEF ChainInv, TypeOK
  <2>. QED BY <2>2, <2>3, <2>4, <2>5, <2>6, <2>7 DEF TypeOK
<1>6. \A g \in Installed' : true'[g] = Moved(g) /\ hook'[g] = g /\ sys'[g] \in Func \union Installed'
  <2>1. \A g \in Installed : g \in HookFn /\ g # h
    BY <1>1 DEF Installed
  <2>. QED BY <1>2, <1>3, <1>4, <2>1 DEF ChainInv
<1>7. \A g \in HookFn \ Installed' : sys'[g] = NULL /\ hook'[g] = NULL /\ stub'[g] = NULL
  BY <1>3, <1>4 DEF ChainInv
<1>8. \A g \in HookFn : stub'[g] \in {NULL, g}
  BY <1>1, <1>4 DEF ChainInv
<1>9. ASSUME NEW g \in live'
      PROVE  jump'[sys'[g]] = g \/ (jump'[sys'[g]] = Stub(g) /\ stub'[g] = g)
  <2>1. CASE g = h
    BY <1>1, <1>4, <2>1
  <2>2. CASE g # h
    <3>1. g \in live /\ g \in HookFn /\ sys[g] \in Code
      BY <1>1, <2>2, LiveHooks DEF Installed
    <3>2. jump[sys[g]] = g \/ (jump[sys[g]] = Stub(g) /\ stub[g] = g)
      BY <3>1 DEF ChainInv
    <3>3. sys[g] # e
      BY <1>1, <3>1, <3>2, Addresses
    <3>. QED BY <1>4, <2>2, <3>1, <3>2, <3>3
  <2>. QED BY <2>1, <2>2
<1>10. ASSUME NEW c \in Code, jump'[c] # NULL PROVE \E g \in live' : sys'[g] = c
  <2>1. CASE c = e
    BY <1>1, <1>4, <2>1
  <2>2. CASE c # e
    <3>1. PICK g \in live : sys[g] = c
      BY <1>4, <1>10, <2>2 DEF ChainInv
    <3>. QED BY <1>1, <1>2, <1>4, <3>1, LiveHooks DEF Installed
  <2>. QED BY <2>1, <2>2
<1>11. \A g \in Installed : sys'[g] = sys[g] /\ sys[g] # h /\ g \in HookFn
  BY <1>1, <1>4, Addresses, ChainAssumption DEF ChainInv, Installed
<1>12. ASSUME NEW T \in SUBSET Installed', T # {} PROVE \E t \in T : sys'[t] \notin T
  <2>1. CASE T \ {h} = {}
    <3>1. h \in T /\ \A t \in T : t = h
      BY <1>12, <2>1
    <3>. QED BY <1>2, <1>4, <3>1
  <2>2. CASE T \ {h} # {}
    <3>1. T \ {h} \in SUBSET Installed
      BY <1>3
    <3>2. PICK t \in T \ {h} : sys[t] \notin T \ {h}
      BY <2>2, <3>1 DEF ChainInv
    <3>. QED BY <1>11, <3>1, <3>2
  <2>. QED BY <2>1, <2>2
<1>13. ASSUME NEW T \in SUBSET Installed', T # {} PROVE \E t \in T : \A u \in T : sys'[u] # t
  <2>1. CASE h \in T
    BY <1>2, <1>3, <1>4, <1>11, <2>1
  <2>2. CASE h \notin T
    <3>1. T \in SUBSET Installed
      BY <1>3, <2>2
    <3>. QED BY <1>11, <1>13, <3>1 DEF ChainInv
  <2>. QED BY <2>1, <2>2
<1>. QED BY <1>5, <1>6, <1>7, <1>8, <1>9, <1>10, <1>12, <1>13 DEF ChainInv

LEMMA RestoreKeeps ==
  ASSUME ChainInv, NEW t \in live, Restore(t), UNCHANGED <<true, removed>>
  PROVE  ChainInv'
<1>1. /\ jump' = [jump EXCEPT ![sys[t]] = NULL] /\ live' = live \ {t}
      /\ stub' = stub /\ sys' = sys /\ hook' = hook /\ true' = true /\ removed' = removed
  BY DEF Restore
<1>2. t \in HookFn /\ sys[t] \in Code
  BY LiveHooks DEF Installed
<1>3. jump'[sys[t]] = NULL /\ \A c \in Code \ {sys[t]} : jump'[c] = jump[c]
  <2>. TypeOK
    BY DEF ChainInv
  <2>. QED BY <1>1, <1>2 DEF TypeOK
<1>4. TypeOK' /\ Installed' = Installed
  BY <1>1, <1>2 DEF ChainInv, TypeOK, Installed
<1>5. ASSUME NEW g \in live'
      PROVE  jump'[sys[g]] = g \/ (jump'[sys[g]] = Stub(g) /\ stub[g] = g)
  <2>1. g \in live /\ g # t /\ g \in HookFn /\ sys[g] \in Code
    BY <1>1, LiveHooks DEF Installed
  <2>2. /\ jump[sys[g]] = g \/ (jump[sys[g]] = Stub(g) /\ stub[g] = g)
        /\ jump[sys[t]] = t \/ (jump[sys[t]] = Stub(t) /\ stub[t] = t)
    BY <2>1 DEF ChainInv
  <2>3. sys[g] # sys[t]
    BY <1>2, <2>1, <2>2, Addresses
  <2>. QED BY <1>3, <2>1, <2>2, <2>3
<1>6. ASSUME NEW c \in Code, jump'[c] # NULL PROVE \E g \in live' : sys[g] = c
  <2>1. c # sys[t] /\ jump[c] # NULL
    BY <1>3, <1>6
  <2>. QED BY <1>1, <2>1 DEF ChainInv
<1>. QED BY <1>1, <1>4, <1>5, <1>6 DEF ChainInv

LEMMA InvStep == ChainInv /\ [Next]_vars => ChainInv'
<1> SUFFICES ASSUME ChainInv, [Next]_vars PROVE ChainInv'
  OBVIOUS
<1>1. ASSUME NEW a \in Func \union Thunk, NEW h \in HookFn, SetHook(a, h) \/ SetHookFar(a, h)
      PROVE  ChainInv'
  <2>1. PICK first, stubTo : Hooked(h, SkipJumps(a), first, stubTo)
    BY <1>1, SetHooks
  <2>. QED BY <2>1, HookedKeeps
<1>2. ASSUME NEW h \in HookFn, UnhookByHook(h) PROVE ChainInv'
  BY <1>2, UnhookRestores, RestoreKeeps
<1>3. ASSUME UNCHANGED <<jump, stub, sys, hook, live, true>>, removed' \in SUBSET HookFn
      PROVE  ChainInv'
  <2>1. TypeOK' /\ Installed' = Installed
    BY <1>3 DEF ChainInv, TypeOK, Installed
  <2>. QED BY <1>3, <2>1 DEF ChainInv
<1>4. ASSUME NEW h \in HookFn, UnhookVariable(h) PROVE ChainInv'
  BY <1>3, <1>4, UnhookRestores
<1>5. CASE UNCHANGED vars
  BY <1>3, <1>5 DEF vars, ChainInv, TypeOK
<1>. QED BY <1>1, <1>2, <1>4, <1>5 DEF Next

THEOREM Invariant == Spec => []ChainInv
BY InitOK, InvStep, PTL DEF Spec

(* The bytes written are jumps to hook functions and to reverse trampolines, and what a
   trampoline and a True... pointer hold is code.                                      *)
THEOREM TypeCorrect == Spec => []TypeOK
<1>1. ChainInv => TypeOK
  BY DEF ChainInv
<1>. QED BY <1>1, Invariant, PTL
-------------------------------------------------------------------------------
(* What runs *)

(* The body that runs at address b *)
Body(b) == LET at == SkipJumps(b) IN IF at \in Code THEN at ELSE sys[at[2]]

(* Where it is called from next, NULL if nothing is called *)
Onward(b) ==
  IF Body(b) \in Func \union {NULL} THEN NULL ELSE true[Body(b)]

LEMMA Bodies ==
  ASSUME ChainInv
  PROVE  /\ \A b \in Reached : Body(b) = SkipJumps(b) /\ Body(b) \in Func \union live
         /\ \A h \in HookFn : Body(Moved(h)) = sys[h]
         /\ \A b \in Address : Body(b) \in Code \union {NULL}
<1>1. \A h \in HookFn : Stub(h)[2] = h /\ Moved(h)[2] = h
  BY DEF Stub, Moved
<1>2. \A h \in HookFn : Body(Moved(h)) = sys[h]
  BY <1>1, NothingSkipped, Addresses DEF Body
<1>3. ASSUME NEW b \in Reached PROVE Body(b) = SkipJumps(b) /\ Body(b) \in Func \union live
  BY SkipEnds, LiveHooks, Addresses DEF Body, Installed
<1> DEFINE T == {b \in Address : Body(b) \notin Code \union {NULL}}
<1>4. ASSUME NEW b \in T PROVE Hop(b) \in T
  <2>1. b \in Address /\ Body(b) \notin Code \union {NULL}
    OBVIOUS
  <2> HIDE DEF T
  <2>2. TypeOK
    BY DEF ChainInv
  <2>3. CASE Hop(b) = NULL
    <3>1. SkipJumps(b) = b
      BY <2>1, <2>3, SkipUnrolls
    <3>2. b \notin Code
      BY <2>1, <3>1 DEF Body
    <3>3. b \notin Thunk
      BY <2>2, <2>3, Hops, Addresses, ChainAssumption
    <3>4. PICK h \in HookFn : b = Stub(h) \/ b = Moved(h)
      BY <2>1, <3>2, <3>3 DEF Address
    <3>5. Body(b) = sys[h]
      BY <1>1, <3>1, <3>2, <3>4 DEF Body
    <3>. QED BY <2>1, <2>2, <3>5 DEF TypeOK
  <2>4. CASE Hop(b) # NULL
    <3>1. Hop(b) \in Address /\ SkipJumps(b) = SkipJumps(Hop(b))
      BY <2>1, <2>2, <2>4, Hops, SkipUnrolls
    <3>2. Body(b) = Body(Hop(b))
      BY <3>1 DEF Body
    <3>. QED BY <2>1, <3>1, <3>2 DEF T
  <2>. QED BY <2>3, <2>4
<1>5. T = {}
  <2> HIDE DEF T
  <2>1. T \subseteq Address
    BY DEF T
  <2>. QED BY <1>4, <2>1, JumpsEnd
<1>. QED BY <1>2, <1>3, <1>5

(* No call goes on for ever: every hook was installed on code that was there before it. *)
LEMMA CallsEnd ==
  ASSUME ChainInv, NEW T \in SUBSET Address, T # {}
  PROVE  \E b \in T : Onward(b) \notin T
<1> SUFFICES ASSUME \A b \in T : Onward(b) \in T PROVE FALSE
  OBVIOUS
<1> DEFINE U == {h \in Installed : Moved(h) \in T}
<1>1. ASSUME NEW b \in T PROVE Body(b) \in U
  <2>1. Body(b) \notin Func /\ Body(b) # NULL /\ true[Body(b)] \in T
    BY <1>1, Addresses DEF Onward
  <2>2. Body(b) \in HookFn
    BY <1>1, <2>1, Bodies DEF Code
  <2>3. true[Body(b)] # NULL
    BY <2>1, Addresses
  <2>. QED BY <2>1, <2>2, <2>3 DEF Installed, ChainInv
<1>2. PICK t \in U : sys[t] \notin U
  BY <1>1 DEF ChainInv
<1>3. Body(Moved(t)) = sys[t]
  BY Bodies DEF Installed
<1>. QED BY <1>1, <1>2, <1>3

(* Run goes from body to body. *)
LEMMA RunUnrolls ==
  ASSUME ChainInv, NEW b \in Address
  PROVE  /\ Run(b) \in Seq(Code)
         /\ Run(b) = IF Body(b) = NULL THEN <<>>
                     ELSE IF Onward(b) = NULL THEN <<Body(b)>>
                     ELSE <<Body(b)>> \o Run(Onward(b))
<1> DEFINE IsRun(s) ==
             s = [c \in Address |->
                    LET at == SkipJumps(c)
                        body == IF at \in Code THEN at ELSE sys[at[2]]
                    IN  IF body = NULL THEN <<>>
                        ELSE IF body \in Func \/ true[body] = NULL THEN <<body>>
                        ELSE <<body>> \o s[true[body]]]
           One(c) == IF Body(c) = NULL THEN <<>> ELSE <<Body(c)>>
           nxt == [c \in Address |-> Onward(c)]
           base == [c \in Address |-> One(c)]
           step == [p \in Address \X Seq(Code) |-> One(p[1]) \o p[2]]
           run == CHOOSE s : IsRun(s)
<1>1. \A c \in Address : /\ One(c) \in Seq(Code)
                         /\ Onward(c) \in Address \union {NULL}
                         /\ Onward(c) # NULL => Body(c) # NULL
  <2>1. ASSUME NEW c \in Address PROVE Onward(c) \in Address \union {NULL}
    <3>1. Body(c) \notin Func \union {NULL} => Body(c) \in HookFn
      BY Bodies DEF Code
    <3>2. \A h \in HookFn : true[h] \in Address \union {NULL}
      BY Addresses DEF ChainInv, Installed
    <3>. QED BY <3>1, <3>2 DEF Onward
  <2>2. \A c \in Address : One(c) \in Seq(Code)
    BY Bodies
  <2>. QED BY <2>1, <2>2 DEF Onward
<1>2. \A s : IsRun(s) <=>
        s = [c \in Address |-> IF Body(c) = NULL THEN <<>>
                               ELSE IF Onward(c) = NULL THEN <<Body(c)>>
                               ELSE <<Body(c)>> \o s[Onward(c)]]
  <2>1. \A s : \A c \in Address :
          (LET at == SkipJumps(c)
               body == IF at \in Code THEN at ELSE sys[at[2]]
           IN  IF body = NULL THEN <<>>
               ELSE IF body \in Func \/ true[body] = NULL THEN <<body>>
               ELSE <<body>> \o s[true[body]])
          = IF Body(c) = NULL THEN <<>>
            ELSE IF Onward(c) = NULL THEN <<Body(c)>>
            ELSE <<Body(c)>> \o s[Onward(c)]
    BY DEF Body, Onward
  <2>. QED BY <2>1
<1>3. \E s : IsRun(s) /\ s \in [Address -> Seq(Code)]
  <2>1. nxt \in [Address -> Address \union {NULL}] /\ NULL \notin Address
    BY <1>1, Addresses
  <2>2. base \in [Address -> Seq(Code)]
    BY <1>1
  <2>3. step \in [Address \X Seq(Code) -> Seq(Code)]
    <3>1. \A c \in Address, v \in Seq(Code) : One(c) \o v \in Seq(Code)
      BY <1>1, ConcatProperties
    <3> HIDE DEF One
    <3>. QED BY <3>1
  <2>4. Ends(nxt, Address)
    BY CallsEnd DEF Ends
  <2>5. \A c \in Address : nxt[c] = Onward(c) /\ base[c] = One(c)
    OBVIOUS
  <2>6. \A c \in Address, v \in Seq(Code) : step[<<c, v>>] = One(c) \o v
    OBVIOUS
  <2> HIDE DEF nxt, base, step
  <2>7. PICK s \in [Address -> Seq(Code)] : Recursive(s, nxt, base, step, Address, NULL)
    BY <2>1, <2>2, <2>3, <2>4, Recursion, Zenon
  <2>8. ASSUME NEW c \in Address
        PROVE  s[c] = IF Body(c) = NULL THEN <<>>
                      ELSE IF Onward(c) = NULL THEN <<Body(c)>>
                      ELSE <<Body(c)>> \o s[Onward(c)]
    <3>1. s[c] = IF Onward(c) = NULL THEN One(c) ELSE step[<<c, s[Onward(c)]>>]
      BY <2>5, <2>7 DEF Recursive
    <3>2. Onward(c) # NULL => s[Onward(c)] \in Seq(Code)
      BY <1>1
    <3>3. Onward(c) # NULL => s[c] = One(c) \o s[Onward(c)]
      BY <2>6, <3>1, <3>2
    <3>. QED BY <1>1, <3>1, <3>3
  <2>9. s = [c \in Address |-> IF Body(c) = NULL THEN <<>>
                               ELSE IF Onward(c) = NULL THEN <<Body(c)>>
                               ELSE <<Body(c)>> \o s[Onward(c)]]
    BY <2>8
  <2>. QED BY <1>2, <2>9
<1>4. IsRun(run)
  BY <1>3
<1>5. \A c : Run(c) = run[c]
  BY DEF Run
<1> HIDE DEF IsRun, run
<1>6. \A c \in Address : run[c] = IF Body(c) = NULL THEN <<>>
                                  ELSE IF Onward(c) = NULL THEN <<Body(c)>>
                                  ELSE <<Body(c)>> \o run[Onward(c)]
  BY <1>2, <1>4
<1>7. \A c \in Address : Run(c) = IF Body(c) = NULL THEN <<>>
                                  ELSE IF Onward(c) = NULL THEN <<Body(c)>>
                                  ELSE <<Body(c)>> \o Run(Onward(c))
  BY <1>5, <1>6
<1> DEFINE T == {c \in Address : Run(c) \notin Seq(Code)}
<1>8. ASSUME NEW c \in T PROVE Onward(c) \in T
  <2>1. c \in Address /\ Run(c) \notin Seq(Code)
    OBVIOUS
  <2> HIDE DEF T
  <2>2. Body(c) \in Code \union {NULL} /\ <<>> \in Seq(Code)
    BY <2>1, Bodies
  <2>3. Body(c) \in Code => <<Body(c)>> \in Seq(Code)
    OBVIOUS
  <2>4. Body(c) # NULL /\ Onward(c) # NULL /\ Run(c) = <<Body(c)>> \o Run(Onward(c))
    BY <1>7, <2>1, <2>2, <2>3
  <2>5. Run(Onward(c)) \notin Seq(Code)
    BY <2>1, <2>2, <2>3, <2>4, ConcatProperties
  <2>. QED BY <1>1, <2>1, <2>4, <2>5 DEF T
<1>9. T = {}
  <2>1. T \subseteq Address
    OBVIOUS
  <2> HIDE DEF T
  <2>. QED BY <1>8, <2>1, CallsEnd
<1>. QED BY <1>7, <1>9

(* What runs from body c on *)
Calls(c) == IF c \in Func THEN <<c>> ELSE <<c>> \o Run(Moved(c))

LEMMA CallsUnroll ==
  ASSUME ChainInv
  PROVE  /\ \A f \in Func : Calls(f) = <<f>>
         /\ \A h \in Installed : Calls(h) = <<h>> \o Calls(sys[h]) /\ Run(Moved(h)) = Calls(sys[h])
         /\ \A b \in Reached : Run(b) = Calls(SkipJumps(b))
         /\ \A c \in Func \union Installed : Calls(c) \in Seq(Code)
<1>1. ASSUME NEW b \in Address, Body(b) \in Func \union Installed PROVE Run(b) = Calls(Body(b))
  <2>1. Body(b) # NULL
    BY <1>1, Addresses DEF Installed
  <2>2. CASE Body(b) \in Func
    BY <1>1, <2>1, <2>2, RunUnrolls DEF Onward, Calls
  <2>3. CASE Body(b) \notin Func
    <3>1. Onward(b) = Moved(Body(b)) /\ Onward(b) # NULL
      BY <1>1, <2>1, <2>3, Addresses DEF Onward, ChainInv, Installed
    <3>. QED BY <1>1, <2>1, <2>3, <3>1, RunUnrolls DEF Calls
  <2>. QED BY <2>2, <2>3
<1>2. ASSUME NEW b \in Reached PROVE Run(b) = Calls(SkipJumps(b))
  BY <1>1, Bodies, ReachedOn, LiveHooks
<1>3. ASSUME NEW h \in Installed PROVE Run(Moved(h)) = Calls(sys[h])
  <2>1. h \in HookFn /\ Moved(h) \in Address /\ Body(Moved(h)) = sys[h]
    BY Bodies, Addresses DEF Installed
  <2>2. sys[h] \in Func \union Installed
    BY DEF ChainInv
  <2>. QED BY <1>1, <2>1, <2>2
<1>4. \A h \in Installed : h \notin Func
  BY ChainAssumption DEF Installed
<1>5. ASSUME NEW c \in Func \union Installed PROVE Calls(c) \in Seq(Code)
  <2>1. c \in Code
    BY Addresses DEF Installed
  <2>2. <<c>> \in Seq(Code)
    BY <2>1
  <2>3. CASE c \in Func
    BY <2>2, <2>3 DEF Calls
  <2>4. CASE c \notin Func
    <3>1. Run(Moved(c)) \in Seq(Code)
      BY <2>4, RunUnrolls, Addresses DEF Installed
    <3>. QED BY <2>2, <2>4, <3>1, ConcatProperties DEF Calls
  <2>. QED BY <2>3, <2>4
<1>6. \A f \in Func : Calls(f) = <<f>>
  BY DEF Calls
<1>7. \A h \in Installed : Calls(h) = <<h>> \o Calls(sys[h])
  BY <1>3, <1>4 DEF Calls
<1>. QED BY <1>2, <1>3, <1>5, <1>6, <1>7

(* What holds of the functions, and of a hook when it does of what the hook was installed
   on, holds of all.                                                                     *)
LEMMA Downwards ==
  ASSUME ChainInv, NEW B \in SUBSET (Func \union Installed),
         \A c \in B : c \in Installed /\ sys[c] \in B
  PROVE  B = {}
BY DEF ChainInv

(* The function comes last, after hooks only. *)
LEMMA FunctionLast ==
  ASSUME ChainInv, NEW c \in Func \union Installed
  PROVE  /\ Calls(c) # <<>> /\ Calls(c)[Len(Calls(c))] \in Func
         /\ \A i \in 1 .. Len(Calls(c)) - 1 : Calls(c)[i] \in Installed
<1> DEFINE Good(s) == /\ s # <<>> /\ s[Len(s)] \in Func
                      /\ \A i \in 1 .. Len(s) - 1 : s[i] \in Installed
           B == {d \in Func \union Installed : ~Good(Calls(d))}
<1>1. ASSUME NEW d \in B PROVE d \in Installed /\ sys[d] \in B
  <2>1. d \in Func \union Installed /\ ~Good(Calls(d))
    OBVIOUS
  <2> HIDE DEF B
  <2>2. \A f \in Func : Good(<<f>>)
    OBVIOUS
  <2>3. d \in Installed
    BY <2>1, <2>2, CallsUnroll
  <2>4. /\ sys[d] \in Func \union Installed
        /\ Calls(sys[d]) \in Seq(Code) /\ Calls(d) = <<d>> \o Calls(sys[d])
    BY <2>3, CallsUnroll DEF ChainInv
  <2>5. ASSUME NEW s \in Seq(Code), Good(s) PROVE Good(<<d>> \o s)
    <3>1. d \in Code
      BY <2>3, Addresses DEF Installed
    <3>2. <<d>> \in Seq(Code) /\ Len(<<d>>) = 1 /\ <<d>>[1] = d
      BY <3>1
    <3>3. /\ Len(<<d>> \o s) = 1 + Len(s) /\ Len(s) \in Nat \ {0}
          /\ \A i \in 1 .. 1 + Len(s) : (<<d>> \o s)[i] = IF i <= 1 THEN d ELSE s[i - 1]
      BY <2>5, <3>2, ConcatProperties, EmptySeq
    <3>. QED BY <2>3, <2>5, <3>3
  <2> HIDE DEF Good
  <2>6. ~Good(Calls(sys[d]))
    BY <2>1, <2>4, <2>5
  <2>. QED BY <2>3, <2>4, <2>6 DEF B
<1>2. B = {}
  <2> HIDE DEF B
  <2>1. B \subseteq Func \union Installed
    BY DEF B
  <2>. QED BY <1>1, <2>1, Downwards
<1>. QED BY <1>2

(* x comes in <<d>> \o s first or later. *)
LEMMA Prepended ==
  ASSUME NEW S, NEW s \in Seq(S), NEW d \in S
  PROVE  /\ <<d>> \o s \in Seq(S) /\ <<d>> \o s # <<>> /\ Len(<<d>> \o s) = Len(s) + 1
         /\ \A x : Table!Contains(<<d>> \o s, x) <=> x = d \/ Table!Contains(s, x)
         /\ \A i \in 1 .. Len(s) + 1 : (<<d>> \o s)[i] = IF i = 1 THEN d ELSE s[i - 1]
<1>1. <<d>> \in Seq(S) /\ Len(<<d>>) = 1 /\ <<d>>[1] = d /\ Len(s) \in Nat
  OBVIOUS
<1>2. /\ <<d>> \o s \in Seq(S) /\ Len(<<d>> \o s) = 1 + Len(s)
      /\ \A i \in 1 .. 1 + Len(s) : (<<d>> \o s)[i] = IF i <= 1 THEN d ELSE s[i - 1]
  BY <1>1, ConcatProperties
<1>3. \A i \in 1 .. Len(s) + 1 : (<<d>> \o s)[i] = IF i = 1 THEN d ELSE s[i - 1]
  BY <1>1, <1>2
<1>4. ASSUME NEW x PROVE Table!Contains(<<d>> \o s, x) <=> x = d \/ Table!Contains(s, x)
  <2>1. Table!Contains(<<d>> \o s, x) => x = d \/ Table!Contains(s, x)
    BY <1>1, <1>2, <1>3 DEF Table!Contains
  <2>2. x = d => Table!Contains(<<d>> \o s, x)
    BY <1>1, <1>2, <1>3 DEF Table!Contains
  <2>3. ASSUME Table!Contains(s, x) PROVE Table!Contains(<<d>> \o s, x)
    <3>1. PICK i \in 1 .. Len(s) : s[i] = x
      BY <2>3 DEF Table!Contains
    <3>2. i + 1 \in 1 .. Len(<<d>> \o s) /\ (<<d>> \o s)[i + 1] = x
      BY <1>1, <1>2, <1>3, <3>1
    <3>. QED BY <3>2 DEF Table!Contains
  <2>. QED BY <2>1, <2>2, <2>3
<1>5. <<d>> \o s # <<>>
  BY <1>1, <1>2
<1>. QED BY <1>1, <1>2, <1>3, <1>4, <1>5

(* No hook comes twice: it was installed when all that it leads to was there already. *)
LEMMA NoHookTwice ==
  ASSUME ChainInv, NEW c \in Func \union Installed
  PROVE  \A i, j \in 1 .. Len(Calls(c)) : Calls(c)[i] = Calls(c)[j] => i = j
<1>1. ASSUME NEW h \in Installed PROVE ~Table!Contains(Calls(sys[h]), h)
  <2> DEFINE T == {g \in Installed : Table!Contains(Calls(sys[g]), h)}
  <2>1. ASSUME h \in T PROVE \A t \in T : sys[t] \in T
    <3> SUFFICES ASSUME NEW t \in T PROVE sys[t] \in T
      OBVIOUS
    <3>1. t \in Installed /\ Table!Contains(Calls(sys[t]), h)
      OBVIOUS
    <3> HIDE DEF T
    <3>2. sys[t] \in Func \union Installed
      BY <3>1 DEF ChainInv
    <3>3. CASE sys[t] \in Func
      <4>1. Calls(sys[t]) = <<sys[t]>> /\ h \notin Func
        BY <3>3, CallsUnroll, ChainAssumption DEF Installed
      <4>2. ~Table!Contains(<<sys[t]>>, h)
        BY <3>3, <4>1 DEF Table!Contains
      <4>. QED BY <3>1, <4>1, <4>2
    <3>4. CASE sys[t] \in Installed
      <4>1. sys[sys[t]] \in Func \union Installed
        BY <3>4 DEF ChainInv
      <4>2. /\ Calls(sys[t]) = <<sys[t]>> \o Calls(sys[sys[t]])
            /\ Calls(sys[sys[t]]) \in Seq(Code) /\ sys[t] \in Code
        BY <3>4, <4>1, CallsUnroll, Addresses DEF Installed
      <4>3. h = sys[t] \/ Table!Contains(Calls(sys[sys[t]]), h)
        BY <3>1, <4>2, Prepended
      <4>. QED BY <2>1, <3>4, <4>3 DEF T
    <3>. QED BY <3>2, <3>3, <3>4
  <2>2. T \in SUBSET Installed
    OBVIOUS
  <2>3. h \notin T
    <3> HIDE DEF T
    <3>. QED BY <2>1, <2>2 DEF ChainInv
  <2>. QED BY <2>3
<1> DEFINE Good(s) == \A i, j \in 1 .. Len(s) : s[i] = s[j] => i = j
           B == {d \in Func \union Installed : ~Good(Calls(d))}
<1>2. ASSUME NEW d \in B PROVE d \in Installed /\ sys[d] \in B
  <2>1. d \in Func \union Installed /\ ~Good(Calls(d))
    OBVIOUS
  <2> HIDE DEF B
  <2>2. \A f \in Func : Good(<<f>>)
    OBVIOUS
  <2>3. d \in Installed
    BY <2>1, <2>2, CallsUnroll
  <2>4. /\ sys[d] \in Func \union Installed /\ d \in Code
        /\ Calls(sys[d]) \in Seq(Code) /\ Calls(d) = <<d>> \o Calls(sys[d])
    BY <2>3, CallsUnroll, Addresses DEF ChainInv, Installed
  <2>5. ASSUME NEW s \in Seq(Code), Good(s), ~Table!Contains(s, d) PROVE Good(<<d>> \o s)
    BY <2>4, <2>5, Prepended DEF Table!Contains
  <2> HIDE DEF Good
  <2>6. ~Good(Calls(sys[d]))
    BY <1>1, <2>1, <2>3, <2>4, <2>5
  <2>. QED BY <2>3, <2>4, <2>6 DEF B
<1>3. B = {}
  <2> HIDE DEF B
  <2>1. B \subseteq Func \union Installed
    BY DEF B
  <2>. QED BY <1>2, <2>1, Downwards
<1>. QED BY <1>3

(* A hook function reaches the function it was installed on through its True... pointer,
   and comes by no hook twice, whatever was hooked or unhooked since.                  *)
THEOREM OriginalAlwaysReached == Spec => []OriginalReached
<1>1. ASSUME ChainInv, NEW h \in HookFn, true[h] # NULL
      PROVE  LET r == Run(true[h])
             IN  /\ r # <<>> /\ r[Len(r)] \in Func
                 /\ \A i, j \in 1 .. Len(r) : r[i] = r[j] => i = j
  <2>1. h \in Installed /\ true[h] = Moved(h) /\ sys[h] \in Func \union Installed
    BY <1>1 DEF Installed, ChainInv
  <2>2. Run(true[h]) = Calls(sys[h])
    BY <1>1, <2>1, CallsUnroll
  <2>. QED BY <1>1, <2>1, <2>2, FunctionLast, NoHookTwice
<1>2. ChainInv => OriginalReached
  BY <1>1 DEF OriginalReached
<1>. QED BY <1>2, Invariant, PTL
-------------------------------------------------------------------------------
(* The jumps implement the table of hooks *)

Before(s) == SubSeq(s, 1, Len(s) - 1)

LEMMA BeforeIs ==
  ASSUME NEW S, NEW u \in Seq(S), u # <<>>
  PROVE  /\ Before(u) \in Seq(S) /\ Len(Before(u)) = Len(u) - 1
         /\ \A i \in 1 .. Len(u) - 1 : Before(u)[i] = u[i]
<1> DEFINE n == Len(u) - 1
<1>1. n \in Nat /\ \A i \in 1 .. n : u[i] \in S
  BY EmptySeq, ElementOfSeq
<1> HIDE DEF n
<1>2. /\ SubSeq(u, 1, n) \in Seq(S) /\ Len(SubSeq(u, 1, n)) = IF 1 <= n THEN n - 1 + 1 ELSE 0
      /\ \A i \in 1 .. n - 1 + 1 : SubSeq(u, 1, n)[i] = u[1 + i - 1]
  BY <1>1, SubSeqProperties
<1>3. /\ Len(SubSeq(u, 1, n)) = n
      /\ \A i \in 1 .. n : SubSeq(u, 1, n)[i] = u[i]
  BY <1>1, <1>2
<1>. QED BY <1>2, <1>3 DEF Before, n

LEMMA Appended ==
  ASSUME NEW S, NEW p \in Seq(S), NEW s \in Seq(S), s # <<>>
  PROVE  /\ p \o s # <<>> /\ (p \o s)[Len(p \o s)] = s[Len(s)]
         /\ Before(s) \in Seq(S)
         /\ Before(p \o s) = p \o Before(s)
<1>1. Len(p) \in Nat /\ Len(s) \in Nat \ {0}
  BY EmptySeq
<1>2. /\ p \o s \in Seq(S) /\ Len(p \o s) = Len(p) + Len(s)
      /\ \A i \in 1 .. Len(p) + Len(s) : (p \o s)[i] = IF i <= Len(p) THEN p[i] ELSE s[i - Len(p)]
  BY ConcatProperties
<1>4. Before(s) \in Seq(S) /\ Len(Before(s)) = Len(s) - 1 /\ \A i \in 1 .. Len(s) - 1 : Before(s)[i] = s[i]
  BY BeforeIs
<1>5. /\ Before(p \o s) \in Seq(S) /\ Len(Before(p \o s)) = Len(p) + Len(s) - 1
      /\ \A i \in 1 .. Len(p) + Len(s) - 1 : Before(p \o s)[i] = (p \o s)[i]
  <2> DEFINE w == p \o s
  <2>1. w \in Seq(S) /\ Len(w) = Len(p) + Len(s) /\ Len(w) \in Nat \ {0}
    BY <1>1, <1>2
  <2> HIDE DEF w
  <2>2. /\ Before(w) \in Seq(S) /\ Len(Before(w)) = Len(w) - 1
        /\ \A i \in 1 .. Len(w) - 1 : Before(w)[i] = w[i]
    BY <2>1, BeforeIs, EmptySeq
  <2>3. /\ Before(w) \in Seq(S) /\ Len(Before(w)) = Len(p) + Len(s) - 1
        /\ \A i \in 1 .. Len(p) + Len(s) - 1 : Before(w)[i] = w[i]
    BY <2>1, <2>2
  <2>. QED BY <2>3 DEF w
<1>6. /\ p \o Before(s) \in Seq(S) /\ Len(p \o Before(s)) = Len(p) + (Len(s) - 1)
      /\ \A i \in 1 .. Len(p) + (Len(s) - 1) :
           (p \o Before(s))[i] = IF i <= Len(p) THEN p[i] ELSE Before(s)[i - Len(p)]
  <2> DEFINE w == Before(s)
  <2>1. w \in Seq(S) /\ Len(w) = Len(s) - 1
    BY <1>4
  <2> HIDE DEF w
  <2>2. /\ p \o w \in Seq(S) /\ Len(p \o w) = Len(p) + Len(w)
        /\ \A i \in 1 .. Len(p) + Len(w) : (p \o w)[i] = IF i <= Len(p) THEN p[i] ELSE w[i - Len(p)]
    BY <2>1, ConcatProperties
  <2>3. /\ p \o w \in Seq(S) /\ Len(p \o w) = Len(p) + (Len(s) - 1)
        /\ \A i \in 1 .. Len(p) + (Len(s) - 1) :
             (p \o w)[i] = IF i <= Len(p) THEN p[i] ELSE w[i - Len(p)]
    BY <2>1, <2>2
  <2>. QED BY <2>3 DEF w
<1>7. Before(p \o s) = p \o Before(s)
  <2>1. \A i \in 1 .. Len(p) + Len(s) - 1 : Before(p \o s)[i] = (p \o Before(s))[i]
    BY <1>1, <1>2, <1>4, <1>5, <1>6
  <2>2. Len(Before(p \o s)) = Len(p \o Before(s))
    BY <1>1, <1>5, <1>6
  <2>. QED BY <1>5, <1>6, <2>1, <2>2, SeqEqual
<1>. QED BY <1>1, <1>2, <1>4, <1>7

LEMMA SuffixOfAppended ==
  ASSUME NEW S, NEW p \in Seq(S), NEW s \in Seq(S), p # <<>>
  PROVE  Table!IsStrictSuffix(s, p \o s)
<1>1. Len(p) \in Nat \ {0} /\ Len(s) \in Nat
  BY EmptySeq
<1>2. /\ p \o s \in Seq(S) /\ Len(p \o s) = Len(p) + Len(s)
      /\ \A i \in 1 .. Len(p) + Len(s) : (p \o s)[i] = IF i <= Len(p) THEN p[i] ELSE s[i - Len(p)]
  BY ConcatProperties
<1>3. ASSUME NEW u \in Seq(S)
      PROVE  /\ Table!Reverse(u) \in Seq(S) /\ Len(Table!Reverse(u)) = Len(u)
             /\ \A i \in 1 .. Len(u) : Table!Reverse(u)[i] = u[Len(u) - i + 1]
  <2>1. Len(u) \in Nat /\ \A i \in 1 .. Len(u) : u[Len(u) - i + 1] \in S
    BY ElementOfSeq
  <2>2. Table!Reverse(u) = [i \in 1 .. Len(u) |-> u[Len(u) - i + 1]]
    BY DEF Table!Reverse
  <2>. QED BY <2>1, <2>2
<1> DEFINE r == Table!Reverse(s)
           q == Table!Reverse(p \o s)
           n == Len(s)
<1>4. /\ r \in Seq(S) /\ Len(r) = n /\ \A i \in 1 .. n : r[i] = s[n - i + 1]
      /\ q \in Seq(S) /\ Len(q) = Len(p) + n
      /\ \A i \in 1 .. Len(p) + n : q[i] = (p \o s)[Len(p) + n - i + 1]
  <2>1. r \in Seq(S) /\ Len(r) = n /\ \A i \in 1 .. n : r[i] = s[n - i + 1]
    BY <1>3
  <2> DEFINE w == p \o s
  <2>2. w \in Seq(S) /\ Len(w) = Len(p) + n
    BY <1>2
  <2> HIDE DEF w
  <2>3. /\ Table!Reverse(w) \in Seq(S) /\ Len(Table!Reverse(w)) = Len(p) + n
        /\ \A i \in 1 .. Len(p) + n : Table!Reverse(w)[i] = w[Len(p) + n - i + 1]
    <3>1. /\ Table!Reverse(w) \in Seq(S) /\ Len(Table!Reverse(w)) = Len(w)
          /\ \A i \in 1 .. Len(w) : Table!Reverse(w)[i] = w[Len(w) - i + 1]
      BY <1>3, <2>2
    <3>. QED BY <1>1, <2>2, <3>1
  <2>. QED BY <2>1, <2>3 DEF w
<1> HIDE DEF r, q, n
<1>5. \A i \in 1 .. n : r[i] = q[i]
  BY <1>1, <1>2, <1>4 DEF n
<1>6. n \in Nat /\ \A i \in 1 .. n : r[i] \in S /\ q[i] \in S
  BY <1>1, <1>4, <1>5, ElementOfSeq DEF n
<1>7. SubSeq(r, 1, n) = SubSeq(q, 1, n)
  <2>1. \A u \in {r, q} :
          /\ SubSeq(u, 1, n) \in Seq(S) /\ Len(SubSeq(u, 1, n)) = IF 1 <= n THEN n - 1 + 1 ELSE 0
          /\ \A i \in 1 .. n - 1 + 1 : SubSeq(u, 1, n)[i] = u[1 + i - 1]
    BY <1>6, SubSeqProperties
  <2>2. \A u \in {r, q} : /\ SubSeq(u, 1, n) \in Seq(S) /\ Len(SubSeq(u, 1, n)) = n
                          /\ \A i \in 1 .. n : SubSeq(u, 1, n)[i] = u[i]
    BY <1>6, <2>1
  <2>. QED BY <1>5, <1>6, <2>2, SeqEqual
<1>8. Table!IsPrefix(r, q)
  BY <1>1, <1>4, <1>6, <1>7 DEF Table!IsPrefix
<1>9. s # p \o s
  BY <1>1, <1>2
<1>. QED BY <1>8, <1>9 DEF Table!IsStrictSuffix, Table!IsSuffix, r, q

(* What holds of the live hooks, and of code when it does of the hook installed on it,
   holds of all; the other way round than Downwards.                                  *)
LEMMA Upwards ==
  ASSUME ChainInv, NEW L \in SUBSET live, NEW B \in SUBSET (Func \union L),
         \A c \in B : \E h \in L : h \in B /\ sys[h] = c
  PROVE  B = {}
<1> SUFFICES ASSUME B # {} PROVE FALSE
  OBVIOUS
<1> DEFINE T == {h \in L : h \in B}
<1>1. T # {} /\ T \in SUBSET Installed
  BY LiveHooks
<1>2. \A t \in T : \E u \in T : sys[u] = t
  OBVIOUS
<1> HIDE DEF T
<1>. QED BY <1>1, <1>2 DEF ChainInv

(* Skipping the jumps at hooked code is skipping the jumps at its hook. *)
LEMMA SkipsToHook ==
  ASSUME ChainInv
  PROVE  /\ \A c \in Func \union live : jump[c] = NULL => SkipJumps(c) = c
         /\ \A h \in live : SkipJumps(sys[h]) = SkipJumps(h)
<1>1. \A c \in Func \union live : c \in Code /\ c \in Address
  BY LiveHooks, Addresses DEF Installed
<1>2. \A c \in Func \union live : jump[c] = NULL => SkipJumps(c) = c
  BY <1>1, SkipUnrolls, Hops DEF ChainInv
<1>3. ASSUME NEW h \in live PROVE SkipJumps(sys[h]) = SkipJumps(h)
  <2>1. /\ h \in HookFn /\ h # NULL /\ h \in Address /\ Stub(h) # NULL /\ Stub(h) \in Address
        /\ sys[h] \in Code /\ sys[h] \in Address
    BY LiveHooks, Addresses DEF Installed
  <2>2. Hop(sys[h]) = h \/ (Hop(sys[h]) = Stub(h) /\ Hop(Stub(h)) = h)
    BY <2>1, Hops DEF ChainInv
  <2>. QED BY <2>1, <2>2, SkipUnrolls
<1>. QED BY <1>2, <1>3

(* Above c there are only hooks that come before it in a call. *)
LEMMA JumpsAbove ==
  ASSUME ChainInv, NEW c \in Func \union live
  PROVE  \E q \in Seq(Code) : Calls(SkipJumps(c)) = q \o Calls(c)
<1> DEFINE Good(d) == \E q \in Seq(Code) : Calls(SkipJumps(d)) = q \o Calls(d)
           B == {d \in Func \union live : ~Good(d)}
<1>0. \A d \in Func \union live : Calls(d) \in Seq(Code)
  BY CallsUnroll, LiveHooks
<1>1. ASSUME NEW d \in B PROVE \E h \in live : h \in B /\ sys[h] = d
  <2>1. d \in Func \union live /\ ~Good(d)
    OBVIOUS
  <2> HIDE DEF B
  <2>2. jump[d] # NULL
    <3> SUFFICES ASSUME jump[d] = NULL PROVE FALSE
      OBVIOUS
    <3>1. Calls(SkipJumps(d)) = <<>> \o Calls(d) /\ <<>> \in Seq(Code)
      BY <1>0, <2>1, SkipsToHook, ConcatEmptySeq
    <3>. QED BY <2>1, <3>1
  <2>3. PICK h \in live : sys[h] = d
    BY <2>1, <2>2, LiveHooks, Addresses DEF ChainInv, Installed
  <2>4. ASSUME Good(h) PROVE FALSE
    <3>1. PICK q \in Seq(Code) : Calls(SkipJumps(h)) = q \o Calls(h)
      BY <2>4
    <3>2. /\ Calls(h) = <<h>> \o Calls(d) /\ Calls(d) \in Seq(Code)
          /\ <<h>> \in Seq(Code) /\ q \o <<h>> \in Seq(Code)
      <4>1. h \in Code
        BY LiveHooks, Addresses DEF Installed
      <4>2. <<h>> \in Seq(Code)
        BY <4>1
      <4>. QED BY <1>0, <2>1, <2>3, <4>2, LiveHooks, CallsUnroll, ConcatProperties
    <3>3. Calls(SkipJumps(d)) = (q \o <<h>>) \o Calls(d)
      <4>1. SkipJumps(d) = SkipJumps(h)
        BY <2>3, SkipsToHook
      <4>2. (q \o <<h>>) \o Calls(d) = q \o (<<h>> \o Calls(d))
        BY <3>2, ConcatAssociative
      <4>. QED BY <3>1, <3>2, <4>1, <4>2
    <3>. QED BY <2>1, <3>2, <3>3
  <2>. QED BY <2>3, <2>4 DEF B
<1>2. B = {}
  <2> HIDE DEF B
  <2>1. B \subseteq Func \union live
    BY DEF B
  <2>. QED BY <1>1, <2>1, Upwards
<1>. QED BY <1>2

(* An import jump table leads where one of the functions leads. *)
LEMMA ThunksLead ==
  ASSUME ChainInv, NEW a \in Func \union Thunk
  PROVE  \E f \in Func : SkipJumps(f) = SkipJumps(a)
<1> DEFINE T == {b \in Thunk : \A f \in Func : SkipJumps(f) # SkipJumps(b)}
<1>1. ASSUME NEW b \in T PROVE Lead[b] \in T
  <2>1. b \in Thunk /\ Lead[b] \in Func \union Thunk
    BY ChainAssumption
  <2>2. SkipJumps(b) = SkipJumps(Lead[b])
    BY <2>1, SkipUnrolls, Hops, Addresses DEF ChainInv
  <2>. QED BY <2>1, <2>2
<1>2. T = {}
  <2>1. T \in SUBSET Thunk
    OBVIOUS
  <2> HIDE DEF T
  <2>. QED BY <1>1, <2>1, ChainAssumption
<1>. QED BY <1>2

(* What the steps need to know of the state they lead to *)
Facts ==
  /\ \A c \in Func \union live : jump[c] = NULL => SkipJumps(c) = c
  /\ \A h \in live, c \in Code : sys[h] = c => SkipJumps(c) = SkipJumps(h)
  /\ \A f \in Func : SkipJumps(f) \in Func \union live
  /\ \A f \in Func : Calls(f) = <<f>>
  /\ \A h \in Installed, c \in Code : sys[h] = c => Calls(h) = <<h>> \o Calls(c)
  /\ \A c \in Func \union Installed : Calls(c) \in Seq(Code) /\ Calls(c) # <<>>
  /\ \A f \in Func, c \in Code, s \in Seq(Code) :
       SkipJumps(f) = c /\ Calls(c) = s => Hooks(f) = Before(s) /\ s[Len(s)] = f

LEMMA FactsHold == ChainInv => Facts
<1> SUFFICES ASSUME ChainInv PROVE Facts
  OBVIOUS
<1>1. ASSUME NEW f \in Func
      PROVE  SkipJumps(f) \in Func \union live /\ Hooks(f) = Before(Calls(SkipJumps(f)))
  BY CallsUnroll, SkipEnds DEF Reached, Hooks, Before
<1>2. ASSUME NEW f \in Func PROVE Calls(SkipJumps(f))[Len(Calls(SkipJumps(f)))] = f
  <2>1. PICK q \in Seq(Code) : Calls(SkipJumps(f)) = q \o Calls(f)
    BY JumpsAbove
  <2>2. Calls(f) = <<f>> /\ f \in Code
    BY CallsUnroll, Addresses
  <2>3. <<f>> \in Seq(Code) /\ <<f>> # <<>> /\ <<f>>[Len(<<f>>)] = f
    BY <2>2
  <2>. QED BY <2>1, <2>2, <2>3, Appended
<1>3. \A c \in Func \union Installed : Calls(c) \in Seq(Code) /\ Calls(c) # <<>>
  BY CallsUnroll, FunctionLast
<1>. QED BY <1>1, <1>2, <1>3, SkipsToHook, CallsUnroll DEF Facts

(* What a call runs from old code on stays as it was. *)
LEMMA CallsKept ==
  ASSUME ChainInv, Facts, Facts', Installed \subseteq Installed', \A h \in Installed : sys'[h] = sys[h]
  PROVE  \A c \in Func \union Installed : Calls(c)' = Calls(c)
<1> DEFINE B == {c \in Func \union Installed : Calls(c)' # Calls(c)}
<1>1. ASSUME NEW c \in B PROVE c \in Installed /\ sys[c] \in B
  <2>1. c \in Func \union Installed /\ Calls(c)' # Calls(c)
    OBVIOUS
  <2> HIDE DEF B
  <2>2. c \in Installed
    BY <2>1 DEF Facts
  <2>3. sys[c] \in Func \union Installed /\ sys[c] \in Code
    BY <2>2, Addresses DEF ChainInv, Installed
  <2> DEFINE d == sys[c]
  <2>4. Calls(c) = <<c>> \o Calls(d)
    BY <2>2, <2>3 DEF Facts
  <2>5. PICK e \in Code : e = sys[c]
    BY <2>3
  <2>6. Calls(c)' = <<c>> \o Calls(e)'
    BY <2>2, <2>5 DEF Facts
  <2>7. Calls(e)' # Calls(e)
    BY <2>1, <2>4, <2>5, <2>6
  <2>8. e \in B
    BY <2>3, <2>5, <2>7 DEF B
  <2>. QED BY <2>2, <2>5, <2>8
<1>2. B = {}
  <2> HIDE DEF B
  <2>1. B \subseteq Func \union Installed
    BY DEF B
  <2>. QED BY <1>1, <2>1, Downwards
<1>. QED BY <1>2

hooks == [f \in Func |-> Hooks(f)]

(* A new hook runs first, and then what ran before. *)
LEMMA HookedInstalls ==
  ASSUME ChainInv, Facts, Facts', NEW a \in Func \union Thunk, NEW h, NEW first, NEW stubTo,
         Hooked(h, SkipJumps(a), first, stubTo)
  PROVE  h \in HookFn /\ \E f \in Func : Table!Install(f, h)
<1>1. PICK e \in Func \union live : e = SkipJumps(a)
  BY DEF Hooked
<1>2. /\ h \in HookFn /\ h \notin Installed /\ jump[e] = NULL
      /\ jump' = [jump EXCEPT ![e] = first] /\ sys' = [sys EXCEPT ![h] = e]
      /\ live' = live \union {h} /\ true' = [true EXCEPT ![h] = Moved(h)]
  BY <1>1 DEF Hooked, Write
<1>3. /\ e \in Code /\ e # h /\ h \notin live /\ h \notin Func /\ e \in Func \union Installed
      /\ h \in Code /\ jump[h] = NULL
  BY <1>1, <1>2, LiveHooks, NothingSkipped, Addresses, ChainAssumption DEF Installed
<1>4. /\ \A c \in Code \ {e} : jump'[c] = jump[c]
      /\ sys'[h] = e /\ \A g \in HookFn \ {h} : sys'[g] = sys[g]
      /\ Installed' = Installed \union {h}
  BY <1>2, <1>3, Addresses DEF ChainInv, TypeOK, Installed
<1>5. ASSUME NEW c \in Func \union live
      PROVE  SkipJumps(c)' = IF SkipJumps(c) = e THEN h ELSE SkipJumps(c)
  <2> DEFINE Good(d) == SkipJumps(d)' = IF SkipJumps(d) = e THEN h ELSE SkipJumps(d)
             B == {d \in Func \union live : ~Good(d)}
  <2>1. ASSUME NEW d \in B PROVE \E g \in live : g \in B /\ sys[g] = d
    <3>1. d \in Func \union live /\ ~Good(d)
      OBVIOUS
    <3> HIDE DEF B
    <3>2. d \in Code /\ d \in Func \union live'
      BY <1>2, <3>1, LiveHooks, Addresses DEF Installed
    <3>3. ASSUME d = e PROVE FALSE
      <4>1. SkipJumps(d) = e
        BY <1>2, <3>1, <3>3 DEF Facts
      <4>2. SkipJumps(d)' = SkipJumps(h)'
        BY <1>2, <1>3, <1>4, <3>3 DEF Facts
      <4>3. SkipJumps(h)' = h
        BY <1>2, <1>3, <1>4 DEF Facts
      <4>. QED BY <3>1, <4>1, <4>2, <4>3
    <3>4. ASSUME jump[d] = NULL PROVE FALSE
      <4>1. SkipJumps(d) = d
        BY <3>1, <3>4 DEF Facts
      <4>2. SkipJumps(d)' = d
        BY <1>4, <3>2, <3>3, <3>4 DEF Facts
      <4>. QED BY <3>1, <3>3, <4>1, <4>2
    <3>5. PICK g \in live : sys[g] = d
      BY <3>2, <3>4 DEF ChainInv
    <3>6. g \in live' /\ sys'[g] = d
      BY <1>2, <1>3, <1>4, <3>5, LiveHooks DEF Installed
    <3>7. SkipJumps(d) = SkipJumps(g)
      BY <3>2, <3>5 DEF Facts
    <3>8. SkipJumps(d)' = SkipJumps(g)'
      BY <3>2, <3>6 DEF Facts
    <3>. QED BY <3>1, <3>5, <3>7, <3>8 DEF B
  <2>2. B = {}
    <3> HIDE DEF B
    <3>1. B \subseteq Func \union live
      BY DEF B
    <3>. QED BY <2>1, <3>1, Upwards
  <2>. QED BY <2>2
<1>6. \A c \in Func \union Installed : Calls(c)' = Calls(c)
  <2>1. Installed \subseteq Installed' /\ \A g \in Installed : sys'[g] = sys[g]
    BY <1>2, <1>4 DEF Installed
  <2>. QED BY <2>1, CallsKept
<1>7. Calls(h)' = <<h>> \o Calls(e)
  BY <1>3, <1>4, <1>6 DEF Facts
<1>8. PICK f \in Func : SkipJumps(f) = e
  BY <1>1, ThunksLead
<1>9. /\ Calls(e) \in Seq(Code) /\ Calls(e) # <<>>
      /\ Hooks(f) = Before(Calls(e)) /\ Calls(e)[Len(Calls(e))] = f
  BY <1>3, <1>8 DEF Facts
<1>10. Hooks(f)' = <<h>> \o Hooks(f)
  <2>1. SkipJumps(f)' = h
    BY <1>5, <1>8
  <2>2. PICK s \in Seq(Code) : s = <<h>> \o Calls(e)
    BY <1>3, <1>9, Prepended
  <2>3. Hooks(f)' = Before(s)
    <3>1. \A g \in Func, c \in Code, u \in Seq(Code) :
            SkipJumps(g)' = c /\ Calls(c)' = u => Hooks(g)' = Before(u)
      BY DEF Facts
    <3>. QED BY <1>3, <1>7, <2>1, <2>2, <3>1
  <2>4. <<h>> \in Seq(Code)
    BY <1>3
  <2>5. Before(<<h>> \o Calls(e)) = <<h>> \o Before(Calls(e))
    BY <1>9, <2>4, Appended
  <2>. QED BY <1>9, <2>2, <2>3, <2>5
<1>11. ASSUME NEW g \in Func
       PROVE  \E s \in Seq(Code), c \in Func \union Installed :
                 s = Calls(c) /\ c = SkipJumps(g) /\ s # <<>> /\ Hooks(g) = Before(s) /\ s[Len(s)] = g
  <2>1. PICK c \in Func \union live : c = SkipJumps(g)
    BY DEF Facts
  <2>2. c \in Func \union Installed /\ c \in Code
    BY LiveHooks, Addresses DEF Installed
  <2>3. PICK s \in Seq(Code) : s = Calls(c) /\ s # <<>>
    BY <2>2 DEF Facts
  <2>. QED BY <2>1, <2>2, <2>3 DEF Facts
<1>12. ASSUME NEW g \in Func \ {f} PROVE Hooks(g)' = Hooks(g)
  <2>1. PICK s \in Seq(Code), c \in Func \union Installed :
           s = Calls(c) /\ c = SkipJumps(g) /\ s # <<>> /\ Hooks(g) = Before(s) /\ s[Len(s)] = g
    BY <1>11
  <2>2. c # e
    BY <1>9, <2>1
  <2>3. SkipJumps(g)' = c /\ Calls(c)' = s /\ c \in Code
    BY <1>5, <1>6, <2>1, <2>2, Addresses DEF Installed
  <2>. QED BY <2>1, <2>3 DEF Facts
<1>13. ASSUME NEW g \in Func PROVE ~Table!Contains(Hooks(g), h)
  <2>1. PICK s \in Seq(Code), c \in Func \union Installed :
           s = Calls(c) /\ c = SkipJumps(g) /\ s # <<>> /\ Hooks(g) = Before(s) /\ s[Len(s)] = g
    BY <1>11
  <2>2. \A i \in 1 .. Len(s) - 1 : s[i] \in Installed
    BY <2>1, FunctionLast
  <2>3. Len(Before(s)) = Len(s) - 1 /\ \A i \in 1 .. Len(s) - 1 : Before(s)[i] = s[i]
    BY <2>1, BeforeIs
  <2>. QED BY <1>2, <2>1, <2>2, <2>3 DEF Table!Contains
<1>14. Table!Install(f, h)
  BY <1>10, <1>12, <1>13 DEF Table!Install, Table!Only
<1>. QED BY <1>2, <1>14

(* A hook that is removed takes the hooks that came after it along, or none does. *)
LEMMA RestoreCuts ==
  ASSUME ChainInv, Facts, Facts', NEW t \in live, Restore(t), UNCHANGED <<true, removed>>
  PROVE  (\E f \in Func : Table!CutOff(f)) \/ hooks' = hooks
<1>1. PICK c \in Code : c = sys[t] /\ c \in Func \union Installed
  BY LiveHooks
<1>2. /\ jump' = [jump EXCEPT ![c] = NULL] /\ live' = live \ {t}
      /\ sys' = sys /\ true' = true /\ Installed' = Installed
  BY <1>1 DEF Restore, Installed
<1>3. jump'[c] = NULL /\ \A d \in Code \ {c} : jump'[d] = jump[d]
  <2>. TypeOK
    BY DEF ChainInv
  <2>. QED BY <1>1, <1>2 DEF TypeOK
<1>4. ASSUME NEW d \in Func \union live'
      PROVE  SkipJumps(d)' = SkipJumps(d) \/ (SkipJumps(d)' = c /\ SkipJumps(d) = SkipJumps(t))
  <2> DEFINE Good(b) == \/ SkipJumps(b)' = SkipJumps(b)
                        \/ SkipJumps(b)' = c /\ SkipJumps(b) = SkipJumps(t)
             B == {b \in Func \union live' : ~Good(b)}
  <2>1. ASSUME NEW b \in B PROVE \E g \in live' : g \in B /\ sys[g] = b
    <3>1. b \in Func \union live' /\ ~Good(b)
      OBVIOUS
    <3> HIDE DEF B
    <3>2. b \in Code /\ b \in Func \union live
      BY <1>2, <3>1, LiveHooks, Addresses DEF Installed
    <3>3. b # c
      <4> SUFFICES ASSUME b = c PROVE FALSE
        OBVIOUS
      <4>1. SkipJumps(b) = SkipJumps(t)
        BY <1>1 DEF Facts
      <4>2. SkipJumps(b)' = b
        BY <1>3, <3>1 DEF Facts
      <4>. QED BY <3>1, <4>1, <4>2
    <3>4. ASSUME jump[b] = NULL PROVE FALSE
      <4>1. SkipJumps(b) = b
        BY <3>2, <3>4 DEF Facts
      <4>2. SkipJumps(b)' = b
        BY <1>3, <3>1, <3>2, <3>3, <3>4 DEF Facts
      <4>. QED BY <3>1, <4>1, <4>2
    <3>5. PICK g \in live : sys[g] = b
      BY <3>2, <3>4 DEF ChainInv
    <3>6. g \in live' /\ sys'[g] = b
      BY <1>1, <1>2, <3>3, <3>5
    <3>7. SkipJumps(b) = SkipJumps(g)
      BY <3>2, <3>5 DEF Facts
    <3>8. SkipJumps(b)' = SkipJumps(g)'
      BY <3>2, <3>6 DEF Facts
    <3>. QED BY <3>1, <3>5, <3>6, <3>7, <3>8 DEF B
  <2>2. B = {}
    <3> HIDE DEF B
    <3>1. B \subseteq Func \union live' /\ live' \subseteq live
      BY <1>2 DEF B
    <3>. QED BY <2>1, <3>1, Upwards
  <2>. QED BY <2>2
<1>5. \A d \in Func \union Installed : Calls(d)' = Calls(d)
  BY <1>2, CallsKept
<1>6. ASSUME NEW f \in Func, SkipJumps(f)' = SkipJumps(f) PROVE Hooks(f)' = Hooks(f)
  <2>1. PICK d \in Func \union Installed : d = SkipJumps(f)
    BY LiveHooks DEF Facts
  <2>2. d \in Code
    BY Addresses DEF Installed
  <2>3. PICK s \in Seq(Code) : s = Calls(d)
    BY DEF Facts
  <2>4. Calls(d)' = s /\ SkipJumps(f)' = d
    BY <1>5, <1>6, <2>1, <2>3
  <2>. QED BY <2>1, <2>2, <2>3, <2>4 DEF Facts
<1>7. CASE \A f \in Func : SkipJumps(f)' = SkipJumps(f)
  BY <1>6, <1>7 DEF hooks
<1>8. ASSUME NEW f \in Func, SkipJumps(f)' # SkipJumps(f) PROVE Table!CutOff(f)
  <2>1. SkipJumps(f)' = c /\ SkipJumps(f) = SkipJumps(t)
    BY <1>4, <1>8
  <2>2. PICK s \in Seq(Code) : s = Calls(c) /\ s # <<>> /\ Calls(c)' = s
    BY <1>1, <1>5 DEF Facts
  <2>3. Hooks(f)' = Before(s) /\ s[Len(s)] = f
    BY <2>1, <2>2 DEF Facts
  <2>4. ASSUME NEW g \in Func \ {f} PROVE Hooks(g)' = Hooks(g)
    <3>1. SkipJumps(g)' # c
      BY <2>2, <2>3 DEF Facts
    <3>. QED BY <1>4, <1>6, <3>1
  <2>5. PICK q \in Seq(Code) : Calls(SkipJumps(t)) = q \o Calls(t)
    BY JumpsAbove
  <2>6. <<t>> \in Seq(Code) /\ q \o <<t>> \in Seq(Code) /\ q \o <<t>> # <<>>
    <3>1. t \in Code
      BY LiveHooks, Addresses DEF Installed
    <3>2. <<t>> \in Seq(Code) /\ <<t>> # <<>>
      BY <3>1
    <3>. QED BY <3>2, ConcatProperties, Appended
  <2>7. Calls(SkipJumps(t)) = (q \o <<t>>) \o s
    <3>1. Calls(t) = <<t>> \o s
      BY <1>1, <2>2, LiveHooks DEF Facts
    <3>. QED BY <2>2, <2>5, <2>6, <3>1, ConcatAssociative
  <2>8. Hooks(f) = Before((q \o <<t>>) \o s)
    <3>1. PICK d \in Func \union live : d = SkipJumps(f)
      BY DEF Facts
    <3>2. d \in Code
      BY LiveHooks, Addresses DEF Installed
    <3>3. (q \o <<t>>) \o s \in Seq(Code)
      BY <2>2, <2>6, ConcatProperties
    <3>4. \A g \in Func, e \in Code, u \in Seq(Code) :
            SkipJumps(g) = e /\ Calls(e) = u => Hooks(g) = Before(u)
      BY DEF Facts
    <3>. QED BY <2>1, <2>7, <3>1, <3>2, <3>3, <3>4
  <2>9. /\ Before((q \o <<t>>) \o s) = (q \o <<t>>) \o Before(s)
        /\ Before(s) \in Seq(Code)
    BY <2>2, <2>6, Appended
  <2>10. Table!IsStrictSuffix(Hooks(f)', Hooks(f))
    <3>1. Table!IsStrictSuffix(Before(s), (q \o <<t>>) \o Before(s))
      BY <2>6, <2>9, SuffixOfAppended
    <3>. QED BY <2>3, <2>8, <2>9, <3>1
  <2>. QED BY <2>4, <2>10 DEF Table!CutOff, Table!Only
<1>. QED BY <1>7, <1>8

LEMMA TableStep ==
  ASSUME ChainInv, Facts, Facts', [Next]_vars
  PROVE  [Table!Next]_hooks
<1>1. ASSUME NEW a \in Func \union Thunk, NEW h \in HookFn, SetHook(a, h) \/ SetHookFar(a, h)
      PROVE  Table!Next
  <2>1. PICK first, stubTo : Hooked(h, SkipJumps(a), first, stubTo)
    BY <1>1, SetHooks
  <2>2. PICK f \in Func : Table!Install(f, h)
    BY <2>1, HookedInstalls
  <2>. QED BY <2>2 DEF Table!Next
<1>2. ASSUME NEW h \in HookFn, UnhookByHook(h) PROVE Table!Next \/ hooks' = hooks
  <2>1. h \in live /\ Restore(h) /\ UNCHANGED <<true, removed>>
    BY <1>2, UnhookRestores
  <2>. QED BY <2>1, RestoreCuts DEF Table!Next
<1>3. ASSUME UNCHANGED <<jump, stub, sys, hook, live, true>> PROVE hooks' = hooks
  <2>1. Installed' = Installed /\ sys' = sys
    BY <1>3 DEF Installed
  <2>2. \A c \in Func \union Installed : Calls(c)' = Calls(c)
    BY <2>1, CallsKept
  <2> DEFINE B == {c \in Func \union live : SkipJumps(c)' # SkipJumps(c)}
  <2>3. ASSUME NEW c \in B PROVE \E g \in live : g \in B /\ sys[g] = c
    <3>1. c \in Func \union live /\ SkipJumps(c)' # SkipJumps(c)
      OBVIOUS
    <3> HIDE DEF B
    <3>2. c \in Code
      BY <3>1, LiveHooks, Addresses DEF Installed
    <3>3. jump[c] # NULL
      BY <1>3, <3>1 DEF Facts
    <3>4. PICK g \in live : sys[g] = c
      BY <3>2, <3>3 DEF ChainInv
    <3>5. SkipJumps(g)' # SkipJumps(g)
      BY <1>3, <3>1, <3>2, <3>4 DEF Facts
    <3>. QED BY <3>4, <3>5 DEF B
  <2>4. B = {}
    <3> HIDE DEF B
    <3>1. B \subseteq Func \union live
      BY DEF B
    <3>. QED BY <2>3, <3>1, Upwards
  <2>5. ASSUME NEW f \in Func PROVE Hooks(f)' = Hooks(f)
    <3>1. SkipJumps(f)' = SkipJumps(f)
      BY <2>4
    <3>2. PICK d \in Func \union Installed : d = SkipJumps(f)
      BY LiveHooks DEF Facts
    <3>3. d \in Code
      BY Addresses DEF Installed
    <3>4. PICK s \in Seq(Code) : s = Calls(d)
      BY DEF Facts
    <3>5. Calls(d)' = s /\ SkipJumps(f)' = d
      BY <2>2, <3>1, <3>2, <3>4
    <3>. QED BY <3>2, <3>3, <3>4, <3>5 DEF Facts
  <2>. QED BY <2>5 DEF hooks
<1>4. ASSUME NEW h \in HookFn, UnhookVariable(h) PROVE hooks' = hooks
  BY <1>3, <1>4, UnhookRestores
<1>5. CASE UNCHANGED vars
  BY <1>3, <1>5 DEF vars
<1>. QED BY <1>1, <1>2, <1>4, <1>5 DEF Next

LEMMA TableInit == Init => Table!Init
<1> SUFFICES ASSUME Init PROVE Table!Init
  OBVIOUS
<1>1. ChainInv /\ \A c \in Code : jump[c] = NULL
  BY InitOK DEF Init
<1>2. ASSUME NEW f \in Func PROVE Hooks(f) = <<>>
  <2>1. SkipJumps(f) = f /\ Calls(f) = <<f>> /\ f \in Code
    BY <1>1, SkipsToHook, CallsUnroll, Addresses
  <2>2. <<f>> \in Seq(Code)
    BY <2>1
  <2>3. Hooks(f) = Before(<<f>>)
    BY <1>1, <2>1, <2>2, FactsHold DEF Facts
  <2>. QED BY <2>3 DEF Before
<1>. QED BY <1>2 DEF Table!Init

(* The jumps implement the table of hooks: a new hook runs first and passes on to the
   older ones, whether the function was named directly or through an import jump table,
   near or far, and a hook that is removed cuts off those that came after it.         *)
THEOREM CallTableImplemented == Spec => ImplementsCallTable
<1>1. ChainInv /\ Facts /\ Facts' /\ [Next]_vars => [Table!Next]_hooks
  BY TableStep
<1>2. ChainInv => Facts
  BY FactsHold
<1>3. Init => Table!Init
  BY TableInit
<1>4. Spec => [][Table!Next]_hooks
  BY <1>1, <1>2, Invariant, PTL DEF Spec
<1>. QED BY <1>3, <1>4, PTL DEF Spec, ImplementsCallTable, Table!Spec, hooks
===============================================================================
