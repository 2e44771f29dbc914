------------------------ MODULE TrampolineList_proofs ------------------------
(* Proofs about TrampolineList, for any number of regions, functions and
   trampolines per block.                                                   *)
EXTENDS TrampolineList, WellFoundedInduction, TLAPS

(* An entry is a region and a place in its block. *)
LEMMA NodePair == \A n \in Node : n[1] \in Region /\ n[2] \in 1 .. PerBlock /\ n = <<n[1], n[2]>>
BY DEF Node

(* Every step keeps the types. *)
LEMMA TypeStep == TypeOK /\ [Next]_vars => TypeOK'
<1> SUFFICES ASSUME TypeOK, [Next]_vars PROVE TypeOK'
  OBVIOUS
<1> USE ListAssumption DEF TypeOK, Null, lists, Return
<1>1. ASSUME NEW f \in Func, StartSetHook(f) PROVE TypeOK'
  BY <1>1 DEF StartSetHook
<1>2. ASSUME NEW h \in Null(Func), StartUnhook(h) PROVE TypeOK'
  BY <1>2 DEF StartUnhook
<1>3. CASE FindNext
  BY <1>3 DEF FindNext
<1>4. CASE FindHit
  BY <1>4 DEF FindHit, ListRemove
<1>5. ASSUME NEW r \in Region, BlockAlloc(r) PROVE TypeOK'
  <2>1. <<r, 1>> \in Node
    BY DEF Node
  <2>2. \A n \in Node : n[2] # 1 => <<r, n[2] - 1>> \in Node
    <3>1. \A i \in 1 .. PerBlock : i # 1 => i - 1 \in 1 .. PerBlock
      OBVIOUS
    <3>. QED BY <3>1, NodePair DEF Node
  <2>3. \A n \in Node : n[2] # PerBlock => <<r, n[2] + 1>> \in Node
    <3>1. \A i \in 1 .. PerBlock : i # PerBlock => i + 1 \in 1 .. PerBlock
      OBVIOUS
    <3>. QED BY <3>1, NodePair DEF Node
  <2>4. prev' \in [Node -> Null(Node)] /\ next' \in [Node -> Null(Node)]
    BY <1>5, <2>2, <2>3 DEF BlockAlloc, LinkBlock
  <2>. QED BY <1>5, <2>1, <2>4 DEF BlockAlloc
<1>6. CASE BlockAllocFails
  BY <1>6 DEF BlockAllocFails
<1>7. CASE NoTrampoline
  BY <1>7 DEF NoTrampoline
<1>8. CASE LinkHook
  BY <1>8 DEF LinkHook, ListPrepend
<1>9. CASE Patch
  BY <1>9 DEF Patch
<1>10. CASE ProtectFails
  BY <1>10 DEF ProtectFails
<1>11. CASE Succeed
  BY <1>11 DEF Succeed
<1>12. CASE Discard
  BY <1>12 DEF Discard, ListRemove
<1>13. CASE Recycle
  BY <1>13 DEF Recycle, ListPrepend
<1>14. CASE GetNext
  BY <1>14 DEF GetNext
<1>15. CASE GetHit
  BY <1>15 DEF GetHit
<1>16. CASE GetMiss
  BY <1>16 DEF GetMiss
<1>17. CASE Unhook
  BY <1>17 DEF Unhook, ListRemove
<1>18. CASE UnhookProtectFails
  BY <1>18 DEF UnhookProtectFails
<1>19. CASE UNCHANGED vars
  BY <1>19 DEF vars
<1>. QED
  BY <1>1, <1>2, <1>3, <1>4, <1>5, <1>6, <1>7, <1>8, <1>9, <1>10, <1>11, <1>12,
     <1>13, <1>14, <1>15, <1>16, <1>17, <1>18, <1>19 DEF Next, Step
-------------------------------------------------------------------------------
(* A list is undisturbed by a step that leaves its entries and their links alone. *)

(* What leaves the links of the entries in use alone keeps the list of hooks. *)
LEMMA HooksFrame ==
  ASSUME TypeOK, HooksLinked,
         On("hooks")' = On("hooks"), gHooks' = gHooks,
         \A n \in On("hooks") : prev'[n] = prev[n] /\ next'[n] = next[n]
  PROVE  HooksLinked'
<1> DEFINE H == On("hooks")
<1>1. H \subseteq Node
  BY DEF On
<1>2. \A n \in H : /\ next[n] # NULL => next[n] \in H /\ prev[next[n]] = n
                   /\ prev[n] # NULL => prev[n] \in H /\ next[prev[n]] = n
                   /\ prev[n] = NULL => gHooks = n
  BY DEF HooksLinked
<1>3. gHooks # NULL => gHooks \in H /\ prev[gHooks] = NULL
  BY DEF HooksLinked
<1> HIDE DEF H
<1>4. H' = H
  BY DEF H
<1>5. \A n \in H : prev'[n] = prev[n] /\ next'[n] = next[n]
  BY DEF H
<1>6. gHooks' # NULL => gHooks' \in H' /\ prev'[gHooks'] = NULL
  BY <1>3, <1>4, <1>5
<1>7. \A n \in H' : /\ next'[n] # NULL => next'[n] \in H' /\ prev'[next'[n]] = n
                    /\ prev'[n] # NULL => prev'[n] \in H' /\ next'[prev'[n]] = n
                    /\ prev'[n] = NULL => gHooks' = n
  BY <1>2, <1>4, <1>5
<1>. QED BY <1>6, <1>7 DEF HooksLinked, H

(* What leaves the links of the free entries alone keeps the free list. *)
LEMMA FreeFrame ==
  ASSUME TypeOK, FreeLinked,
         On("free")' = On("free"), gFree' = gFree,
         \A n \in On("free") : prev'[n] = prev[n] /\ next'[n] = next[n]
  PROVE  FreeLinked'
<1> DEFINE F == On("free")
<1>1. gFree # NULL => gFree \in F /\ prev[gFree] = NULL
  BY DEF FreeLinked
<1>2. \A n \in F : /\ next[n] # NULL =>
                         /\ next[n] \in F \ {gFree}
                         /\ prev[next[n]] = n \/ SpliceSafe(n, next[n])
                   /\ prev[n] # NULL => prev[n] \in F /\ next[prev[n]] = n
  BY DEF FreeLinked
<1>3. \A m, n \in F : next[m] = next[n] /\ next[m] # NULL => m = n
  BY DEF FreeLinked
<1> HIDE DEF F
<1>4. F' = F
  BY DEF F
<1>5. \A n \in F : prev'[n] = prev[n] /\ next'[n] = next[n]
  BY DEF F
<1>6. gFree' # NULL => gFree' \in F' /\ prev'[gFree'] = NULL
  BY <1>1, <1>4, <1>5
<1>7. \A n \in F' : /\ next'[n] # NULL =>
                          /\ next'[n] \in F' \ {gFree'}
                          /\ prev'[next'[n]] = n \/ SpliceSafe(n, next[n])'
                    /\ prev'[n] # NULL => prev'[n] \in F' /\ next'[prev'[n]] = n
  BY <1>2, <1>4, <1>5 DEF SpliceSafe
<1>8. \A m, n \in F' : next'[m] = next'[n] /\ next'[m] # NULL => m = n
  BY <1>3, <1>4, <1>5
<1>. QED BY <1>6, <1>7, <1>8 DEF FreeLinked, F
-------------------------------------------------------------------------------
(* What the two list operations do to a list that is linked. *)

(* Unlinking an entry of the free list that is its head or has its back link. *)
LEMMA RemoveFree ==
  ASSUME TypeOK, FreeLinked,
         NEW c \in On("free"),
         \/ c = gFree
         \/ prev[c] # NULL /\ prev[c] # c,
         ListRemove(gFree, c),
         On("free")' = On("free") \ {c}
  PROVE  FreeLinked'
<1> DEFINE F == On("free")
           p == prev[c]
           q == next[c]
<1>1. F \subseteq Node /\ c \in F /\ NULL \notin F
  BY ListAssumption DEF On
<1>2. gFree # NULL => gFree \in F /\ prev[gFree] = NULL
  BY DEF FreeLinked
<1>3. \A n \in F : /\ next[n] # NULL =>
                         /\ next[n] \in F \ {gFree}
                         /\ prev[next[n]] = n \/ SpliceSafe(n, next[n])
                   /\ prev[n] # NULL => prev[n] \in F /\ next[prev[n]] = n
  BY DEF FreeLinked
<1>4. \A m, n \in F : next[m] = next[n] /\ next[m] # NULL => m = n
  BY DEF FreeLinked
<1>5. F' = F \ {c}
  OBVIOUS
<1>6. /\ \A n \in F' : next'[n] = IF n = p THEN q ELSE next[n]
      /\ \A n \in F' : prev'[n] = IF n = q THEN p ELSE prev[n]
      /\ gFree' = IF gFree = c THEN q ELSE gFree
  <2>. HIDE DEF F
  <2>. QED BY <1>1, <1>5 DEF ListRemove
<1>7. c = gFree \/ p # NULL
  OBVIOUS
<1>8. p # c /\ q # c
  BY <1>1, <1>2, <1>3, <1>4
<1>9. p # NULL => p \in F' /\ next[p] = c
  BY <1>1, <1>3, <1>5, <1>8
<1>10. q # NULL => q \in F' /\ q # gFree
  BY <1>1, <1>3, <1>5, <1>8
<1>11. c = gFree => p = NULL
  BY <1>1, <1>2
<1> HIDE DEF F, p, q
<1>12. \A n \in F' : next'[n] # NULL =>
          /\ next'[n] \in F' \ {gFree'}
          /\ prev'[next'[n]] = n \/ SpliceSafe(n, next[n])'
  <2> SUFFICES ASSUME NEW n \in F', next'[n] # NULL
               PROVE /\ next'[n] \in F' \ {gFree'}
                     /\ prev'[next'[n]] = n \/ SpliceSafe(n, next[n])'
    OBVIOUS
  <2>1. CASE n = p
    BY <2>1, <1>1, <1>5, <1>6, <1>9, <1>10, <1>11
  <2>2. CASE n # p
    <3>1. next'[n] = next[n] /\ next[n] \in F \ {gFree}
      BY <2>2, <1>3, <1>5, <1>6
    <3>2. next[n] # c
      BY <2>2, <3>1, <1>1, <1>4, <1>5, <1>7, <1>9
    <3>3. next[n] # q
      BY <3>1, <1>1, <1>4, <1>5 DEF q
    <3>4. prev'[next[n]] = prev[next[n]]
      BY <3>1, <3>2, <3>3, <1>5, <1>6
    <3>. QED BY <3>1, <3>2, <3>3, <3>4, <1>3, <1>5, <1>6 DEF SpliceSafe
  <2>. QED BY <2>1, <2>2
<1>13. \A n \in F' : prev'[n] # NULL => prev'[n] \in F' /\ next'[prev'[n]] = n
  <2> SUFFICES ASSUME NEW n \in F', prev'[n] # NULL
               PROVE  prev'[n] \in F' /\ next'[prev'[n]] = n
    OBVIOUS
  <2>1. CASE n = q
    BY <2>1, <1>6, <1>9
  <2>2. CASE n # q
    <3>1. prev'[n] = prev[n] /\ prev[n] \in F /\ next[prev[n]] = n
      BY <2>2, <1>3, <1>5, <1>6
    <3>2. prev[n] # c /\ prev[n] # p
      BY <2>2, <3>1, <1>5, <1>9 DEF q
    <3>. QED BY <3>1, <3>2, <1>5, <1>6
  <2>. QED BY <2>1, <2>2
<1>14. gFree' # NULL => gFree' \in F' /\ prev'[gFree'] = NULL
  BY <1>1, <1>2, <1>5, <1>6, <1>10, <1>11
<1>15. \A m, n \in F' : next'[m] = next'[n] /\ next'[m] # NULL => m = n
  BY <1>1, <1>4, <1>5, <1>6 DEF q
<1>. QED
  BY <1>12, <1>13, <1>14, <1>15 DEF FreeLinked, F, SpliceSafe

(* ListRemove takes an entry out of the list of hooks and keeps the rest linked. *)
LEMMA RemoveHooks ==
  ASSUME TypeOK, HooksLinked,
         NEW c \in On("hooks"),
         ListRemove(gHooks, c),
         On("hooks")' = On("hooks") \ {c}
  PROVE  HooksLinked'
<1> DEFINE H == On("hooks")
           p == prev[c]
           q == next[c]
<1>1. H \subseteq Node /\ c \in H /\ NULL \notin H
  BY ListAssumption DEF On
<1>2. gHooks # NULL => gHooks \in H /\ prev[gHooks] = NULL
  BY DEF HooksLinked
<1>3. \A n \in H : /\ next[n] # NULL => next[n] \in H /\ prev[next[n]] = n
                   /\ prev[n] # NULL => prev[n] \in H /\ next[prev[n]] = n
                   /\ prev[n] = NULL => gHooks = n
  BY DEF HooksLinked
<1>4. H' = H \ {c}
  OBVIOUS
<1>5. /\ \A n \in H' : next'[n] = IF n = p THEN q ELSE next[n]
      /\ \A n \in H' : prev'[n] = IF n = q THEN p ELSE prev[n]
      /\ gHooks' = IF gHooks = c THEN q ELSE gHooks
  <2>. HIDE DEF H
  <2>. QED BY <1>1, <1>4 DEF ListRemove
<1>6. p # NULL => p \in H /\ next[p] = c
  BY <1>1, <1>3
<1>7. q # NULL => q \in H /\ prev[q] = c
  BY <1>1, <1>3
<1>8. p = NULL <=> gHooks = c
  BY <1>1, <1>2, <1>3
<1>9. p = c <=> q = c
  BY <1>1, <1>3
<1> HIDE DEF H
<1>10. \A n \in H' : next'[n] # NULL => next'[n] \in H' /\ prev'[next'[n]] = n
  BY <1>1, <1>3, <1>4, <1>5, <1>6, <1>7, <1>9
<1>11. \A n \in H' : prev'[n] # NULL => prev'[n] \in H' /\ next'[prev'[n]] = n
  BY <1>1, <1>3, <1>4, <1>5, <1>6, <1>7, <1>9
<1>12. \A n \in H' : prev'[n] = NULL => gHooks' = n
  BY <1>1, <1>3, <1>4, <1>5, <1>6, <1>7, <1>8
<1>13. gHooks' # NULL => gHooks' \in H' /\ prev'[gHooks'] = NULL
  BY <1>1, <1>2, <1>3, <1>4, <1>5, <1>6, <1>7, <1>8, <1>9
<1>. QED BY <1>10, <1>11, <1>12, <1>13 DEF HooksLinked, H

(* ListPrepend puts an entry in front of the list of hooks. *)
LEMMA PrependHooks ==
  ASSUME TypeOK, HooksLinked,
         NEW c \in Node \ On("hooks"),
         ListPrepend(gHooks, c),
         On("hooks")' = On("hooks") \union {c}
  PROVE  HooksLinked'
<1> DEFINE H == On("hooks")
<1>1. H \subseteq Node /\ c \notin H /\ c \in Node /\ NULL \notin Node
  BY ListAssumption DEF On
<1>2. gHooks # NULL => gHooks \in H /\ prev[gHooks] = NULL
  BY DEF HooksLinked
<1>3. \A n \in H : /\ next[n] # NULL => next[n] \in H /\ prev[next[n]] = n
                   /\ prev[n] # NULL => prev[n] \in H /\ next[prev[n]] = n
                   /\ prev[n] = NULL => gHooks = n
  BY DEF HooksLinked
<1>4. H' = H \union {c}
  OBVIOUS
<1>5. /\ \A n \in H : next'[n] = next[n]
      /\ \A n \in H : prev'[n] = IF n = gHooks THEN c ELSE prev[n]
      /\ prev'[c] = NULL /\ next'[c] = gHooks /\ gHooks' = c
  <2>. HIDE DEF H
  <2>. QED BY <1>1 DEF ListPrepend, TypeOK
<1> HIDE DEF H
<1>6. \A n \in H' : next'[n] # NULL => next'[n] \in H' /\ prev'[next'[n]] = n
  BY <1>1, <1>2, <1>3, <1>4, <1>5
<1>7. \A n \in H' : /\ prev'[n] # NULL => prev'[n] \in H' /\ next'[prev'[n]] = n
                    /\ prev'[n] = NULL => gHooks' = n
  BY <1>1, <1>2, <1>3, <1>4, <1>5
<1>. QED BY <1>1, <1>4, <1>5, <1>6, <1>7 DEF HooksLinked, H

(* ListPrepend puts an entry in front of the free list. *)
LEMMA PrependFree ==
  ASSUME TypeOK, FreeLinked,
         NEW c \in Node \ On("free"),
         ListPrepend(gFree, c),
         On("free")' = On("free") \union {c}
  PROVE  FreeLinked'
<1> DEFINE F == On("free")
<1>1. F \subseteq Node /\ c \notin F /\ c \in Node /\ NULL \notin Node
  BY ListAssumption DEF On
<1>2. gFree # NULL => gFree \in F /\ prev[gFree] = NULL
  BY DEF FreeLinked
<1>3. \A n \in F : /\ next[n] # NULL =>
                         /\ next[n] \in F \ {gFree}
                         /\ prev[next[n]] = n \/ SpliceSafe(n, next[n])
                   /\ prev[n] # NULL => prev[n] \in F /\ next[prev[n]] = n
  BY DEF FreeLinked
<1>4. \A m, n \in F : next[m] = next[n] /\ next[m] # NULL => m = n
  BY DEF FreeLinked
<1>5. F' = F \union {c}
  OBVIOUS
<1>6. /\ \A n \in F : next'[n] = next[n]
      /\ \A n \in F : prev'[n] = IF n = gFree THEN c ELSE prev[n]
      /\ prev'[c] = NULL /\ next'[c] = gFree /\ gFree' = c
  <2>. HIDE DEF F
  <2>. QED BY <1>1 DEF ListPrepend, TypeOK
<1> HIDE DEF F
<1>7. \A n \in F' : next'[n] # NULL =>
         /\ next'[n] \in F' \ {gFree'}
         /\ prev'[next'[n]] = n \/ SpliceSafe(n, next[n])'
  BY <1>1, <1>2, <1>3, <1>5, <1>6 DEF SpliceSafe
<1>8. \A n \in F' : prev'[n] # NULL => prev'[n] \in F' /\ next'[prev'[n]] = n
  BY <1>1, <1>2, <1>3, <1>5, <1>6
<1>9. \A m, n \in F' : next'[m] = next'[n] /\ next'[m] # NULL => m = n
  BY <1>1, <1>2, <1>3, <1>4, <1>5, <1>6
<1>. QED BY <1>1, <1>5, <1>6, <1>7, <1>8, <1>9 DEF FreeLinked, F

(* The new block leads into the old free list, and the back link it omits is
   one that nobody needs, because the windows are nested.                   *)
LEMMA SpliceBlock ==
  ASSUME NestedReach, ListInv, NEW r \in Region, BlockAlloc(r)
  PROVE  FreeLinked'
<1> USE DEF ListInv
<1> DEFINE F == On("free")
           B == {n \in Node : n[1] = r}
<1>1. /\ F \subseteq Node /\ B \subseteq Node /\ NULL \notin Node
      /\ F \intersect B = {}
  BY ListAssumption, NodePair DEF On, SysOK, BlockAlloc
<1>2. gFree # NULL => gFree \in F /\ prev[gFree] = NULL
  BY DEF FreeLinked
<1>3. \A n \in F : /\ next[n] # NULL =>
                         /\ next[n] \in F \ {gFree}
                         /\ prev[next[n]] = n \/ SpliceSafe(n, next[n])
                   /\ prev[n] # NULL => prev[n] \in F /\ next[prev[n]] = n
  BY DEF FreeLinked
<1>4. \A m, n \in F : next[m] = next[n] /\ next[m] # NULL => m = n
  BY DEF FreeLinked
<1>5. F' = F \union B
  BY DEF On, BlockAlloc, TypeOK
<1>6. \A n \in F : next'[n] = next[n] /\ prev'[n] = prev[n]
  <2>1. \A n \in F : n \in Node /\ n[1] # r
    BY <1>1
  <2>. QED BY <2>1 DEF BlockAlloc, LinkBlock
<1>7. \A i \in 1 .. PerBlock :
         /\ <<r, i>> \in B
         /\ next'[<<r, i>>] = IF i = PerBlock THEN gFree ELSE <<r, i + 1>>
         /\ prev'[<<r, i>>] = IF i = 1 THEN NULL ELSE <<r, i - 1>>
  <2> SUFFICES ASSUME NEW i \in 1 .. PerBlock
               PROVE  /\ <<r, i>> \in B
                      /\ next'[<<r, i>>] = IF i = PerBlock THEN gFree ELSE <<r, i + 1>>
                      /\ prev'[<<r, i>>] = IF i = 1 THEN NULL ELSE <<r, i - 1>>
    OBVIOUS
  <2>1. <<r, i>> \in Node /\ <<r, i>>[1] = r /\ <<r, i>>[2] = i
    BY DEF Node
  <2>2. next'[<<r, i>>] = IF i = PerBlock THEN gFree ELSE <<r, i + 1>>
    BY <2>1 DEF BlockAlloc, LinkBlock
  <2>3. prev'[<<r, i>>] = IF i = 1 THEN NULL ELSE <<r, i - 1>>
    BY <2>1 DEF BlockAlloc, LinkBlock
  <2>. QED BY <2>1, <2>2, <2>3
<1>8. /\ \A n \in B : \E i \in 1 .. PerBlock : n = <<r, i>>
      /\ \A n \in B : n[1] = r
      /\ PerBlock \in Nat \ {0}
  BY NodePair, ListAssumption
<1>9. gFree' = <<r, 1>> /\ 1 \in 1 .. PerBlock /\ <<r, 1>> \in B
  <2>1. 1 \in 1 .. PerBlock
    BY <1>8
  <2>. QED BY <2>1, <1>7 DEF BlockAlloc
<1>10. \A g \in Func : gFree # NULL /\ gFree[1] \in Reach[g] => r \in Reach[g]
  <2> SUFFICES ASSUME NEW g \in Func, gFree # NULL, gFree[1] \in Reach[g]
               PROVE  r \in Reach[g]
    OBVIOUS
  <2>1. fn \in Func /\ gFree[1] \notin Reach[fn] /\ r \in Reach[fn]
    BY DEF BlockAlloc, CursorOK, InRange, TypeOK, Null
  <2>. QED BY <2>1 DEF NestedReach
<1> HIDE DEF F, B
<1>11. \A i \in 1 .. PerBlock : next'[<<r, i>>] # NULL =>
          /\ next'[<<r, i>>] \in F' \ {gFree'}
          /\ \/ prev'[next'[<<r, i>>]] = <<r, i>>
             \/ SpliceSafe(<<r, i>>, next[<<r, i>>])'
  <2> SUFFICES ASSUME NEW i \in 1 .. PerBlock, next'[<<r, i>>] # NULL
               PROVE  /\ next'[<<r, i>>] \in F' \ {gFree'}
                      /\ \/ prev'[next'[<<r, i>>]] = <<r, i>>
                         \/ SpliceSafe(<<r, i>>, next[<<r, i>>])'
    OBVIOUS
  <2>1. CASE i = PerBlock
    <3>1. next'[<<r, i>>] = gFree /\ gFree \in F /\ prev'[gFree] = NULL
      BY <2>1, <1>2, <1>6, <1>7
    <3>. QED BY <3>1, <1>1, <1>5, <1>9, <1>10 DEF SpliceSafe
  <2>2. CASE i # PerBlock
    <3>1. i + 1 \in 1 .. PerBlock /\ i + 1 # 1 /\ (i + 1) - 1 = i
      BY <2>2, <1>8
    <3>2. next'[<<r, i>>] = <<r, i + 1>> /\ <<r, i + 1>> \in B
      BY <2>2, <3>1, <1>7
    <3>3. prev'[<<r, i + 1>>] = <<r, i>>
      BY <3>1, <1>7
    <3>4. <<r, i + 1>> # <<r, 1>>
      BY <3>1
    <3>. QED BY <3>2, <3>3, <3>4, <1>5, <1>9
  <2>. QED BY <2>1, <2>2
<1>12. \A i \in 1 .. PerBlock : prev'[<<r, i>>] # NULL =>
          prev'[<<r, i>>] \in F' /\ next'[prev'[<<r, i>>]] = <<r, i>>
  <2> SUFFICES ASSUME NEW i \in 1 .. PerBlock, prev'[<<r, i>>] # NULL
               PROVE  prev'[<<r, i>>] \in F' /\ next'[prev'[<<r, i>>]] = <<r, i>>
    OBVIOUS
  <2>1. i # 1 /\ prev'[<<r, i>>] = <<r, i - 1>>
    BY <1>7
  <2>2. i - 1 \in 1 .. PerBlock /\ i - 1 # PerBlock /\ (i - 1) + 1 = i
    BY <2>1, <1>8
  <2>3. next'[<<r, i - 1>>] = <<r, i>> /\ <<r, i - 1>> \in B
    BY <2>2, <1>7
  <2>. QED BY <2>1, <2>3, <1>5
<1>13. \A n \in F : /\ next'[n] # NULL =>
                        /\ next'[n] \in F' \ {gFree'}
                        /\ prev'[next'[n]] = n \/ SpliceSafe(n, next[n])'
                    /\ prev'[n] # NULL => prev'[n] \in F' /\ next'[prev'[n]] = n
  BY <1>1, <1>3, <1>5, <1>6, <1>9 DEF SpliceSafe
<1>14. \A m, n \in F' : next'[m] = next'[n] /\ next'[m] # NULL => m = n
  <2>1. \A i, j \in 1 .. PerBlock :
          next'[<<r, i>>] = next'[<<r, j>>] /\ next'[<<r, i>>] # NULL => i = j
    <3> SUFFICES ASSUME NEW i \in 1 .. PerBlock, NEW j \in 1 .. PerBlock,
                        next'[<<r, i>>] = next'[<<r, j>>], next'[<<r, i>>] # NULL
                 PROVE  i = j
      OBVIOUS
    <3>1. \A k \in 1 .. PerBlock : k # PerBlock => k + 1 \in 1 .. PerBlock
      BY <1>8
    <3>2. \A k \in 1 .. PerBlock : k # PerBlock => <<r, k + 1>> # gFree
      BY <3>1, <1>1, <1>2, <1>7
    <3>3. CASE i # PerBlock /\ j # PerBlock
      <4>1. <<r, i + 1>> = <<r, j + 1>>
        BY <3>3, <1>7
      <4>. QED BY <4>1
    <3>4. /\ next'[<<r, i>>] = IF i = PerBlock THEN gFree ELSE <<r, i + 1>>
          /\ next'[<<r, j>>] = IF j = PerBlock THEN gFree ELSE <<r, j + 1>>
      BY <1>7
    <3>5. (i = PerBlock) = (j = PerBlock)
      BY <3>2, <3>4
    <3>. QED BY <3>3, <3>5
  <2>2. \A m \in F, i \in 1 .. PerBlock : next'[m] # NULL => next'[m] # next'[<<r, i>>]
    <3> SUFFICES ASSUME NEW m \in F, NEW i \in 1 .. PerBlock, next'[m] # NULL
                 PROVE  next'[m] # next'[<<r, i>>]
      OBVIOUS
    <3>1. next'[m] \in F \ {gFree}
      BY <1>3, <1>6
    <3>2. CASE i = PerBlock
      BY <3>1, <3>2, <1>7
    <3>3. CASE i # PerBlock
      <4>1. i + 1 \in 1 .. PerBlock
        BY <3>3, <1>8
      <4>2. next'[<<r, i>>] \in B
        BY <3>3, <4>1, <1>7
      <4>. QED BY <3>1, <4>2, <1>1
    <3>. QED BY <3>2, <3>3
  <2>. QED BY <2>1, <2>2, <1>4, <1>5, <1>6, <1>8
<1>15. gFree' \in F' /\ prev'[gFree'] = NULL
  BY <1>5, <1>7, <1>9
<1>16. \A n \in F' :
         /\ next'[n] # NULL => /\ next'[n] \in F' \ {gFree'}
                               /\ prev'[next'[n]] = n \/ SpliceSafe(n, next[n])'
         /\ prev'[n] # NULL => prev'[n] \in F' /\ next'[prev'[n]] = n
  <2> SUFFICES ASSUME NEW n \in F'
               PROVE  /\ next'[n] # NULL =>
                           /\ next'[n] \in F' \ {gFree'}
                           /\ prev'[next'[n]] = n \/ SpliceSafe(n, next[n])'
                      /\ prev'[n] # NULL => prev'[n] \in F' /\ next'[prev'[n]] = n
    OBVIOUS
  <2>1. CASE n \in F
    BY <2>1, <1>13
  <2>2. CASE n \in B
    <3>1. PICK i \in 1 .. PerBlock : n = <<r, i>>
      BY <2>2, <1>8
    <3>. QED BY <3>1, <1>11, <1>12
  <2>. QED BY <2>1, <2>2, <1>5
<1>. QED BY <1>14, <1>15, <1>16 DEF FreeLinked, F
-------------------------------------------------------------------------------
(* Steps that leave both lists as they are. *)
LEMMA ListsFrame ==
  ASSUME ListInv, UNCHANGED <<lists, where>>
  PROVE  FreeLinked' /\ HooksLinked'
BY HooksFrame, FreeFrame DEF ListInv, lists, On

(* An entry that FindTrampolineInRange is about to hand out can be unlinked. *)
LEMMA HitHasBackLink ==
  ASSUME ListInv, FindHit
  PROVE  /\ cursor \in On("free")
         /\ cursor = gFree \/ (prev[cursor] # NULL /\ prev[cursor] # cursor)
<1>1. cursor \in On("free") /\ InRange(cursor) /\ fn \in Func
  BY DEF FindHit, ListInv, CursorOK, TypeOK, Null
<1>2. CASE cursor # gFree
  <2>1. PICK n \in On("free") : next[n] = cursor /\ ~InRange(n)
    BY <1>2 DEF FindHit, ListInv, CursorOK
  <2>2. cursor # NULL
    BY DEF FindHit
  <2>3. prev[cursor] = n
    BY <1>1, <2>1, <2>2 DEF ListInv, FreeLinked, SpliceSafe, InRange
  <2>. QED BY <1>1, <2>1, <2>3, ListAssumption DEF On
<1>. QED BY <1>1, <1>2

(* Every step keeps the free list linked. *)
LEMMA FreeStep == NestedReach /\ ListInv /\ [Next]_vars => FreeLinked'
<1> SUFFICES ASSUME NestedReach, ListInv, [Next]_vars PROVE FreeLinked'
  OBVIOUS
<1> USE DEF ListInv
<1>1. CASE UNCHANGED <<lists, where>>
  BY <1>1, ListsFrame
<1>2. CASE FindHit
  <2>1. On("free")' = On("free") \ {cursor}
    BY <1>2 DEF FindHit, On, TypeOK
  <2>2. ListRemove(gFree, cursor)
    BY <1>2 DEF FindHit
  <2>. QED BY <1>2, <2>1, <2>2, HitHasBackLink, RemoveFree
<1>3. ASSUME NEW r \in Region, BlockAlloc(r) PROVE FreeLinked'
  BY <1>3, SpliceBlock
<1>4. CASE BlockAllocFails
  BY <1>4 DEF BlockAllocFails, FreeLinked, On, TypeOK
<1>5. CASE LinkHook
  <2>1. cursor \in Node \ On("free")
    BY <1>5 DEF LinkHook, CursorOK, TypeOK, Null, On
  <2>2. On("free")' = On("free") /\ gFree' = gFree
    BY <1>5, <2>1 DEF LinkHook, On, TypeOK
  <2>3. \A n \in On("free") : prev'[n] = prev[n] /\ next'[n] = next[n]
    <3>1. gHooks \notin On("free")
      BY ListAssumption DEF HooksLinked, On
    <3>. QED BY <1>5, <2>1, <3>1 DEF LinkHook, ListPrepend, On, TypeOK
  <2>. QED BY <2>2, <2>3, FreeFrame
<1>6. CASE Discard \/ Unhook
  <2>1. cursor \in On("hooks") /\ ListRemove(gHooks, cursor) /\ gFree' = gFree
    BY <1>6 DEF Discard, Unhook, CursorOK
  <2>2. On("free")' = On("free")
    BY <1>6, <2>1 DEF Discard, Unhook, On, TypeOK
  <2>3. prev[cursor] \notin On("free") /\ next[cursor] \notin On("free")
    BY <2>1, ListAssumption DEF HooksLinked, On
  <2>4. \A n \in On("free") : prev'[n] = prev[n] /\ next'[n] = next[n]
    BY <2>1, <2>3 DEF ListRemove, On
  <2>. QED BY <2>1, <2>2, <2>4, FreeFrame
<1>7. CASE Recycle
  <2>1. cursor \in Node \ On("free")
    BY <1>7 DEF Recycle, CursorOK, TypeOK, Null, On
  <2>2. On("free")' = On("free") \union {cursor} /\ ListPrepend(gFree, cursor)
    BY <1>7, <2>1 DEF Recycle, On, TypeOK
  <2>. QED BY <2>1, <2>2, PrependFree
<1>. QED
  BY <1>1, <1>2, <1>3, <1>4, <1>5, <1>6, <1>7
  DEF Next, Step, vars, lists, StartSetHook, StartUnhook, FindNext, NoTrampoline, Patch,
      ProtectFails, Succeed, GetNext, GetHit, GetMiss, UnhookProtectFails

(* Every step keeps the list of hooks linked. *)
LEMMA HooksStep == ListInv /\ [Next]_vars => HooksLinked'
<1> SUFFICES ASSUME ListInv, [Next]_vars PROVE HooksLinked'
  OBVIOUS
<1> USE DEF ListInv
<1>1. CASE UNCHANGED <<lists, where>>
  BY <1>1, ListsFrame
<1>2. CASE FindHit
  <2>1. cursor \in On("free") /\ ListRemove(gFree, cursor) /\ gHooks' = gHooks
    BY <1>2, HitHasBackLink DEF FindHit
  <2>2. On("hooks")' = On("hooks")
    BY <1>2, <2>1 DEF FindHit, On, TypeOK
  <2>3. prev[cursor] \notin On("hooks") /\ next[cursor] \notin On("hooks")
    BY <2>1, ListAssumption DEF FreeLinked, On
  <2>4. \A n \in On("hooks") : prev'[n] = prev[n] /\ next'[n] = next[n]
    BY <2>1, <2>3 DEF ListRemove, On
  <2>. QED BY <2>1, <2>2, <2>4, HooksFrame
<1>3. ASSUME NEW r \in Region, BlockAlloc(r) PROVE HooksLinked'
  <2>1. \A n \in On("hooks") : n \in Node /\ n[1] # r
    BY <1>3 DEF BlockAlloc, SysOK, On
  <2>2. On("hooks")' = On("hooks") /\ gHooks' = gHooks
    BY <1>3, <2>1 DEF BlockAlloc, On, TypeOK
  <2>3. \A n \in On("hooks") : prev'[n] = prev[n] /\ next'[n] = next[n]
    BY <1>3, <2>1 DEF BlockAlloc, LinkBlock
  <2>. QED BY <2>2, <2>3, HooksFrame
<1>4. CASE BlockAllocFails
  <2>1. On("hooks")' = On("hooks")
    BY <1>4 DEF BlockAllocFails, On, TypeOK
  <2>. QED BY <1>4, <2>1, HooksFrame DEF BlockAllocFails
<1>5. CASE LinkHook
  <2>1. cursor \in Node \ On("hooks")
    BY <1>5 DEF LinkHook, CursorOK, TypeOK, Null, On
  <2>2. On("hooks")' = On("hooks") \union {cursor} /\ ListPrepend(gHooks, cursor)
    BY <1>5, <2>1 DEF LinkHook, On, TypeOK
  <2>. QED BY <2>1, <2>2, PrependHooks
<1>6. CASE Discard \/ Unhook
  <2>1. cursor \in On("hooks") /\ ListRemove(gHooks, cursor)
    BY <1>6 DEF Discard, Unhook, CursorOK
  <2>2. On("hooks")' = On("hooks") \ {cursor}
    BY <1>6, <2>1 DEF Discard, Unhook, On, TypeOK
  <2>. QED BY <2>1, <2>2, RemoveHooks
<1>7. CASE Recycle
  <2>1. cursor \in Node \ On("hooks")
    BY <1>7 DEF Recycle, CursorOK, TypeOK, Null, On
  <2>2. On("hooks")' = On("hooks") /\ gHooks' = gHooks
    BY <1>7, <2>1 DEF Recycle, On, TypeOK
  <2>3. gFree \notin On("hooks")
    BY ListAssumption DEF FreeLinked, On
  <2>4. \A n \in On("hooks") : prev'[n] = prev[n] /\ next'[n] = next[n]
    BY <1>7, <2>1, <2>3 DEF Recycle, ListPrepend, On, TypeOK
  <2>. QED BY <2>2, <2>4, HooksFrame
<1>. QED
  BY <1>1, <1>2, <1>3, <1>4, <1>5, <1>6, <1>7
  DEF Next, Step, vars, lists, StartSetHook, StartUnhook, FindNext, NoTrampoline, Patch,
      ProtectFails, Succeed, GetNext, GetHit, GetMiss, UnhookProtectFails

(* Every step keeps what a search knows of the entry it is at. *)
LEMMA CursorStep == ListInv /\ [Next]_vars => CursorOK'
<1> SUFFICES ASSUME ListInv, [Next]_vars PROVE CursorOK'
  OBVIOUS
<1> USE DEF ListInv, CursorOK, On, InRange, lists, Return
<1>1. ASSUME NEW f \in Func, StartSetHook(f) PROVE CursorOK'
  BY <1>1 DEF StartSetHook, FreeLinked
<1>2. ASSUME NEW h \in Null(Func), StartUnhook(h) PROVE CursorOK'
  BY <1>2 DEF StartUnhook, HooksLinked
<1>3. CASE FindNext
  BY <1>3 DEF FindNext, FreeLinked, TypeOK, Null
<1>4. CASE FindHit
  <2>1. cursor \in Node
    BY <1>4, HitHasBackLink
  <2>2. prev'[cursor] = NULL /\ next'[cursor] = NULL /\ where'[cursor] = "held"
    BY <1>4, <2>1 DEF FindHit, ListRemove, TypeOK
  <2>. QED BY <1>4, <2>2 DEF FindHit
<1>5. ASSUME NEW r \in Region, BlockAlloc(r) PROVE CursorOK'
  <2>1. <<r, 1>> \in Node
    BY ListAssumption DEF Node
  <2>2. where'[<<r, 1>>] = "free"
    BY <1>5, <2>1 DEF BlockAlloc
  <2>. QED BY <1>5, <2>1, <2>2 DEF BlockAlloc
<1>6. CASE BlockAllocFails
  BY <1>6 DEF BlockAllocFails
<1>7. CASE NoTrampoline
  BY <1>7 DEF NoTrampoline
<1>8. CASE LinkHook
  BY <1>8 DEF LinkHook, TypeOK, Null
<1>9. CASE Patch \/ ProtectFails
  BY <1>9 DEF Patch, ProtectFails
<1>10. CASE Succeed \/ GetMiss \/ UnhookProtectFails
  BY <1>10 DEF Succeed, GetMiss, UnhookProtectFails
<1>11. CASE Discard
  <2>1. cursor \in Node
    BY <1>11 DEF Discard
  <2>2. prev'[cursor] = NULL /\ next'[cursor] = NULL /\ where'[cursor] = "held"
    BY <1>11, <2>1 DEF Discard, ListRemove, TypeOK
  <2>. QED BY <1>11, <2>2 DEF Discard
<1>12. CASE Recycle
  BY <1>12 DEF Recycle
<1>13. CASE GetNext
  BY <1>13 DEF GetNext, HooksLinked
<1>14. CASE GetHit
  BY <1>14 DEF GetHit
<1>15. CASE Unhook
  BY <1>15 DEF Unhook
<1>16. CASE UNCHANGED vars
  BY <1>16 DEF vars
<1>. QED
  BY <1>1, <1>2, <1>3, <1>4, <1>5, <1>6, <1>7, <1>8, <1>9, <1>10, <1>11, <1>12,
     <1>13, <1>14, <1>15, <1>16 DEF Next, Step

(* Every step keeps the table of hooks and the patched code alike. *)
LEMMA SysStep == ListInv /\ [Next]_vars => SysOK'
<1> SUFFICES ASSUME ListInv, [Next]_vars PROVE SysOK'
  OBVIOUS
<1> USE DEF ListInv, CursorOK, SysOK, On, Blank, lists, Return
<1>1. ASSUME NEW f \in Func, StartSetHook(f) PROVE SysOK'
  BY <1>1 DEF StartSetHook
<1>2. ASSUME NEW h \in Null(Func), StartUnhook(h) PROVE SysOK'
  BY <1>2 DEF StartUnhook
<1>3. CASE FindNext
  BY <1>3 DEF FindNext
<1>4. CASE FindHit
  BY <1>4 DEF FindHit, TypeOK
<1>5. ASSUME NEW r \in Region, BlockAlloc(r) PROVE SysOK'
  <2>1. \A n \in Node : where'[n] = IF n[1] = r THEN "free" ELSE where[n]
    BY <1>5 DEF BlockAlloc
  <2>2. \A n \in Node : n[1] = r => where[n] = "none"
    BY <1>5 DEF BlockAlloc
  <2>3. \A n \in Node : (where'[n] = "none") = (n[1] \notin taken')
    BY <1>5, <2>1 DEF BlockAlloc
  <2>4. \A n \in Node : (where'[n] = "hooks") = (where[n] = "hooks")
    BY <2>1, <2>2
  <2>5. \A n \in Node : Blank(n)' => Blank(n)
    BY <1>5, <2>1, <2>2 DEF BlockAlloc
  <2>6. \A n \in On("hooks") : ~Blank(n)
    BY <1>5 DEF BlockAlloc
  <2>. QED BY <1>5, <2>3, <2>4, <2>5, <2>6 DEF BlockAlloc
<1>6. CASE BlockAllocFails
  BY <1>6 DEF BlockAllocFails, TypeOK
<1>7. CASE NoTrampoline
  BY <1>7 DEF NoTrampoline
<1>8. CASE LinkHook
  BY <1>8 DEF LinkHook, TypeOK, Null
<1>9. CASE Patch
  <2>1. cursor \in On("hooks") /\ fn \in Func /\ fn \notin jumped /\ ~patched
    BY <1>9 DEF Patch, TypeOK, Null
  <2>2. /\ \A n \in Node : sys'[n] = IF n = cursor THEN fn ELSE sys[n]
        /\ jumped' = jumped \union {fn} /\ where' = where /\ taken' = taken
        /\ pc' = "test" /\ patched' /\ cursor' = cursor
    BY <1>9 DEF Patch, TypeOK
  <2>3. sys[cursor] = NULL
    BY <1>9, <2>1 DEF Patch
  <2>4. \A n \in On("hooks") : n # cursor => sys[n] \in jumped
    BY <1>9, <2>1 DEF Patch
  <2>5. \A f \in jumped' : \E n \in On("hooks")' : sys'[n] = f
    <3>1. \A f \in jumped : \E n \in On("hooks") : n # cursor /\ sys[n] = f
      BY <2>3, ListAssumption DEF TypeOK
    <3>. QED BY <3>1, <2>1, <2>2
  <2>6. \A m, n \in On("hooks")' : sys'[m] = sys'[n] /\ sys'[m] # NULL => m = n
    BY <2>1, <2>2, <2>4
  <2>. QED BY <2>1, <2>2, <2>4, <2>5, <2>6
<1>10. CASE ProtectFails
  BY <1>10 DEF ProtectFails
<1>11. CASE Succeed
  BY <1>11 DEF Succeed
<1>12. CASE Discard
  <2>1. cursor \in On("hooks") /\ sys[cursor] = NULL /\ pc = "test" /\ pc' = "discard"
    BY <1>12 DEF Discard
  <2>2. ~patched
    BY <2>1, ListAssumption DEF TypeOK
  <2>3. /\ \A n \in Node : where'[n] = IF n = cursor THEN "held" ELSE where[n]
        /\ sys' = sys /\ jumped' = jumped /\ taken' = taken /\ ~patched'
    BY <1>12, <2>2 DEF Discard, TypeOK
  <2>4. \A n \in Node : Blank(n)' => sys'[n] = NULL
    BY <2>1, <2>3
  <2>5. \A n \in On("hooks")' : n \in On("hooks") /\ n # cursor
    BY <2>3
  <2>6. \A f \in jumped' : \E n \in On("hooks")' : sys'[n] = f
    BY <2>1, <2>3, ListAssumption DEF TypeOK
  <2>7. \A n \in Node : (where'[n] = "none") = (n[1] \notin taken')
    BY <2>1, <2>3
  <2>8. \A n \in On("hooks")' : sys'[n] \in jumped'
    BY <2>1, <2>3, <2>5
  <2>. QED BY <2>1, <2>3, <2>4, <2>5, <2>6, <2>7, <2>8
<1>13. CASE Recycle
  BY <1>13 DEF Recycle, TypeOK
<1>14. CASE GetNext
  BY <1>14 DEF GetNext
<1>15. CASE GetHit
  BY <1>15 DEF GetHit
<1>16. CASE GetMiss \/ UnhookProtectFails
  BY <1>16 DEF GetMiss, UnhookProtectFails
<1>17. CASE Unhook
  <2>1. cursor \in On("hooks") /\ pc = "unhook" /\ pc' = "idle" /\ ~patched'
    BY <1>17 DEF Unhook
  <2>2. /\ \A n \in Node : where'[n] = IF n = cursor THEN "gone" ELSE where[n]
        /\ sys' = sys /\ jumped' = jumped \ {sys[cursor]} /\ taken' = taken
    BY <1>17 DEF Unhook, TypeOK
  <2>3. \A n \in Node : Blank(n)' => sys'[n] = NULL
    BY <2>1, <2>2
  <2>4. \A n \in On("hooks")' : n \in On("hooks") /\ n # cursor
    BY <2>2
  <2>5. \A n \in On("hooks")' : sys'[n] \in jumped'
    BY <2>1, <2>2, <2>4, ListAssumption DEF TypeOK
  <2>6. \A f \in jumped' : \E n \in On("hooks")' : sys'[n] = f
    BY <2>2
  <2>7. \A n \in Node : (where'[n] = "none") = (n[1] \notin taken')
    BY <2>1, <2>2
  <2>. QED BY <2>1, <2>2, <2>3, <2>4, <2>5, <2>6, <2>7
<1>18. CASE UNCHANGED vars
  BY <1>18 DEF vars
<1>. QED
  BY <1>1, <1>2, <1>3, <1>4, <1>5, <1>6, <1>7, <1>8, <1>9, <1>10, <1>11, <1>12,
     <1>13, <1>14, <1>15, <1>16, <1>17, <1>18 DEF Next, Step

(* Both lists are empty when the first hook is set. *)
LEMMA InitOK == Init => ListInv
BY DEF Init, ListInv, TypeOK, Null, FreeLinked, HooksLinked, CursorOK, SysOK, On, Blank

(* Every step keeps the two lists, the call in progress and the entries in order. *)
LEMMA ListStep == NestedReach /\ ListInv /\ [Next]_vars => ListInv'
BY TypeStep, FreeStep, HooksStep, CursorStep, SysStep DEF ListInv
-------------------------------------------------------------------------------
(* Every entry of a list is met on the way from its head, so that what a walk
   can reach is what the list holds.                                        *)

(* No proper part of L has the head and, with an entry, its successor. *)
Whole(link, head, L) == \A S \in SUBSET L : Leads(link, head, S) => S = L

(* What is proved on top of ListInv for the two lists to be a pool. *)
PoolInv ==
  /\ ListInv
  /\ Whole(next, gFree, On("free"))
  /\ Whole(next, gHooks, On("hooks"))

(* The free list and the list of hooks are never left by their own links. *)
LEMMA ListsLead ==
  ASSUME ListInv
  PROVE  Leads(next, gFree, On("free")) /\ Leads(next, gHooks, On("hooks"))
BY DEF ListInv, FreeLinked, HooksLinked, Leads

(* A walk from the head of a whole list meets its entries and no others. *)
LEMMA ChainIsList ==
  ASSUME NEW L \in SUBSET Node, NEW head, Leads(next, head, L), Whole(next, head, L)
  PROVE  Chain(head) = L
<1>1. Chain(head) \subseteq L
  BY DEF Chain
<1>2. ASSUME NEW n \in L, NEW S \in SUBSET Node, Leads(next, head, S) PROVE n \in S
  <2>1. Leads(next, head, S \intersect L)
    BY <1>2 DEF Leads
  <2>2. S \intersect L = L
    BY <2>1 DEF Whole
  <2>. QED BY <2>2
<1>. QED BY <1>1, <1>2 DEF Chain

(* The links of a list's entries are all that its walk depends on. *)
LEMMA WholeSame ==
  ASSUME NEW link, NEW link2, NEW head, NEW L,
         Whole(link, head, L), \A n \in L : link2[n] = link[n]
  PROVE  Whole(link2, head, L)
<1> SUFFICES ASSUME NEW S \in SUBSET L, Leads(link2, head, S) PROVE S = L
  BY DEF Whole
<1>1. Leads(link, head, S)
  BY DEF Leads
<1>. QED BY <1>1 DEF Whole

(* An entry put in front of the head is met first. *)
LEMMA WholePrepend ==
  ASSUME NEW link, NEW link2, NEW head, NEW L, NEW c, c \notin L, c # NULL,
         Whole(link, head, L), Leads(link, head, L),
         link2[c] = head, \A n \in L : link2[n] = link[n]
  PROVE  Whole(link2, c, L \union {c})
<1> SUFFICES ASSUME NEW S \in SUBSET (L \union {c}), Leads(link2, c, S) PROVE S = L \union {c}
  BY DEF Whole
<1>1. c \in S
  BY DEF Leads
<1>2. Leads(link, head, S \ {c})
  BY <1>1 DEF Leads
<1>3. S \ {c} \in SUBSET L
  OBVIOUS
<1>4. S \ {c} = L
  BY <1>2, <1>3 DEF Whole
<1>. QED BY <1>1, <1>4

(* Without its head a list is met from the second entry on. *)
LEMMA WholeWithoutHead ==
  ASSUME NEW link, NEW link2, NEW head, NEW L, head \in L,
         Whole(link, head, L),
         \A n \in L \ {head} : link2[n] = link[n]
  PROVE  Whole(link2, link[head], L \ {head})
<1> SUFFICES ASSUME NEW S \in SUBSET (L \ {head}), Leads(link2, link[head], S)
             PROVE  S = L \ {head}
  BY DEF Whole
<1>1. Leads(link, head, S \union {head})
  BY DEF Leads
<1>2. S \union {head} \in SUBSET L
  OBVIOUS
<1>3. S \union {head} = L
  BY <1>1, <1>2 DEF Whole
<1>. QED BY <1>3

(* An entry is stepped over once its predecessor p has its successor. *)
LEMMA WholeWithout ==
  ASSUME NEW link, NEW link2, NEW head, NEW L, NEW c \in L, NEW p \in L, p # c, head # c,
         Whole(link, head, L), link[p] = c, link2[p] = link[c],
         \A n \in L : n # c /\ n # p => link2[n] = link[n]
  PROVE  Whole(link2, head, L \ {c})
<1> SUFFICES ASSUME NEW S \in SUBSET (L \ {c}), Leads(link2, head, S)
             PROVE  S = L \ {c}
  BY DEF Whole
<1>1. CASE p \in S
  <2>1. Leads(link, head, S \union {c})
    BY <1>1 DEF Leads
  <2>2. S \union {c} \in SUBSET L
    OBVIOUS
  <2>3. S \union {c} = L
    BY <2>1, <2>2 DEF Whole
  <2>. QED BY <2>3
<1>2. CASE p \notin S
  <2>1. Leads(link, head, S)
    BY <1>2 DEF Leads
  <2>2. S = L
    BY <2>1 DEF Whole
  <2>. QED BY <2>2
<1>. QED BY <1>1, <1>2

(* Every set of natural numbers has a least element. *)
LEMMA LeastNumber ==
  ASSUME NEW A, A \subseteq Nat, A # {}
  PROVE  \E n \in A : \A m \in A : n <= m
<1> DEFINE R == OpToRel(<, Nat)
<1>1. IsWellFoundedOn(R, Nat)
  BY NatLessThanWellFounded
<1>2. \A x, y \in Nat : y < x => <<y, x>> \in R
  BY DEF OpToRel
<1> HIDE DEF R
<1>3. PICK x \in A : \A y \in A : ~ (<<y, x>> \in R)
  BY <1>1, WFMin
<1>4. ASSUME NEW y \in A PROVE x <= y
  <2>1. x \in Nat /\ y \in Nat
    OBVIOUS
  <2>2. ~(y < x)
    BY <1>2, <1>3, <2>1, Zenon
  <2>. QED BY <2>1, <2>2
<1>. QED BY <1>4, Zenon

(* A block in front of a list is met from its first entry to its last, and then the list. *)
LEMMA WholeBlock ==
  ASSUME NEW link, NEW link2, NEW head, NEW L, NEW r, NULL \notin {r} \X (1 .. PerBlock),
         Whole(link, head, L),  Leads(link, head, L),
         L \intersect ({r} \X (1 .. PerBlock)) = {},
         \A n \in L : link2[n] = link[n],
         \A i \in 1 .. PerBlock : link2[<<r, i>>] = IF i = PerBlock THEN head ELSE <<r, i + 1>>
  PROVE  Whole(link2, <<r, 1>>, L \union ({r} \X (1 .. PerBlock)))
<1> DEFINE B == {r} \X (1 .. PerBlock)
<1> SUFFICES ASSUME NEW S \in SUBSET (L \union B), Leads(link2, <<r, 1>>, S)
             PROVE  S = L \union B
  BY DEF Whole
<1>1. PerBlock \in Nat /\ PerBlock >= 1
  BY ListAssumption
<1>2. \A i \in 1 .. PerBlock : <<r, i>> \in B /\ <<r, i>> # NULL
  OBVIOUS
<1>3. <<r, 1>> \in S
  BY <1>1, <1>2 DEF Leads
<1>4. B \subseteq S
  <2> DEFINE A == {i \in 1 .. PerBlock : <<r, i>> \notin S}
  <2>1. CASE A = {}
    BY <2>1
  <2>2. CASE A # {}
    <3>1. A \subseteq Nat
      BY <1>1
    <3>2. PICK i \in A : \A j \in A : i <= j
      BY <2>2, <3>1, LeastNumber
    <3>3. i \in 1 .. PerBlock /\ i # 1 /\ <<r, i>> \notin S
      BY <1>3
    <3>4. i - 1 \in 1 .. PerBlock /\ i - 1 # PerBlock /\ (i - 1) + 1 = i
      BY <1>1, <3>3
    <3>5. i - 1 \notin A
      BY <3>2, <3>4, <1>1, <3>3
    <3>6. <<r, i - 1>> \in S /\ link2[<<r, i - 1>>] = <<r, i>>
      BY <3>4, <3>5
    <3>. QED BY <1>2, <3>3, <3>6 DEF Leads
  <2>. QED BY <2>1, <2>2
<1>5. head # NULL => head \in S
  <2>1. PerBlock \in 1 .. PerBlock
    BY <1>1
  <2>2. link2[<<r, PerBlock>>] = head
    BY <2>1
  <2>3. <<r, PerBlock>> \in S
    BY <1>2, <1>4, <2>1
  <2>. QED BY <2>2, <2>3 DEF Leads
<1>6. Leads(link, head, S \intersect L)
  BY <1>5 DEF Leads
<1>7. S \intersect L = L
  BY <1>6 DEF Whole
<1>. QED BY <1>4, <1>7

-------------------------------------------------------------------------------
(* Steps that leave the links and the lists alone leave the walks alone. *)
LEMMA WholeFrame ==
  ASSUME PoolInv, UNCHANGED <<lists, where>>
  PROVE  Whole(next', gFree', On("free")') /\ Whole(next', gHooks', On("hooks")')
BY DEF PoolInv, lists, On

(* Every step of a call keeps the free list in one piece. *)
LEMMA FreeWhole == NestedReach /\ PoolInv /\ [Next]_vars => Whole(next', gFree', On("free")')
<1> SUFFICES ASSUME NestedReach, PoolInv, [Next]_vars PROVE Whole(next', gFree', On("free")')
  OBVIOUS
<1> DEFINE F == On("free")
<1>1. ListInv /\ TypeOK /\ Whole(next, gFree, F) /\ Leads(next, gFree, F) /\ F \subseteq Node
  BY ListsLead DEF PoolInv, ListInv, On
<1>2. CASE UNCHANGED <<lists, where>>
  BY <1>2, WholeFrame
<1>3. CASE FindHit
  <2>1. cursor \in F /\ F' = F \ {cursor} /\ ListRemove(gFree, cursor)
    BY <1>1, <1>3, HitHasBackLink DEF FindHit, On, TypeOK
  <2>2. CASE cursor = gFree
    <3>1. prev[gFree] = NULL /\ NULL \notin F
      BY <1>1, <2>1, <2>2, ListAssumption DEF ListInv, FreeLinked
    <3>2. gFree' = next[gFree] /\ \A n \in F \ {gFree} : next'[n] = next[n]
      BY <1>1, <2>1, <2>2, <3>1 DEF ListRemove
    <3>. QED BY <1>1, <2>1, <2>2, <3>2, WholeWithoutHead
  <2>3. CASE cursor # gFree
    <3>1. prev[cursor] # NULL /\ prev[cursor] # cursor
      BY <1>1, <1>3, <2>3, HitHasBackLink
    <3>2. prev[cursor] \in F /\ next[prev[cursor]] = cursor
      BY <1>1, <2>1, <3>1 DEF ListInv, FreeLinked
    <3>3. /\ gFree' = gFree /\ next'[prev[cursor]] = next[cursor]
          /\ \A n \in F : n # cursor /\ n # prev[cursor] => next'[n] = next[n]
      BY <1>1, <2>1, <2>3, <3>1, <3>2 DEF ListRemove
    <3>4. Whole(next', gFree, F \ {cursor})
      BY <1>1, <2>1, <2>3, <3>1, <3>2, <3>3, WholeWithout
    <3>. QED BY <2>1, <3>3, <3>4
  <2>. QED BY <2>2, <2>3
<1>4. ASSUME NEW r \in Region, BlockAlloc(r) PROVE Whole(next', gFree', F')
  <2> DEFINE B == {r} \X (1 .. PerBlock)
  <2>1. B \subseteq Node /\ NULL \notin B
    BY ListAssumption DEF Node
  <2>2. \A n \in Node : n[1] = r <=> n \in B
    BY NodePair DEF Node
  <2>3. r \notin taken /\ gFree' = <<r, 1>>
    BY <1>4 DEF BlockAlloc
  <2>4. F \intersect B = {}
    BY <1>1, <2>2, <2>3 DEF ListInv, SysOK, On
  <2>5. F' = F \union B
    <3>1. \A n \in Node : where'[n] = IF n[1] = r THEN "free" ELSE where[n]
      BY <1>4 DEF BlockAlloc
    <3>. QED BY <2>1, <2>2, <3>1 DEF On
  <2>6. \A n \in F : next'[n] = next[n]
    BY <1>1, <1>4, <2>2, <2>4 DEF BlockAlloc, LinkBlock
  <2>7. \A i \in 1 .. PerBlock : next'[<<r, i>>] = IF i = PerBlock THEN gFree ELSE <<r, i + 1>>
    <3> SUFFICES ASSUME NEW i \in 1 .. PerBlock
                 PROVE  next'[<<r, i>>] = IF i = PerBlock THEN gFree ELSE <<r, i + 1>>
      OBVIOUS
    <3>1. <<r, i>> \in Node /\ <<r, i>>[1] = r /\ <<r, i>>[2] = i
      BY DEF Node
    <3>. QED BY <1>4, <3>1 DEF BlockAlloc, LinkBlock
  <2>8. Whole(next', <<r, 1>>, F \union B)
    <3> HIDE DEF F
    <3>. QED BY <1>1, <2>1, <2>4, <2>6, <2>7, WholeBlock
  <2>. QED BY <2>3, <2>5, <2>8
<1>5. CASE BlockAllocFails
  BY <1>1, <1>5 DEF BlockAllocFails, On, Whole, TypeOK
<1>6. CASE LinkHook
  <2>1. cursor \in Node \ F
    BY <1>1, <1>6 DEF LinkHook, ListInv, CursorOK, TypeOK, Null, On
  <2>2. F' = F /\ gFree' = gFree /\ \A n \in F : next'[n] = next[n]
    BY <1>1, <1>6, <2>1 DEF LinkHook, ListPrepend, On, TypeOK
  <2>. QED BY <1>1, <2>2, WholeSame
<1>7. CASE Discard \/ Unhook
  <2>1. cursor \in On("hooks") /\ ListRemove(gHooks, cursor) /\ gFree' = gFree
    BY <1>1, <1>7 DEF Discard, Unhook, ListInv, CursorOK
  <2>2. F' = F
    BY <1>1, <1>7, <2>1 DEF Discard, Unhook, On, TypeOK
  <2>3. prev[cursor] \notin F
    BY <1>1, <2>1, ListAssumption DEF ListInv, HooksLinked, On
  <2>4. \A n \in F : next'[n] = next[n]
    BY <2>1, <2>3 DEF ListRemove, On
  <2>. QED BY <1>1, <2>1, <2>2, <2>4, WholeSame
<1>8. CASE Recycle
  <2>1. cursor \in Node \ F /\ cursor # NULL
    BY <1>1, <1>8, ListAssumption DEF Recycle, ListInv, CursorOK, TypeOK, Null, On
  <2>2. F' = F \union {cursor} /\ gFree' = cursor /\ ListPrepend(gFree, cursor)
    BY <1>1, <1>8, <2>1 DEF Recycle, ListPrepend, On, TypeOK
  <2>3. next'[cursor] = gFree /\ \A n \in F : next'[n] = next[n]
    BY <1>1, <2>1, <2>2 DEF ListPrepend, TypeOK
  <2>. QED BY <1>1, <2>1, <2>2, <2>3, WholePrepend
<1>. QED
  BY <1>2, <1>3, <1>4, <1>5, <1>6, <1>7, <1>8
  DEF Next, Step, vars, lists, StartSetHook, StartUnhook, FindNext, NoTrampoline, Patch,
      ProtectFails, Succeed, GetNext, GetHit, GetMiss, UnhookProtectFails

(* Every step of a call keeps the list of hooks in one piece. *)
LEMMA HooksWhole == PoolInv /\ [Next]_vars => Whole(next', gHooks', On("hooks")')
<1> SUFFICES ASSUME PoolInv, [Next]_vars PROVE Whole(next', gHooks', On("hooks")')
  OBVIOUS
<1> DEFINE H == On("hooks")
<1>1. ListInv /\ TypeOK /\ Whole(next, gHooks, H) /\ Leads(next, gHooks, H) /\ H \subseteq Node
  BY ListsLead DEF PoolInv, ListInv, On
<1>2. CASE UNCHANGED <<lists, where>>
  BY <1>2, WholeFrame
<1>3. CASE FindHit
  <2>1. cursor \in On("free") /\ ListRemove(gFree, cursor) /\ gHooks' = gHooks
    BY <1>1, <1>3, HitHasBackLink DEF FindHit
  <2>2. H' = H
    BY <1>1, <1>3, <2>1 DEF FindHit, On, TypeOK
  <2>3. prev[cursor] \notin H
    BY <1>1, <2>1, ListAssumption DEF ListInv, FreeLinked, On
  <2>4. \A n \in H : next'[n] = next[n]
    BY <2>1, <2>3 DEF ListRemove, On
  <2>. QED BY <1>1, <2>1, <2>2, <2>4, WholeSame
<1>4. ASSUME NEW r \in Region, BlockAlloc(r) PROVE Whole(next', gHooks', H')
  <2>1. \A n \in H : n \in Node /\ n[1] # r
    BY <1>1, <1>4 DEF BlockAlloc, ListInv, SysOK, On
  <2>2. H' = H /\ gHooks' = gHooks
    BY <1>1, <1>4, <2>1 DEF BlockAlloc, On, TypeOK
  <2>3. \A n \in H : next'[n] = next[n]
    BY <1>4, <2>1 DEF BlockAlloc, LinkBlock
  <2>. QED BY <1>1, <2>2, <2>3, WholeSame
<1>5. CASE BlockAllocFails
  <2>1. H' = H /\ UNCHANGED <<gHooks, next>>
    BY <1>1, <1>5 DEF BlockAllocFails, On, TypeOK
  <2>. QED BY <1>1, <2>1, WholeSame
<1>6. CASE LinkHook
  <2>1. cursor \in Node \ H /\ cursor # NULL
    BY <1>1, <1>6, ListAssumption DEF LinkHook, ListInv, CursorOK, TypeOK, Null, On
  <2>2. H' = H \union {cursor} /\ gHooks' = cursor /\ ListPrepend(gHooks, cursor)
    BY <1>1, <1>6, <2>1 DEF LinkHook, ListPrepend, On, TypeOK
  <2>3. next'[cursor] = gHooks /\ \A n \in H : next'[n] = next[n]
    BY <1>1, <2>1, <2>2 DEF ListPrepend, TypeOK
  <2>. QED BY <1>1, <2>1, <2>2, <2>3, WholePrepend
<1>7. CASE Discard \/ Unhook
  <2>1. cursor \in H /\ ListRemove(gHooks, cursor)
    BY <1>1, <1>7 DEF Discard, Unhook, ListInv, CursorOK
  <2>2. H' = H \ {cursor}
    BY <1>1, <1>7, <2>1 DEF Discard, Unhook, On, TypeOK
  <2>3. CASE cursor = gHooks
    <3>1. prev[gHooks] = NULL /\ NULL \notin H
      BY <1>1, <2>1, <2>3, ListAssumption DEF ListInv, HooksLinked
    <3>2. gHooks' = next[gHooks] /\ \A n \in H \ {gHooks} : next'[n] = next[n]
      BY <1>1, <2>1, <2>3, <3>1 DEF ListRemove
    <3>. QED BY <1>1, <2>1, <2>2, <2>3, <3>2, WholeWithoutHead
  <2>4. CASE cursor # gHooks
    <3>1. prev[cursor] \in H /\ next[prev[cursor]] = cursor /\ prev[cursor] # NULL
      BY <1>1, <2>1, <2>4 DEF ListInv, HooksLinked
    <3>2. /\ gHooks' = gHooks
          /\ \A n \in H : n # cursor /\ n # prev[cursor] => next'[n] = next[n]
      BY <1>1, <2>1, <2>4 DEF ListRemove
    <3>3. CASE prev[cursor] # cursor
      <4>1. next'[prev[cursor]] = next[cursor]
        BY <1>1, <2>1, <3>1, <3>3 DEF ListRemove
      <4>2. Whole(next', gHooks, H \ {cursor})
        BY <1>1, <2>1, <2>4, <3>1, <3>2, <3>3, <4>1, WholeWithout
      <4>. QED BY <2>2, <3>2, <4>2
    <3>4. CASE prev[cursor] = cursor
      <4>1. Leads(next, gHooks, H \ {cursor})
        BY <1>1, <2>1, <2>4, <3>1, <3>4 DEF Leads, ListInv, HooksLinked
      <4>2. H \ {cursor} = H
        BY <1>1, <4>1 DEF Whole
      <4>. QED BY <2>1, <4>2
    <3>. QED BY <3>3, <3>4
  <2>. QED BY <2>3, <2>4
<1>8. CASE Recycle
  <2>1. cursor \in Node \ H
    BY <1>1, <1>8 DEF Recycle, ListInv, CursorOK, TypeOK, Null, On
  <2>2. H' = H /\ gHooks' = gHooks /\ \A n \in H : next'[n] = next[n]
    BY <1>1, <1>8, <2>1 DEF Recycle, ListPrepend, On, TypeOK
  <2>. QED BY <1>1, <2>2, WholeSame
<1>. QED
  BY <1>2, <1>3, <1>4, <1>5, <1>6, <1>7, <1>8
  DEF Next, Step, vars, lists, StartSetHook, StartUnhook, FindNext, NoTrampoline, Patch,
      ProtectFails, Succeed, GetNext, GetHit, GetMiss, UnhookProtectFails
-------------------------------------------------------------------------------
(* The refinement.  In the terms of the lists the variables of the pool are these. *)
PoolFree == On("free")
PoolUsed == On("hooks") \union (IF pc \in {"found", "discard"} THEN {cursor} ELSE {})
PoolLive == {n \in On("hooks") : sys[n] # NULL}

(* The invariant, with what it says of the pointers that the pool is mapped to *)
MapInv ==
  /\ ListInv
  /\ Chain(gFree) = On("free")
  /\ Chain(gHooks) = On("hooks")

(* The state predicates of the two lists as the pool sees them *)
LEMMA PoolMapped == PoolInv => MapInv
BY ListsLead, ChainIsList DEF PoolInv, MapInv, On

(* What an entry's place says of it: known are the entries of the blocks, live those
   whose function was patched.                                                       *)
LEMMA Places ==
  ASSUME ListInv
  PROVE  /\ \A n \in Node : n \in taken \X (1 .. PerBlock) <=> where[n] # "none"
         /\ \A n \in Node : n \in PoolLive => sys[n] \in Func
BY NodePair DEF ListInv, SysOK, TypeOK, On, PoolLive, Null, Node

(* A step that changes no list and neither enters nor leaves the time an entry is held. *)
LEMMA PoolFrame ==
  ASSUME UNCHANGED <<where, taken, sys>>,
         pc' \in {"found", "discard"} <=> pc \in {"found", "discard"},
         pc \in {"found", "discard"} => cursor' = cursor
  PROVE  UNCHANGED <<taken \X (1 .. PerBlock), PoolFree, PoolUsed, PoolLive>>
BY DEF PoolFree, PoolUsed, PoolLive, On

(* FindTrampolineInRange takes the entry it returns. *)
LEMMA FindTakes ==
  ASSUME ListInv, FindHit
  PROVE  /\ cursor \in taken \X (1 .. PerBlock) /\ cursor \in PoolFree
         /\ PoolFree' = PoolFree \ {cursor} /\ PoolUsed' = PoolUsed \union {cursor}
         /\ UNCHANGED <<taken \X (1 .. PerBlock), PoolLive>>
<1>1. cursor \in Node /\ where[cursor] = "free"
  BY HitHasBackLink DEF On
<1>2. cursor \in taken \X (1 .. PerBlock)
  BY <1>1, Places
<1>3. /\ pc \in {"find", "again"} /\ pc' = "found" /\ UNCHANGED <<cursor, sys, taken>>
      /\ \A n \in Node : where'[n] = IF n = cursor THEN "held" ELSE where[n]
  BY DEF FindHit, ListInv, TypeOK
<1>4. On("hooks")' = On("hooks") /\ On("free")' = On("free") \ {cursor}
  BY <1>1, <1>3 DEF On
<1>. QED BY <1>1, <1>2, <1>3, <1>4 DEF PoolFree, PoolUsed, PoolLive, On

(* BlockAlloc makes the pool grow by the entries of a block. *)
LEMMA BlockGrows ==
  ASSUME ListInv, NEW r \in Region, BlockAlloc(r)
  PROVE  LET b == {r} \X (1 .. PerBlock) IN
         /\ b \intersect (taken \X (1 .. PerBlock)) = {}
         /\ (taken \X (1 .. PerBlock))' = (taken \X (1 .. PerBlock)) \union b
         /\ PoolFree' = PoolFree \union b
         /\ UNCHANGED <<PoolUsed, PoolLive>>
<1> DEFINE b == {r} \X (1 .. PerBlock)
<1>1. r \notin taken /\ taken' = taken \union {r}
  BY DEF BlockAlloc
<1>2. /\ pc = "find" /\ pc' = "again" /\ sys' = sys
      /\ \A n \in Node : where'[n] = IF n[1] = r THEN "free" ELSE where[n]
  BY DEF BlockAlloc
<1>3. \A n \in Node : n[1] = r <=> n \in b
  BY NodePair DEF Node
<1>4. \A n \in Node : n[1] = r => where[n] = "none"
  BY <1>1 DEF ListInv, SysOK
<1>5. b \subseteq Node
  BY DEF Node
<1>6. On("hooks")' = On("hooks") /\ On("free")' = On("free") \union b
  BY <1>2, <1>3, <1>4, <1>5 DEF On
<1>. QED BY <1>1, <1>2, <1>6 DEF PoolFree, PoolUsed, PoolLive

(* A failed BlockAlloc loses the free entries and no others. *)
LEMMA FailureLoses ==
  ASSUME ListInv, BlockAllocFails
  PROVE  PoolFree' = {} /\ UNCHANGED <<taken \X (1 .. PerBlock), PoolUsed, PoolLive>>
<1>1. /\ pc = "find" /\ pc' = "again" /\ UNCHANGED <<sys, taken>>
      /\ \A n \in Node : where'[n] = IF where[n] = "free" THEN "lost" ELSE where[n]
  BY DEF BlockAllocFails
<1>2. On("hooks")' = On("hooks") /\ On("free")' = {}
  BY <1>1 DEF On
<1>. QED BY <1>1, <1>2 DEF PoolFree, PoolUsed, PoolLive

(* An entry that is linked into the list of hooks, or taken from it because its function
   was not patched, has been handed out before and after.                                *)
LEMMA LinkingIsHidden ==
  ASSUME ListInv, LinkHook \/ Discard
  PROVE  UNCHANGED <<taken \X (1 .. PerBlock), PoolFree, PoolUsed, PoolLive>>
<1>1. cursor \in Node /\ sys[cursor] = NULL /\ UNCHANGED <<sys, taken, cursor>>
  BY DEF LinkHook, Discard, ListInv, CursorOK, SysOK, Blank, TypeOK, Null, On
<1>2. CASE LinkHook
  <2>1. /\ pc = "found" /\ pc' = "fill" /\ where[cursor] = "held"
        /\ \A n \in Node : where'[n] = IF n = cursor THEN "hooks" ELSE where[n]
    BY <1>2 DEF LinkHook, ListInv, CursorOK, TypeOK
  <2>2. On("hooks")' = On("hooks") \union {cursor} /\ On("free")' = On("free")
    BY <1>1, <2>1 DEF On
  <2>. QED BY <1>1, <2>1, <2>2 DEF PoolFree, PoolUsed, PoolLive
<1>3. CASE Discard
  <2>1. /\ pc = "test" /\ pc' = "discard" /\ where[cursor] = "hooks"
        /\ \A n \in Node : where'[n] = IF n = cursor THEN "held" ELSE where[n]
    BY <1>3 DEF Discard, ListInv, CursorOK, TypeOK, On
  <2>2. On("hooks")' = On("hooks") \ {cursor} /\ On("free")' = On("free") /\ cursor \in On("hooks")
    BY <1>1, <2>1 DEF On
  <2>. QED BY <1>1, <2>1, <2>2 DEF PoolFree, PoolUsed, PoolLive
<1>. QED BY <1>2, <1>3

(* With the function patched its trampoline is live. *)
LEMMA PatchActivates ==
  ASSUME ListInv, Patch
  PROVE  /\ cursor \in taken \X (1 .. PerBlock) /\ cursor \in PoolUsed \ PoolLive
         /\ PoolLive' = PoolLive \union {cursor}
         /\ UNCHANGED <<taken \X (1 .. PerBlock), PoolFree, PoolUsed>>
<1>1. cursor \in Node /\ where[cursor] = "hooks" /\ fn \in Func
  BY DEF Patch, ListInv, CursorOK, TypeOK, Null, On
<1>2. cursor \in taken \X (1 .. PerBlock)
  BY <1>1, Places
<1>3. /\ pc = "fill" /\ pc' = "test" /\ UNCHANGED <<cursor, where, taken>> /\ sys[cursor] = NULL
      /\ \A n \in Node : sys'[n] = IF n = cursor THEN fn ELSE sys[n]
  BY <1>1 DEF Patch, ListInv, SysOK, Blank, TypeOK
<1>4. fn # NULL
  BY <1>1, ListAssumption
<1>5. On("hooks")' = On("hooks") /\ On("free")' = On("free") /\ cursor \in On("hooks")
      /\ On("hooks") \subseteq Node
  BY <1>1, <1>3 DEF On
<1>. QED BY <1>2, <1>3, <1>4, <1>5 DEF PoolFree, PoolUsed, PoolLive

(* TrampolineFree gives back an entry that no function was ever patched with. *)
LEMMA RecycleGivesBack ==
  ASSUME ListInv, Recycle
  PROVE  /\ cursor \in taken \X (1 .. PerBlock) /\ cursor \in PoolUsed \ PoolLive
         /\ PoolFree' = PoolFree \union {cursor} /\ PoolUsed' = PoolUsed \ {cursor}
         /\ UNCHANGED <<taken \X (1 .. PerBlock), PoolLive>>
<1>1. cursor \in Node /\ where[cursor] = "held" /\ pc = "discard"
  BY DEF Recycle, ListInv, CursorOK, TypeOK, Null
<1>2. cursor \in taken \X (1 .. PerBlock)
  BY <1>1, Places
<1>3. /\ pc' = "idle" /\ UNCHANGED <<sys, taken>>
      /\ \A n \in Node : where'[n] = IF n = cursor THEN "free" ELSE where[n]
  BY DEF Recycle, Return, ListInv, TypeOK
<1>4. /\ On("hooks")' = On("hooks") /\ On("free")' = On("free") \union {cursor}
      /\ cursor \notin On("hooks")
  BY <1>1, <1>3 DEF On
<1>. QED BY <1>1, <1>2, <1>3, <1>4 DEF PoolFree, PoolUsed, PoolLive

(* Mhook_Unhook retires the entry it takes from the list of hooks for good. *)
LEMMA UnhookRetires ==
  ASSUME ListInv, Unhook
  PROVE  /\ cursor \in taken \X (1 .. PerBlock) /\ cursor \in PoolLive
         /\ PoolUsed' = PoolUsed \ {cursor} /\ PoolLive' = PoolLive \ {cursor}
         /\ UNCHANGED <<taken \X (1 .. PerBlock), PoolFree>>
<1>1. cursor \in Node /\ where[cursor] = "hooks" /\ pc = "unhook" /\ cursor \in On("hooks")
  BY DEF Unhook, ListInv, CursorOK, On
<1>2. cursor \in taken \X (1 .. PerBlock)
  BY <1>1, Places
<1>3. sys[cursor] \in Func /\ sys[cursor] # NULL
  BY <1>1, ListAssumption DEF ListInv, SysOK, Blank, TypeOK
<1>4. /\ pc' = "idle" /\ UNCHANGED <<sys, taken>>
      /\ \A n \in Node : where'[n] = IF n = cursor THEN "gone" ELSE where[n]
  BY DEF Unhook, Return, ListInv, TypeOK
<1>5. On("hooks")' = On("hooks") \ {cursor} /\ On("free")' = On("free")
  BY <1>1, <1>4 DEF On
<1>. QED BY <1>1, <1>2, <1>3, <1>4, <1>5 DEF PoolFree, PoolUsed, PoolLive

(* In terms of the lists, a step of the pool is what it is in terms of the pointers. *)
LEMMA PoolStep == MapInv /\ MapInv' /\ [Next]_vars => [Pool!Next]_(Pool!vars)
<1> SUFFICES ASSUME MapInv, MapInv', [Next]_vars PROVE [Pool!Next]_(Pool!vars)
  OBVIOUS
<1> DEFINE known == taken \X (1 .. PerBlock)
<1>1. ListInv
  BY DEF MapInv
<1>2. /\ Chain(gFree) = PoolFree
      /\ Chain(gHooks) \union (IF pc \in {"found", "discard"} THEN {cursor} ELSE {}) = PoolUsed
      /\ {n \in Chain(gHooks) : sys[n] # NULL} = PoolLive
  BY DEF MapInv, PoolFree, PoolUsed, PoolLive
<1>3. /\ Chain(gFree)' = PoolFree'
      /\ (Chain(gHooks) \union (IF pc \in {"found", "discard"} THEN {cursor} ELSE {}))' = PoolUsed'
      /\ {n \in Chain(gHooks) : sys[n] # NULL}' = PoolLive'
  BY DEF MapInv, PoolFree, PoolUsed, PoolLive
<1>4. CASE UNCHANGED <<known, PoolFree, PoolUsed, PoolLive>>
  BY <1>2, <1>3, <1>4 DEF Pool!vars
<1>5. CASE FindHit
  <2>1. Pool!Take(cursor) /\ cursor \in known
    BY <1>1, <1>2, <1>3, <1>5, FindTakes DEF Pool!Take
  <2>2. \E t \in known : Pool!Take(t)
    BY <2>1, Zenon
  <2>. QED BY <2>2, Zenon DEF Pool!Next
<1>6. ASSUME NEW r \in Region, BlockAlloc(r) PROVE [Pool!Next]_(Pool!vars)
  <2> DEFINE b == {r} \X (1 .. PerBlock)
  <2>1. Pool!Grow(b)
    BY <1>1, <1>2, <1>3, <1>6, BlockGrows DEF Pool!Grow
  <2>2. b \in {{s} \X (1 .. PerBlock) : s \in Region}
    OBVIOUS
  <2>. QED BY <2>1, <2>2 DEF Pool!Next
<1>7. CASE BlockAllocFails
  <2>1. Pool!Lose
    BY <1>1, <1>2, <1>3, <1>7, FailureLoses DEF Pool!Lose
  <2>. QED BY <2>1 DEF Pool!Next
<1>8. CASE LinkHook \/ Discard
  BY <1>1, <1>4, <1>8, LinkingIsHidden
<1>9. CASE Patch
  <2>1. Pool!Activate(cursor) /\ cursor \in known
    BY <1>1, <1>2, <1>3, <1>9, PatchActivates DEF Pool!Activate
  <2>2. \E t \in known : Pool!Activate(t)
    BY <2>1, Zenon
  <2>. QED BY <2>2, Zenon DEF Pool!Next
<1>10. CASE Recycle
  <2>1. Pool!GiveBack(cursor) /\ cursor \in known
    BY <1>1, <1>2, <1>3, <1>10, RecycleGivesBack DEF Pool!GiveBack
  <2>2. \E t \in known : Pool!GiveBack(t)
    BY <2>1, Zenon
  <2>. QED BY <2>2, Zenon DEF Pool!Next
<1>11. CASE Unhook
  <2>1. Pool!Retire(cursor) /\ cursor \in known
    BY <1>1, <1>2, <1>3, <1>11, UnhookRetires DEF Pool!Retire
  <2>2. \E t \in known : Pool!Retire(t)
    BY <2>1, Zenon
  <2>. QED BY <2>2, Zenon DEF Pool!Next
<1>12. ASSUME NEW f \in Func, StartSetHook(f) PROVE [Pool!Next]_(Pool!vars)
  BY <1>4, <1>12, PoolFrame DEF StartSetHook
<1>13. ASSUME NEW h \in Null(Func), StartUnhook(h) PROVE [Pool!Next]_(Pool!vars)
  BY <1>4, <1>13, PoolFrame DEF StartUnhook
<1>14. CASE FindNext \/ NoTrampoline
  BY <1>4, <1>14, PoolFrame DEF FindNext, NoTrampoline, Return
<1>15. CASE ProtectFails \/ Succeed
  BY <1>4, <1>15, PoolFrame DEF ProtectFails, Succeed, Return
<1>16. CASE GetNext \/ GetHit
  BY <1>4, <1>16, PoolFrame DEF GetNext, GetHit
<1>17. CASE GetMiss \/ UnhookProtectFails
  BY <1>4, <1>17, PoolFrame DEF GetMiss, UnhookProtectFails, Return
<1>18. CASE UNCHANGED vars
  BY <1>4, <1>18, PoolFrame DEF vars
<1>. QED
  BY <1>5, <1>6, <1>7, <1>8, <1>9, <1>10, <1>11, <1>12, <1>13, <1>14, <1>15, <1>16, <1>17, <1>18
  DEF Next, Step
-------------------------------------------------------------------------------
(* The variables keep their types: every link is NULL or a trampoline. *)
THEOREM TypeCorrect == Spec => []TypeOK
<1>1. Init => TypeOK
  BY DEF Init, TypeOK, Null
<1>. QED BY <1>1, TypeStep, PTL DEF Spec

(* When the windows are nested, the structure of both lists, the position of
   the call in progress on its list and the contents of the entries are an
   invariant of every sequence of Mhook_SetHook and Mhook_Unhook, failures of
   VirtualAlloc and VirtualProtect included.                                *)
THEOREM ListCorrect == NestedReach => (Spec => []ListInv)
<1> SUFFICES ASSUME NestedReach PROVE Spec => []ListInv
  OBVIOUS
<1>1. ListInv /\ [Next]_vars => ListInv'
  BY ListStep
<1>. QED BY <1>1, InitOK, PTL DEF Spec

(* The missing back link of BlockAlloc is harmless when the windows are
   nested: no walk along the free list meets an entry in use.               *)
THEOREM FreeListIsFree == NestedReach => (Spec => []WalksOwnList)
<1> SUFFICES ASSUME NestedReach PROVE Spec => []WalksOwnList
  OBVIOUS
<1>1. ListInv => WalksOwnList
  BY DEF ListInv, CursorOK, WalksOwnList, On
<1>. QED BY <1>1, ListCorrect, PTL

(* Mhook_SetHook returns TRUE exactly when it patched the function. *)
THEOREM ResultIsHonest == NestedReach => (Spec => []HonestResult)
<1> SUFFICES ASSUME NestedReach PROVE Spec => []HonestResult
  OBVIOUS
<1>1. ListInv => HonestResult
  BY ListAssumption DEF ListInv, TypeOK, CursorOK, SysOK, Blank, HonestResult, On, Null
<1>. QED BY <1>1, ListCorrect, PTL

(* Every patched function has exactly one entry in the list of hooks. *)
THEOREM TableIsExact == NestedReach => (Spec => []TableMatchesCode)
<1> SUFFICES ASSUME NestedReach PROVE Spec => []TableMatchesCode
  OBVIOUS
<1>1. ListInv => TableMatchesCode
  BY DEF ListInv, SysOK, Blank, On, TableMatchesCode
<1>. QED BY <1>1, ListCorrect, PTL

(* No entry of a list is ever cut off from its head: what the call in progress can reach
   from g_pFreeList and g_pHooks is all that is free and all that is in use, whatever
   entries were linked, unlinked, spliced in or lost before.                            *)
THEOREM ListsWhole == NestedReach => (Spec => []PoolInv)
<1> SUFFICES ASSUME NestedReach PROVE Spec => []PoolInv
  OBVIOUS
<1>1. Init => PoolInv
  <2> SUFFICES ASSUME Init PROVE PoolInv
    OBVIOUS
  <2>1. ListInv
    BY InitOK
  <2>2. On("free") = {} /\ On("hooks") = {}
    BY DEF Init, On
  <2>. QED BY <2>1, <2>2 DEF PoolInv, Whole
<1>2. PoolInv /\ [Next]_vars => PoolInv'
  BY ListStep, FreeWhole, HooksWhole DEF PoolInv
<1>. QED BY <1>1, <1>2, PTL DEF Spec

(* The linked lists implement the pool of trampolines: a trampoline is handed out to one
   hook at a time, only one that was never used comes back, and none that a removed hook
   has used is ever handed out again.                                                   *)
THEOREM PoolImplemented == NestedReach => (Spec => ImplementsPool)
<1> SUFFICES ASSUME NestedReach PROVE Spec => ImplementsPool
  OBVIOUS
<1>1. Init => Pool!Init
  <2> SUFFICES ASSUME Init PROVE Pool!Init
    OBVIOUS
  <2>1. Leads(next, NULL, {}) /\ {} \in SUBSET Node
    BY DEF Leads
  <2>2. Chain(NULL) = {}
    BY <2>1 DEF Chain
  <2>. QED BY <2>2 DEF Init, Pool!Init
<1>2. Spec => []MapInv
  BY ListsWhole, PoolMapped, PTL
<1>3. MapInv /\ MapInv' /\ [Next]_vars => [Pool!Next]_(Pool!vars)
  BY PoolStep
<1>. QED BY <1>1, <1>2, <1>3, PTL DEF Spec, ImplementsPool, Pool!Spec
===============================================================================
