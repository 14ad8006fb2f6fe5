--------------------------- MODULE ContentsProofs ---------------------------
(***************************************************************************)
(* The contents of a trie satisfy the recursion a reader expects: what a   *)
(* link leads to holds for a key what the node says, or what the link of   *)
(* the slot holds through which a lookup goes.  With it: the answers of    *)
(* the trie are correct, and no step changes what a committed root names.  *)
(* At the end: what decides the contents of a link, for the refinement in  *)
(* PromiseProofs.                                                          *)
(***************************************************************************)
EXTENDS TrieProofs

-----------------------------------------------------------------------------
(* Induction.                                                              *)

\* What holds at a and is handed on from one number to the next holds up to b.
LEMMA Climb ==
  ASSUME NEW a \in Nat, NEW b \in Nat, NEW S, a \in S,
         \A n \in a + 1 .. b : n - 1 \in S => n \in S
  PROVE  \A n \in a .. b : n \in S
<1> DEFINE T == {n \in a .. b : n \notin S}
<1> SUFFICES ASSUME T # {} PROVE FALSE
  OBVIOUS
<1>1. PICK m \in T : \A k \in T : m <= k
  <2>1. T \subseteq Nat
    OBVIOUS
  <2> QED BY <2>1, LeastElement
<1>2. m \in a + 1 .. b
  BY <1>1
<1>3. m - 1 \in a .. b /\ m - 1 \notin T
  BY <1>1, <1>2
<1> QED BY <1>1, <1>2, <1>3

-----------------------------------------------------------------------------
(* The cursors of Contents.                                                *)

There(m, d, key, c)     == Resolves(c.link, SubSeq(key, 1, c.at), m, d)
NodeThere(m, d, key, c) == Resolve(c.link, SubSeq(key, 1, c.at), m, d)

Advance(m, d, key, c, n) ==
  LET slot == SubSeq(key, c.at + 1, n)
  IN  IF There(m, d, key, c) /\ slot \in Slots(NodeThere(m, d, key, c))
      THEN [at |-> n, link |-> LinkAt(NodeThere(m, d, key, c), slot)]
      ELSE c

Held(m, d, key, c) ==
  CASE c.link = Empty      -> None
    [] There(m, d, key, c) -> HeldBy(NodeThere(m, d, key, c), Drop(key, c.at))
    [] OTHER               -> Unreadable

\* g[n] is the cursor after n nibbles of the key, from `link' after a of them.
AreCursors(g, link, a, b, m, d, key) ==
  g = [n \in a .. b |-> IF n = a THEN [at |-> a, link |-> link]
                        ELSE Advance(m, d, key, g[n - 1], n)]

Cursors(link, a, m, d, key) == CHOOSE g : AreCursors(g, link, a, Len(key), m, d, key)

\* What `link' at path `at' leads to holds for the path `key', which is at or
\* below `at'.
ContentsFrom(link, at, m, d, key) ==
  Held(m, d, key, Cursors(link, Len(at), m, d, key)[Len(key)])

\* The cursors exist: those up to n can be extended by one.
LEMMA CursorsExist ==
  ASSUME NEW link, NEW a \in Nat, NEW b \in Nat, a <= b, NEW m, NEW d, NEW key
  PROVE  \E g : AreCursors(g, link, a, b, m, d, key)
<1> DEFINE S == {n \in a .. b : \E g : AreCursors(g, link, a, n, m, d, key)}
<1>1. a \in S
  <2> DEFINE g == [n \in a .. a |-> [at |-> a, link |-> link]]
  <2>1. g = [n \in a .. a |-> IF n = a THEN [at |-> a, link |-> link]
                              ELSE Advance(m, d, key, g[n - 1], n)]
    OBVIOUS
  <2>2. AreCursors(g, link, a, a, m, d, key)
    BY <2>1 DEF AreCursors
  <2> QED BY <2>2
<1>2. ASSUME NEW n \in a + 1 .. b, n - 1 \in S PROVE n \in S
  <2>1. PICK g : AreCursors(g, link, a, n - 1, m, d, key)
    BY <1>2
  <2> DEFINE h == [i \in a .. n |-> IF i = n THEN Advance(m, d, key, g[n - 1], n) ELSE g[i]]
  <2>2. \A i \in a .. n - 1 :
          g[i] = IF i = a THEN [at |-> a, link |-> link] ELSE Advance(m, d, key, g[i - 1], i)
    BY <2>1 DEF AreCursors
  <2>3. ASSUME NEW i \in a .. n
        PROVE  h[i] = IF i = a THEN [at |-> a, link |-> link] ELSE Advance(m, d, key, h[i - 1], i)
    <3>1. CASE i = n
      BY <3>1
    <3>2. CASE i # n
      <4>1. i \in a .. n - 1 /\ h[i] = g[i] /\ (i # a => h[i - 1] = g[i - 1])
        BY <3>2
      <4> QED BY <2>2, <4>1
    <3> QED BY <3>1, <3>2
  <2>4. h = [i \in a .. n |-> h[i]]
    OBVIOUS
  <2> HIDE DEF h
  <2>5. AreCursors(h, link, a, n, m, d, key)
    BY <2>3, <2>4 DEF AreCursors
  <2> QED BY <2>5
<1>3. b \in S
  <2> HIDE DEF S
  <2> QED BY <1>1, <1>2, Climb
<1> QED BY <1>3

\* The first cursor, and each from the one before.
LEMMA CursorSteps ==
  ASSUME NEW link, NEW key \in Path, NEW a \in 0 .. Len(key), NEW m, NEW d
  PROVE  LET g == Cursors(link, a, m, d, key)
         IN  /\ g[a] = [at |-> a, link |-> link]
             /\ \A n \in a + 1 .. Len(key) : g[n] = Advance(m, d, key, g[n - 1], n)
<1> DEFINE g == Cursors(link, a, m, d, key)
<1>1. AreCursors(g, link, a, Len(key), m, d, key)
  <2>1. a \in Nat /\ Len(key) \in Nat /\ a <= Len(key)
    BY PathLen
  <2>2. \E f : AreCursors(f, link, a, Len(key), m, d, key)
    BY <2>1, CursorsExist
  <2> QED BY <2>2 DEF Cursors
<1> HIDE DEF g
<1>2. Len(key) \in Nat
  BY PathLen
<1>3. \A n \in a .. Len(key) :
        g[n] = IF n = a THEN [at |-> a, link |-> link] ELSE Advance(m, d, key, g[n - 1], n)
  BY <1>1 DEF AreCursors
<1>4. g[a] = [at |-> a, link |-> link]
  BY <1>2, <1>3
<1>5. \A n \in a + 1 .. Len(key) : g[n] = Advance(m, d, key, g[n - 1], n)
  BY <1>2, <1>3
<1> QED BY <1>4, <1>5 DEF g

\* The same for one cursor.
LEMMA CursorNext ==
  ASSUME NEW link, NEW key \in Path, NEW a \in 0 .. Len(key), NEW m, NEW d,
         NEW b \in a + 1 .. Len(key)
  PROVE  Cursors(link, a, m, d, key)[b]
           = Advance(m, d, key, Cursors(link, a, m, d, key)[b - 1], b)
<1> DEFINE g == Cursors(link, a, m, d, key)
<1>1. g[a] = [at |-> a, link |-> link] /\ \A n \in a + 1 .. Len(key) : g[n] = Advance(m, d, key, g[n - 1], n)
  BY CursorSteps
<1> HIDE DEF g
<1>2. g[b] = Advance(m, d, key, g[b - 1], b)
  BY <1>1
<1> QED BY <1>2 DEF g

\* Contents is what its cursors make of it.
LEMMA ContentsIsFrom ==
  ASSUME NEW top, NEW m, NEW d, NEW key \in Path
  PROVE  Contents(top, m, d, key) = ContentsFrom(top, <<>>, m, d, key)
<1> DEFINE g == Cursors(top, 0, m, d, key)
           EndsAre(f) == f = [n \in 0 .. Len(key) |->
                                IF n = 0 THEN {[at |-> 0, link |-> top]}
                                ELSE {Advance(m, d, key, c, n) : c \in f[n - 1]}]
           ends == [n \in 0 .. Len(key) |-> {g[n]}]
<1>1. Len(key) \in Nat /\ Len(<<>>) = 0
  BY PathLen, EmptyPath
<1>2. /\ g[0] = [at |-> 0, link |-> top]
      /\ \A n \in 1 .. Len(key) : g[n] = Advance(m, d, key, g[n - 1], n)
  <2>1. 0 \in 0 .. Len(key) /\ 0 + 1 = 1
    BY <1>1
  <2> HIDE DEF g
  <2> QED BY <2>1, CursorSteps DEF g
<1>3. EndsAre(ends)
  <2> HIDE DEF g
  <2>1. ASSUME NEW n \in 0 .. Len(key)
        PROVE  ends[n] = IF n = 0 THEN {[at |-> 0, link |-> top]}
                         ELSE {Advance(m, d, key, c, n) : c \in ends[n - 1]}
    <3>1. CASE n = 0
      BY <1>2, <3>1
    <3>2. CASE n # 0
      <4>1. n \in 1 .. Len(key) /\ n - 1 \in 0 .. Len(key)
        BY <3>2
      <4>2. ends[n - 1] = {g[n - 1]} /\ ends[n] = {g[n]} /\ g[n] = Advance(m, d, key, g[n - 1], n)
        BY <1>2, <4>1
      <4> QED BY <3>2, <4>2
    <3> QED BY <3>1, <3>2
  <2>2. ends = [n \in 0 .. Len(key) |-> ends[n]]
    OBVIOUS
  <2> HIDE DEF ends
  <2> QED BY <2>1, <2>2
<1>4. PICK f : /\ EndsAre(f)
               /\ Contents(top, m, d, key)
                    = CHOOSE held \in {Held(m, d, key, c) : c \in f[Len(key)]} : TRUE
  <2> HIDE DEF ends, g
  <2>1. \E f : EndsAre(f)
    BY <1>3
  <2> QED BY <2>1, Zenon DEF Contents, Advance, There, NodeThere, Held
<1>5. \A n \in 0 .. Len(key) :
        f[n] = IF n = 0 THEN {[at |-> 0, link |-> top]}
               ELSE {Advance(m, d, key, c, n) : c \in f[n - 1]}
  BY <1>4
<1> HIDE DEF g, EndsAre, ends
<1>6. f[Len(key)] = {g[Len(key)]}
  <2> DEFINE S == {n \in 0 .. Len(key) : f[n] = {g[n]}}
  <2>1. 0 \in S
    <3>1. 0 \in 0 .. Len(key)
      BY <1>1
    <3>2. f[0] = {g[0]}
      BY <1>2, <1>5, <3>1
    <3> QED BY <3>1, <3>2
  <2>2. ASSUME NEW n \in 0 + 1 .. Len(key), n - 1 \in S PROVE n \in S
    <3>1. n \in 1 .. Len(key) /\ n \in 0 .. Len(key) /\ n # 0
      BY <1>1
    <3>2. f[n] = {Advance(m, d, key, c, n) : c \in {g[n - 1]}}
      BY <1>5, <2>2, <3>1
    <3> QED BY <1>2, <3>1, <3>2
  <2>3. Len(key) \in 0 .. Len(key)
    BY <1>1
  <2> HIDE DEF S
  <2>4. Len(key) \in S
    BY <1>1, <2>1, <2>2, <2>3, Climb
  <2> QED BY <2>4 DEF S
<1>7. Contents(top, m, d, key) = CHOOSE held \in {Held(m, d, key, g[Len(key)])} : TRUE
  <2>1. {Held(m, d, key, c) : c \in f[Len(key)]} = {Held(m, d, key, g[Len(key)])}
    BY <1>6
  <2> QED BY <1>4, <2>1
<1>8. Contents(top, m, d, key) = Held(m, d, key, g[Len(key)])
  <2> DEFINE h == Held(m, d, key, g[Len(key)])
  <2> HIDE DEF h
  <2>1. (CHOOSE held \in {h} : TRUE) = h
    OBVIOUS
  <2> QED BY <1>7, <2>1 DEF h
<1> QED BY <1>1, <1>8 DEF ContentsFrom, g

\* A cursor stays while no slot of its node is met.
LEMMA CursorStays ==
  ASSUME NEW link, NEW key \in Path, NEW a \in 0 .. Len(key), NEW m, NEW d,
         NEW b \in a .. Len(key),
         Resolves(link, SubSeq(key, 1, a), m, d) =>
           \A n \in a + 1 .. b :
             SubSeq(key, a + 1, n) \notin Slots(Resolve(link, SubSeq(key, 1, a), m, d))
  PROVE  Cursors(link, a, m, d, key)[b] = [at |-> a, link |-> link]
<1> DEFINE g == Cursors(link, a, m, d, key)
           c == [at |-> a, link |-> link]
           S == {n \in a .. b : g[n] = c}
<1>1. g[a] = c /\ \A n \in a + 1 .. Len(key) : g[n] = Advance(m, d, key, g[n - 1], n)
  BY CursorSteps
<1>2. Len(key) \in Nat
  BY PathLen
<1>3. ASSUME NEW n \in a + 1 .. b PROVE Advance(m, d, key, c, n) = c
  BY DEF Advance, There, NodeThere
<1> HIDE DEF g, c
<1>4. a \in S
  BY <1>1, <1>2
<1>5. ASSUME NEW n \in a + 1 .. b, n - 1 \in S PROVE n \in S
  BY <1>1, <1>2, <1>3, <1>5
<1>6. b \in S
  <2>1. a \in Nat /\ b \in Nat /\ b \in a .. b
    BY <1>2
  <2> HIDE DEF S
  <2> QED BY <1>4, <1>5, <2>1, Climb
<1> QED BY <1>6 DEF g, c

\* Where a cursor arrives at a link, the contents are what that link leads to.
LEMMA CursorsJoin ==
  ASSUME NEW link, NEW key \in Path, NEW a \in 0 .. Len(key), NEW m, NEW d,
         NEW b \in a .. Len(key), NEW next,
         Cursors(link, a, m, d, key)[b] = [at |-> b, link |-> next]
  PROVE  Cursors(link, a, m, d, key)[Len(key)] = Cursors(next, b, m, d, key)[Len(key)]
<1> DEFINE g == Cursors(link, a, m, d, key)
           h == Cursors(next, b, m, d, key)
           S == {n \in b .. Len(key) : g[n] = h[n]}
<1>1. Len(key) \in Nat /\ b \in 0 .. Len(key)
  BY PathLen
<1>2. g[a] = [at |-> a, link |-> link] /\ \A n \in a + 1 .. Len(key) : g[n] = Advance(m, d, key, g[n - 1], n)
  BY CursorSteps
<1>3. h[b] = [at |-> b, link |-> next] /\ \A n \in b + 1 .. Len(key) : h[n] = Advance(m, d, key, h[n - 1], n)
  BY <1>1, CursorSteps
<1>4. g[b] = h[b]
  BY <1>3
<1> HIDE DEF g, h
<1>5. b \in S
  BY <1>1, <1>4
<1>6. ASSUME NEW n \in b + 1 .. Len(key), n - 1 \in S PROVE n \in S
  <2>1. n \in a + 1 .. Len(key) /\ n \in b .. Len(key)
    BY <1>1
  <2> QED BY <1>2, <1>3, <1>6, <2>1
<1>7. Len(key) \in S
  <2>1. b \in Nat /\ Len(key) \in b .. Len(key)
    BY <1>1
  <2> HIDE DEF S
  <2> QED BY <1>1, <1>5, <1>6, <2>1, Climb
<1> QED BY <1>7 DEF g, h

-----------------------------------------------------------------------------
(* The recursion.                                                          *)

\* The first nibbles of a path, and what is between two places of it.
LEMMA PathParts ==
  ASSUME NEW key \in Path, NEW at \in Path, StartsWith(key, at)
  PROVE  /\ Len(at) \in 0 .. Len(key)
         /\ SubSeq(key, 1, Len(at)) = at
         /\ Drop(key, Len(at)) \in Path /\ Len(Drop(key, Len(at))) = Len(key) - Len(at)
         /\ \A n \in Len(at) + 1 .. Len(key) :
              SubSeq(key, Len(at) + 1, n) = SubSeq(Drop(key, Len(at)), 1, n - Len(at))
<1> DEFINE rest == Drop(key, Len(at))
<1>1. Len(key) \in Nat /\ Len(at) \in 0 .. Len(key) /\ \A i \in 1 .. Len(key) : key[i] \in Nibble
  BY PathLen DEF StartsWith
<1>2. \A i \in 1 .. Len(at) : key[i] = at[i]
  BY DEF StartsWith
<1>3. /\ rest \in Path /\ Len(rest) = Len(key) - Len(at)
      /\ \A i \in 1 .. Len(key) - Len(at) : rest[i] = key[Len(at) + i]
  BY <1>1, DropProperties
<1>4. SubSeq(key, 1, Len(at)) = at
  <2> DEFINE s == SubSeq(key, 1, Len(at))
  <2>1. /\ s \in Seq(Nibble)
        /\ Len(s) = IF 1 <= Len(at) THEN Len(at) - 1 + 1 ELSE 0
        /\ \A i \in 1 .. Len(at) - 1 + 1 : s[i] = key[1 + i - 1]
    BY <1>1, SubSeqProperties
  <2> HIDE DEF s
  <2>2. s \in Path /\ Len(s) = Len(at) /\ \A i \in 1 .. Len(s) : s[i] = at[i]
    BY <1>1, <1>2, <2>1 DEF Path
  <2>3. s = at
    BY <2>2, PathEqual
  <2> QED BY <2>3 DEF s
<1> HIDE DEF rest
<1>5. ASSUME NEW n \in Len(at) + 1 .. Len(key)
      PROVE  SubSeq(key, Len(at) + 1, n) = SubSeq(rest, 1, n - Len(at))
  <2> DEFINE s == SubSeq(key, Len(at) + 1, n)
             t == SubSeq(rest, 1, n - Len(at))
             k == n - Len(at)
  <2>0. k \in 1 .. Len(key) - Len(at) /\ n \in Nat
    BY <1>1
  <2>1. s \in Path /\ Len(s) = k /\ \A i \in 1 .. k : s[i] = key[Len(at) + i]
    <3>1. /\ s \in Seq(Nibble)
          /\ Len(s) = IF Len(at) + 1 <= n THEN n - (Len(at) + 1) + 1 ELSE 0
          /\ \A i \in 1 .. n - (Len(at) + 1) + 1 : s[i] = key[(Len(at) + 1) + i - 1]
      BY <1>1, SubSeqProperties
    <3> QED BY <1>1, <3>1 DEF Path
  <2>2. t \in Path /\ Len(t) = k /\ \A i \in 1 .. k : t[i] = rest[i]
    <3>0. \A i \in 1 .. k : rest[i] \in Nibble
      BY <1>3, <2>0, PathLen
    <3>1. /\ t \in Seq(Nibble)
          /\ Len(t) = IF 1 <= k THEN k - 1 + 1 ELSE 0
          /\ \A i \in 1 .. k - 1 + 1 : t[i] = rest[1 + i - 1]
      BY <2>0, <3>0, SubSeqProperties
    <3> QED BY <2>0, <3>1 DEF Path
  <2> HIDE DEF s, t
  <2>3. \A i \in 1 .. k : s[i] = t[i]
    BY <1>3, <2>0, <2>1, <2>2
  <2>4. s = t
    BY <2>1, <2>2, <2>3, PathEqual
  <2> QED BY <2>4 DEF s, t
<1> QED BY <1>1, <1>3, <1>4, <1>5 DEF rest

\* A lookup descends through the one slot that the rest of the key starts with.
LEMMA SlotMet ==
  ASSUME NEW n, IsNode(n), NEW rest \in Path
  PROVE  /\ Descends(n, rest) =>
              /\ NextSlot(n, rest) \in Slots(n)
              /\ StartsWith(rest, NextSlot(n, rest))
         /\ \A s \in Slots(n) : StartsWith(rest, s) => Descends(n, rest) /\ NextSlot(n, rest) = s
<1>1. Descends(n, rest) => NextSlot(n, rest) \in Slots(n)
  BY DescendsSlot
<1>2. CASE n.kind = "Node"
  BY <1>2, LeafParts DEF Descends
<1>3. CASE n.kind = "Extension"
  <2> DEFINE s == n.partial_key
             parts == parse_nibble_slices_shared_portion(s, rest)
  <2>1. s \in Path /\ s # <<>> /\ Slots(n) = {s} /\ NextSlot(n, rest) = s
    BY <1>3, ExtensionParts DEF NextSlot
  <2>2. Descends(n, rest) <=> parts.shared = s
    BY <1>3 DEF Descends
  <2>3. /\ parts.shared \in Path /\ parts.rest1 \in Path /\ parts.rest2 \in Path
        /\ s = parts.shared \o parts.rest1 /\ rest = parts.shared \o parts.rest2
        /\ parts.rest1 # <<>> /\ parts.rest2 # <<>> => parts.rest1[1] # parts.rest2[1]
    BY <2>1, SharedPortion
  <2> HIDE DEF parts, s
  <2>4. parts.shared = s => StartsWith(rest, s)
    BY <2>3, ConcatPrefix
  <2>5. ASSUME StartsWith(rest, s) PROVE parts.shared = s
    <3>1. PICK u \in Path : rest = s \o u
      BY <2>1, <2>5, PrefixDrop
    <3>2. parts.rest2 = parts.rest1 \o u
      <4>1. rest = parts.shared \o (parts.rest1 \o u)
        BY <2>3, <3>1, ConcatAssoc, ZenonT(30)
      <4>2. parts.rest1 \o u \in Path
        BY <2>3, ConcatPath
      <4> QED BY <2>3, <4>1, <4>2, ConcatCancel
    <3>3. parts.rest1 = <<>>
      <4> SUFFICES ASSUME parts.rest1 # <<>> PROVE FALSE
        OBVIOUS
      <4>1. Len(parts.rest1) \in Nat \ {0} /\ Len(u) \in Nat
        BY <2>3, PathLen, EmptyPath
      <4>2. Len(parts.rest2) = Len(parts.rest1) + Len(u) /\ parts.rest2[1] = parts.rest1[1]
        BY <2>3, <3>2, <4>1, ConcatPath
      <4>3. parts.rest2 # <<>>
        BY <2>3, <4>1, <4>2, EmptyPath
      <4> QED BY <2>3, <4>2, <4>3
    <3> QED BY <2>3, <3>3, ConcatEmpty
  <2> QED BY <1>1, <2>1, <2>2, <2>4, <2>5
<1>4. CASE n.kind = "Branch"
  <2>1. Slots(n) = {<<i>> : i \in Nibble}
    BY <1>4, BranchParts
  <2>2. Descends(n, rest) <=> rest # <<>>
    BY <1>4 DEF Descends
  <2>3. NextSlot(n, rest) = SubSeq(rest, 1, 1)
    BY <1>4 DEF NextSlot
  <2>4. ASSUME rest # <<>> PROVE NextSlot(n, rest) = <<rest[1]>> /\ rest[1] \in Nibble /\ Len(rest) >= 1
    <3>1. rest[1] \in Nibble /\ Len(rest) \in Nat \ {0}
      BY <2>4, FirstNibble, PathLen, EmptyPath
    <3>2. SubSeq(rest, 1, 1) = <<rest[1]>>
      <4>1. <<rest[1]>> \in Path /\ Len(<<rest[1]>>) = 1 /\ StartsWith(rest, <<rest[1]>>)
        BY <3>1, OneNibble DEF StartsWith
      <4> QED BY <4>1, PathParts
    <3> QED BY <2>3, <3>1, <3>2
  <2>5. ASSUME rest # <<>> PROVE StartsWith(rest, <<rest[1]>>)
    BY <2>4, <2>5, OneNibble DEF StartsWith
  <2>6. ASSUME NEW i \in Nibble, StartsWith(rest, <<i>>) PROVE rest # <<>> /\ rest[1] = i
    <3>1. Len(<<i>>) = 1 /\ <<i>>[1] = i
      BY OneNibble
    <3> QED BY <2>6, <3>1, EmptyPath DEF StartsWith
  <2> QED BY <1>1, <2>1, <2>2, <2>4, <2>5, <2>6
<1> QED BY <1>2, <1>3, <1>4, NodeKinds

\* The first k nibbles of a path.
LEMMA FirstNibbles ==
  ASSUME NEW rest \in Path, NEW k \in 0 .. Len(rest)
  PROVE  SubSeq(rest, 1, k) \in Path /\ Len(SubSeq(rest, 1, k)) = k /\ StartsWith(rest, SubSeq(rest, 1, k))
<1> DEFINE s == SubSeq(rest, 1, k)
<1>1. k \in Nat /\ Len(rest) \in Nat /\ \A i \in 1 .. k : rest[i] \in Nibble
  BY PathLen
<1>2. /\ s \in Seq(Nibble)
      /\ Len(s) = IF 1 <= k THEN k - 1 + 1 ELSE 0
      /\ \A i \in 1 .. k - 1 + 1 : s[i] = rest[1 + i - 1]
  BY <1>1, SubSeqProperties
<1> HIDE DEF s
<1>3. s \in Path /\ Len(s) = k /\ \A i \in 1 .. k : s[i] = rest[i]
  BY <1>1, <1>2 DEF Path
<1>4. StartsWith(rest, s)
  BY <1>1, <1>3 DEF StartsWith
<1> QED BY <1>3, <1>4 DEF s

\* A link that leads to no node, or to one at which a lookup of the key ends.
LEMMA FromHere ==
  ASSUME NEW key \in Path, NEW at \in Path, StartsWith(key, at), NEW m, NEW d, NEW link,
         Resolves(link, at, m, d) =>
           /\ IsNode(Resolve(link, at, m, d))
           /\ ~Descends(Resolve(link, at, m, d), Drop(key, Len(at)))
  PROVE  ContentsFrom(link, at, m, d, key)
           = CASE link = Empty             -> None
               [] Resolves(link, at, m, d) -> HeldBy(Resolve(link, at, m, d), Drop(key, Len(at)))
               [] OTHER                    -> Unreadable
<1> DEFINE a == Len(at)
           b == Len(key)
           rest == Drop(key, a)
           n == Resolve(link, at, m, d)
<1>1. /\ a \in 0 .. b /\ b \in Nat /\ SubSeq(key, 1, a) = at /\ rest \in Path /\ Len(rest) = b - a
      /\ \A i \in a + 1 .. b : SubSeq(key, a + 1, i) = SubSeq(rest, 1, i - a)
  BY PathParts, PathLen
<1> HIDE DEF rest
<1>2. ASSUME Resolves(link, at, m, d), NEW i \in a + 1 .. b
      PROVE  SubSeq(key, a + 1, i) \notin Slots(n)
  <2>1. i - a \in 0 .. Len(rest)
    BY <1>1
  <2>2. StartsWith(rest, SubSeq(rest, 1, i - a))
    BY <1>1, <2>1, FirstNibbles
  <2>3. SubSeq(key, a + 1, i) = SubSeq(rest, 1, i - a)
    BY <1>1
  <2>4. IsNode(n) /\ ~Descends(n, rest)
    BY <1>2 DEF rest
  <2> HIDE DEF n, a, b
  <2> QED BY <1>1, <2>2, <2>3, <2>4, SlotMet
<1>3. b \in a .. Len(key) /\ a \in 0 .. Len(key)
  BY <1>1
<1>4. Cursors(link, a, m, d, key)[b] = [at |-> a, link |-> link]
  <2>1. Resolves(link, SubSeq(key, 1, a), m, d) =>
          \A i \in a + 1 .. b : SubSeq(key, a + 1, i) \notin Slots(Resolve(link, SubSeq(key, 1, a), m, d))
    BY <1>1, <1>2
  <2> HIDE DEF a
  <2> QED BY <1>3, <2>1, CursorStays
<1>5. ContentsFrom(link, at, m, d, key) = Held(m, d, key, [at |-> a, link |-> link])
  BY <1>4 DEF ContentsFrom
<1> HIDE DEF a, b
<1> QED BY <1>1, <1>5 DEF Held, There, NodeThere, rest, a

\* A link to a node through which a lookup of the key descends.
LEMMA FromSlot ==
  ASSUME NEW key \in Path, NEW at \in Path, StartsWith(key, at), NEW m, NEW d, NEW link,
         Resolves(link, at, m, d), NEW n, n = Resolve(link, at, m, d), IsNode(n),
         Descends(n, Drop(key, Len(at))),
         NEW slot, slot = NextSlot(n, Drop(key, Len(at)))
  PROVE  /\ slot \in Slots(n) /\ slot \in Path /\ slot # <<>>
         /\ at \o slot \in Path /\ StartsWith(key, at \o slot)
         /\ Len(at \o slot) > Len(at)
         /\ ContentsFrom(link, at, m, d, key) = ContentsFrom(LinkAt(n, slot), at \o slot, m, d, key)
<1> DEFINE a == Len(at)
           rest == Drop(key, a)
           l == Len(slot)
           b == a + l
           next == LinkAt(n, slot)
           g == Cursors(link, a, m, d, key)
<1>1. /\ a \in 0 .. Len(key) /\ Len(key) \in Nat /\ SubSeq(key, 1, a) = at
      /\ rest \in Path /\ Len(rest) = Len(key) - a
      /\ \A i \in a + 1 .. Len(key) : SubSeq(key, a + 1, i) = SubSeq(rest, 1, i - a)
      /\ key = at \o rest
  BY PathParts, PathLen, PrefixDrop
<1>2. slot \in Slots(n) /\ StartsWith(rest, slot)
  BY <1>1, SlotMet
<1> HIDE DEF rest
<1>3. /\ slot \in Path /\ slot # <<>> /\ l \in 1 .. Len(rest) /\ SubSeq(rest, 1, l) = slot
      /\ \A s \in Slots(n) : Len(s) = l
  <2>1. slot \in Path /\ slot # <<>> /\ l > 0 /\ \A s \in Slots(n) : Len(s) = l
    BY <1>2, NodeSlots
  <2> QED BY <1>1, <1>2, <2>1, PathParts, PathLen
<1>4. /\ at \o slot \in Path /\ Len(at \o slot) = b /\ StartsWith(key, at \o slot)
      /\ b \in a + 1 .. Len(key)
  BY <1>1, <1>2, <1>3, ConcatPath, PrefixConcat
<1>5. g[b - 1] = [at |-> a, link |-> link]
  <2>1. ASSUME NEW i \in a + 1 .. b - 1 PROVE SubSeq(key, a + 1, i) \notin Slots(n)
    <3>1. i - a \in 0 .. Len(rest) /\ i \in a + 1 .. Len(key) /\ i - a # l
      BY <1>1, <1>3, <1>4
    <3>2. Len(SubSeq(rest, 1, i - a)) # l
      BY <1>1, <3>1, FirstNibbles
    <3> QED BY <1>1, <1>3, <3>1, <3>2
  <2>2. b - 1 \in a .. Len(key)
    BY <1>1, <1>3, <1>4
  <2>3. Resolves(link, SubSeq(key, 1, a), m, d) =>
          \A i \in a + 1 .. b - 1 :
            SubSeq(key, a + 1, i) \notin Slots(Resolve(link, SubSeq(key, 1, a), m, d))
    BY <1>1, <2>1
  <2>4. a \in 0 .. Len(key)
    BY <1>1
  <2> HIDE DEF a, b
  <2> QED BY <2>2, <2>3, <2>4, CursorStays
<1>6. g[b] = [at |-> b, link |-> next]
  <2>1. g[b] = Advance(m, d, key, g[b - 1], b)
    <3>1. a \in 0 .. Len(key) /\ b \in a + 1 .. Len(key)
      BY <1>1, <1>4
    <3> HIDE DEF a, b
    <3> QED BY <3>1, CursorNext
  <2>2. SubSeq(key, a + 1, b) = slot
    BY <1>1, <1>3, <1>4
  <2>3. SubSeq(key, 1, a) = at /\ slot \in Slots(n)
    BY <1>1, <1>2
  <2> DEFINE c == [at |-> a, link |-> link]
  <2>4. There(m, d, key, c) /\ NodeThere(m, d, key, c) = n /\ c.at = a
    BY <2>3 DEF There, NodeThere
  <2> HIDE DEF g, a, b, c
  <2>5. Advance(m, d, key, c, b) = [at |-> b, link |-> next]
    BY <2>2, <2>3, <2>4 DEF Advance
  <2> QED BY <1>5, <2>1, <2>5 DEF c
<1>7. g[Len(key)] = Cursors(next, b, m, d, key)[Len(key)]
  <2>1. b \in a .. Len(key)
    BY <1>1, <1>4
  <2>2. a \in 0 .. Len(key)
    BY <1>1
  <2> HIDE DEF a, b, next
  <2> QED BY <1>6, <2>1, <2>2, CursorsJoin
<1>8. ContentsFrom(link, at, m, d, key) = ContentsFrom(next, at \o slot, m, d, key)
  BY <1>4, <1>7 DEF ContentsFrom
<1>9. Len(at \o slot) > Len(at)
  BY <1>1, <1>4
<1> QED BY <1>2, <1>3, <1>4, <1>8, <1>9

\* The recursion: the contents of a link are nothing if it is empty, not known
\* if it leads nowhere, and else what the node says or its slot leads to.
LEMMA ContentsRecursion ==
  ASSUME NEW key \in Path, NEW at \in Path, StartsWith(key, at), NEW m, NEW d, NEW link
  PROVE  /\ link = Empty => ContentsFrom(link, at, m, d, key) = None
         /\ link # Empty /\ ~Resolves(link, at, m, d)
              => ContentsFrom(link, at, m, d, key) = Unreadable
         /\ /\ Resolves(link, at, m, d)
            /\ IsNode(Resolve(link, at, m, d))
            /\ ~Descends(Resolve(link, at, m, d), Drop(key, Len(at)))
            => ContentsFrom(link, at, m, d, key)
                 = ValueAt(Resolve(link, at, m, d), Drop(key, Len(at)))
<1>1. link = Empty => ~Resolves(link, at, m, d)
  BY LinkTypes DEF Resolves
<1>2. ~Resolves(link, at, m, d) =>
         ContentsFrom(link, at, m, d, key) = IF link = Empty THEN None ELSE Unreadable
  BY FromHere
<1>3. ASSUME NEW n, IsNode(n), NEW rest PROVE HeldBy(n, rest) = ValueAt(n, rest)
  BY <1>3, NodeKinds DEF HeldBy, ValueAt, Ends
<1>4. ASSUME Resolves(link, at, m, d), IsNode(Resolve(link, at, m, d)),
             ~Descends(Resolve(link, at, m, d), Drop(key, Len(at)))
      PROVE  ContentsFrom(link, at, m, d, key)
               = ValueAt(Resolve(link, at, m, d), Drop(key, Len(at)))
  <2>1. ContentsFrom(link, at, m, d, key) = HeldBy(Resolve(link, at, m, d), Drop(key, Len(at)))
    BY <1>1, <1>4, FromHere
  <2> QED BY <1>3, <1>4, <2>1
<1> QED BY <1>1, <1>2, <1>4

\* A claim about places on the way of a key that holds at each of them, or
\* holds there if it holds at one further down, holds at all of them.
LEMMA Downwards ==
  ASSUME NEW key \in Path, NEW S, NEW Good,
         \A t \in S : /\ t.at \in Path /\ StartsWith(key, t.at)
                      /\ \/ t \in Good
                         \/ \E u \in S : Len(u.at) > Len(t.at) /\ (u \in Good => t \in Good)
  PROVE  S \subseteq Good
<1> DEFINE Left(t) == Len(key) - Len(t.at)
           T == {Left(t) : t \in S \ Good}
<1> SUFFICES ASSUME S \ Good # {} PROVE FALSE
  OBVIOUS
<1>1. \A t \in S : Len(t.at) \in Nat /\ Len(t.at) <= Len(key)
  BY PathLen DEF StartsWith
<1>2. Len(key) \in Nat
  BY PathLen
<1>3. T \subseteq Nat /\ T # {}
  BY <1>1, <1>2
<1>4. PICK k \in T : \A j \in T : k <= j
  <2> HIDE DEF T
  <2> QED BY <1>3, LeastElement
<1>5. PICK t \in S \ Good : k = Left(t)
  BY <1>4
<1>6. PICK u \in S : Len(u.at) > Len(t.at) /\ u \notin Good
  BY <1>5
<1>7. Left(u) \in T /\ Left(u) < Left(t) /\ Left(u) \in Int /\ Left(t) \in Int
  BY <1>1, <1>2, <1>5, <1>6
<1> HIDE DEF T, Left
<1> QED BY <1>4, <1>5, <1>7

\* A link into a set of nodes that leads nowhere else.
Leads(link, d) == link = Empty \/ (IsHash(link) /\ link.hash \in DOMAIN d)
Closed(d)      == IsStore(d) /\ \A h \in DOMAIN d : \A link \in Links(d[h]) : Leads(link, d)
Extends(e, d)  == \A h \in DOMAIN d : h \in DOMAIN e /\ e[h] = d[h]

\* What is stored can be read, and says the same when more is stored.
LEMMA StoredContents ==
  ASSUME NEW key \in Path, NEW at \in Path, StartsWith(key, at),
         NEW d, Closed(d), NEW e, Extends(e, d), NEW m, NEW n,
         NEW link, Leads(link, d)
  PROVE  /\ ContentsFrom(link, at, m, d, key) # Unreadable
         /\ ContentsFrom(link, at, n, e, key) = ContentsFrom(link, at, m, d, key)
<1> DEFINE AllLinks == {link} \cup {Empty} \cup UNION {Links(d[h]) : h \in DOMAIN d}
           S == {t \in [at : Path, link : AllLinks] : StartsWith(key, t.at) /\ Leads(t.link, d)}
           Good == {t \in S : /\ ContentsFrom(t.link, t.at, m, d, key) # Unreadable
                              /\ ContentsFrom(t.link, t.at, n, e, key) = ContentsFrom(t.link, t.at, m, d, key)}
<1>1. ASSUME NEW t \in S, t \notin Good
      PROVE  \E u \in S : Len(u.at) > Len(t.at) /\ (u \in Good => t \in Good)
  <2> DEFINE rest == Drop(key, Len(t.at))
             x == d[t.link.hash]
             slot == NextSlot(x, rest)
             next == LinkAt(x, slot)
             u == [at |-> t.at \o slot, link |-> next]
  <2>1. t.at \in Path /\ StartsWith(key, t.at) /\ Leads(t.link, d) /\ rest \in Path
    BY PathParts
  <2>2. t.link # Empty
    <3> SUFFICES ASSUME t.link = Empty PROVE FALSE
      OBVIOUS
    <3>1. ContentsFrom(t.link, t.at, m, d, key) = None /\ ContentsFrom(t.link, t.at, n, e, key) = None
      BY <2>1, ContentsRecursion
    <3> QED BY <1>1, <3>1, UnreadableAssumption
  <2>3. /\ IsHash(t.link) /\ t.link.hash \in DOMAIN d /\ IsNode(x) /\ e[t.link.hash] = x
        /\ Resolves(t.link, t.at, m, d) /\ Resolve(t.link, t.at, m, d) = x
        /\ Resolves(t.link, t.at, n, e) /\ Resolve(t.link, t.at, n, e) = x
    BY <2>1, <2>2, LinkTypes DEF Leads, Closed, IsStore, Extends, Resolves, Resolve
  <2> HIDE DEF x, rest
  <2>4. Descends(x, rest)
    <3> SUFFICES ASSUME ~Descends(x, rest) PROVE FALSE
      OBVIOUS
    <3>1. /\ ContentsFrom(t.link, t.at, m, d, key) = ValueAt(x, rest)
          /\ ContentsFrom(t.link, t.at, n, e, key) = ValueAt(x, rest)
      BY <2>1, <2>3, ContentsRecursion DEF rest
    <3>2. ValueAt(x, rest) \in Value \cup {None}
      BY <2>3 DEF ValueAt, IsNode
    <3> QED BY <1>1, <3>1, <3>2, UnreadableAssumption
  <2>5. /\ slot \in Slots(x) /\ u.at \in Path /\ StartsWith(key, u.at) /\ Len(u.at) > Len(t.at)
        /\ ContentsFrom(t.link, t.at, m, d, key) = ContentsFrom(next, u.at, m, d, key)
        /\ ContentsFrom(t.link, t.at, n, e, key) = ContentsFrom(next, u.at, n, e, key)
    <3> HIDE DEF next, slot
    <3> QED BY <2>1, <2>3, <2>4, FromSlot DEF rest, next, slot
  <2>6. next \in Links(x) /\ next \in AllLinks /\ Leads(next, d)
    BY <2>3, <2>5 DEF Links, Closed, x
  <2> HIDE DEF next, slot
  <2>7. u \in S
    BY <2>5, <2>6
  <2>8. u \in Good => t \in Good
    BY <2>5
  <2> QED BY <2>5, <2>7, <2>8
<1>2. S \subseteq Good
  <2>1. \A t \in S : t.at \in Path /\ StartsWith(key, t.at)
    OBVIOUS
  <2> HIDE DEF S, Good
  <2> QED BY <1>1, <2>1, Downwards
<1>3. [at |-> at, link |-> link] \in S
  OBVIOUS
<1>4. [at |-> at, link |-> link] \in Good
  BY <1>2, <1>3
<1> QED BY <1>4

-----------------------------------------------------------------------------
(* The versions.                                                           *)

\* "Digests that are of no node ever stored".
NoNodeIsForeign == \A n : Hash(n) \notin ForeignHash

\* What a link into the database holds for a key.
LEMMA StoreClosedIs ==
  ASSUME StoreInv
  PROVE  Closed(db)
BY LinkTypes DEF StoreInv, StoreClosed, Closed, Leads

\* A root that is stored or foreign, in a database that only grows.
LEMMA VersionKept ==
  ASSUME NoNodeIsForeign, NEW d, Closed(d), NEW e, IsStore(e), \A h \in DOMAIN e : h = Hash(e[h]),
         Extends(e, d), NEW h, h \in DOMAIN d \cup ForeignHash, NEW key \in Path
  PROVE  Contents(HashLink(h), NoNodes, e, key) = Contents(HashLink(h), NoNodes, d, key)
<1>1. /\ Contents(HashLink(h), NoNodes, e, key) = ContentsFrom(HashLink(h), <<>>, NoNodes, e, key)
      /\ Contents(HashLink(h), NoNodes, d, key) = ContentsFrom(HashLink(h), <<>>, NoNodes, d, key)
  BY ContentsIsFrom
<1>2. <<>> \in Path /\ StartsWith(key, <<>>)
  BY EmptyPath, EmptyPrefix
<1>3. CASE h \in DOMAIN d
  <2>1. Leads(HashLink(h), d)
    BY <1>3, LinkTypes DEF Leads
  <2> QED BY <1>1, <1>2, <2>1, StoredContents
<1>4. CASE h \notin DOMAIN d
  <2>1. h \notin DOMAIN e
    BY <1>4 DEF NoNodeIsForeign
  <2>2. /\ HashLink(h) # Empty /\ ~Resolves(HashLink(h), <<>>, NoNodes, d)
        /\ ~Resolves(HashLink(h), <<>>, NoNodes, e)
    BY <1>4, <2>1, LinkTypes DEF Resolves
  <2> QED BY <1>1, <1>2, <2>2, ContentsRecursion
<1> QED BY <1>3, <1>4

\* A version is what it was after a step that only adds to the database.
LEMMA VersionsKept ==
  ASSUME NoNodeIsForeign, IndInv, IndInv', RootsInv, StoreOnlyGrows
  PROVE  \A h \in roots : VersionMap(h)' = VersionMap(h)
<1>1. Closed(db) /\ IsStore(db') /\ \A h \in DOMAIN db' : h = Hash(db'[h])
  BY StoreClosedIs DEF IndInv, StoreInv, StoreClosed
<1>2. Extends(db', db)
  BY DEF StoreOnlyGrows, Extends
<1>3. roots \subseteq DOMAIN db \cup ForeignHash
  BY DEF RootsInv
<1>4. ASSUME NEW h \in roots, NEW k \in Key
      PROVE  Contents(HashLink(h), NoNodes, db', convert_bytes_to_nibbles(k))
               = Contents(HashLink(h), NoNodes, db, convert_bytes_to_nibbles(k))
  <2>1. convert_bytes_to_nibbles(k) \in Path
    BY KeyAssumption, NibblesOfKey
  <2> QED BY <1>1, <1>2, <1>3, <2>1, VersionKept
<1> QED BY <1>4 DEF VersionMap


\* No step changes what a committed root names, whatever is loaded from there,
\* inserted, committed, lost or restarted: for a root revert put in place that
\* was never stored, only if no node ever has its digest.
THEOREM VersionsNeverChange ==
  ASSUME NoNodeIsForeign
  PROVE  Spec => VersionsStable
<1>1. IndInv /\ IndInv' /\ RootsInv /\ [StoreOnlyGrows]_vars => [\A h \in roots : VersionMap(h)' = VersionMap(h)]_vars
  BY VersionsKept
<1> QED BY <1>1, IndInvHolds, RootsInvHolds, StoreAppendOnly, PTL DEF VersionsStable

-----------------------------------------------------------------------------
(* The lookups.                                                            *)

\* Where a lookup starts, and what it is to find.
FirstLink(c) == IF c.op = "get_value" THEN root ELSE HashLink(c.root_hash)
Nodes(c)     == IF c.op = "get_value" THEN mem ELSE NoNodes
Wanted(c)    == Contents(FirstLink(c), Nodes(c), db, c.key)

\* A part of the database that has the nodes copied so far, and in which the
\* rest of the lookup finds what it finds in the database, will do as a proof.
Suffices(c) ==
  \A s : /\ CopiedFrom(s) /\ Extends(s, c.store)
         /\ ContentsFrom(c.link, c.at, NoNodes, s, c.key) = ContentsFrom(c.link, c.at, NoNodes, db, c.key)
         => ContentsFrom(HashLink(c.root_hash), <<>>, NoNodes, s, c.key) = Wanted(c)

\* A lookup finds at its link what the trie holds; below the root it only
\* meets links to what is stored.
OnTheWay(c) ==
  /\ StartsWith(c.key, c.at)
  /\ ContentsFrom(c.link, c.at, Nodes(c), IF c.op = "verify_proof" THEN c.store ELSE db, c.key) = Wanted(c)
  /\ c.at = <<>> => c.link = FirstLink(c)
  /\ c.at # <<>> => /\ Leads(c.link, db) \/ c.link = Boxed
                    /\ c.op # "get_value" => c.root_hash \in DOMAIN db
  /\ c.op = "get_proof" => Suffices(c)

\* What a lookup has answered, and the proof it has made.
Answered(c, result) ==
  /\ c.op = "get_value"    => result = Ok(Wanted(c)) \/ (result = Err /\ (Faults \/ Wanted(c) = Unreadable))
  /\ c.op = "verify_proof" => result = Ok(IF Wanted(c) = Unreadable THEN None ELSE Wanted(c))
  /\ c.op = "get_proof"    =>
       \/ result = Err /\ Faults
       \/ /\ result = Ok(Wanted(c) # Unreadable /\ Wanted(c) # None)
          /\ ContentsFrom(HashLink(c.root_hash), <<>>, NoNodes, c.store, c.key) = Wanted(c)

AnswerInv ==
  /\ Reading => OnTheWay(call)
  /\ call.op = "return" => Answered(call.of, call.result)

\* An answer and an error differ.
LEMMA OkIsNotErr == \A x : Ok(x) # Err
BY DEF Ok, Err

\* The invariant implies what the runs check.
LEMMA AnswerInvImplies ==
  ASSUME IndInv, AnswerInv
  PROVE  GetValueCorrect /\ ProofSufficient
<1>1. GetValueCorrect
  BY DEF AnswerInv, Answered, GetValueCorrect, Wanted, FirstLink, Nodes
<1>2. ProofSufficient
  <2> SUFFICES ASSUME call.op = "return", call.of.op \in {"get_proof", "verify_proof"}
               PROVE  LET held  == Contents(HashLink(call.of.root_hash), NoNodes, db, call.of.key)
                          value == IF held = Unreadable THEN None ELSE held
                      IN  CASE call.of.op = "verify_proof" -> call.result = Ok(value)
                            [] call.result = Err           -> Faults
                            [] OTHER                       -> call.result = Ok(value # None)
    BY DEF ProofSufficient
  <2>1. Wanted(call.of) = Contents(HashLink(call.of.root_hash), NoNodes, db, call.of.key)
    BY DEF Wanted, FirstLink, Nodes
  <2>2. Answered(call.of, call.result)
    BY DEF AnswerInv
  <2>3. CASE call.of.op = "verify_proof"
    BY <2>1, <2>2, <2>3, OkIsNotErr DEF Answered
  <2>4. CASE call.of.op = "get_proof"
    <3> DEFINE held == Wanted(call.of)
               value == IF held = Unreadable THEN None ELSE held
    <3>1. \/ call.result = Err /\ Faults
          \/ call.result = Ok(held # Unreadable /\ held # None)
      BY <2>2, <2>4 DEF Answered
    <3>2. (held # Unreadable /\ held # None) = (value # None)
      OBVIOUS
    <3> QED BY <2>1, <2>4, <3>1, <3>2, OkIsNotErr
  <2> QED BY <2>3, <2>4
<1> QED BY <1>1, <1>2

\* The node a lookup reads is the one its link leads to.
LEMMA NodeMet ==
  ASSUME IndInv, AnswerInv, Reading
  PROVE  /\ call.key \in Path /\ call.at \in Path /\ StartsWith(call.key, call.at)
         /\ Rest = Drop(call.key, Len(call.at)) /\ Rest \in Path
         /\ Found <=> Resolves(call.link, call.at, Nodes(call), Source)
         /\ Found => /\ NodeRead = Resolve(call.link, call.at, Nodes(call), Source)
                     /\ IsNode(NodeRead)
         /\ Found /\ call.link # Boxed => /\ IsHash(call.link) /\ call.link.hash \in DOMAIN db
                                         /\ NodeRead = db[call.link.hash]
<1>1. /\ call.key \in Path /\ call.at \in Path /\ StartsWith(call.key, call.at)
      /\ Rest = Drop(call.key, Len(call.at)) /\ Rest \in Path
  BY LookingUp DEF AnswerInv, OnTheWay, IsRead, Rest
<1>2. call.link = Boxed => call.op = "get_value" /\ call.at \in DOMAIN mem
  BY LookingUp
<1>3. Found <=> Resolves(call.link, call.at, Nodes(call), Source)
  BY <1>2, LinkTypes DEF Found, Resolves, Nodes
<1>4. Found => NodeRead = Resolve(call.link, call.at, Nodes(call), Source)
  BY <1>2 DEF NodeRead, Resolve, Nodes
<1>5. Found => IsNode(NodeRead)
  BY ReadNode
<1>6. Found /\ call.link # Boxed => /\ IsHash(call.link) /\ call.link.hash \in DOMAIN db
                                   /\ NodeRead = db[call.link.hash]
  BY LookingUp DEF Found, NodeRead, Source, CopiedFrom
<1> QED BY <1>1, <1>3, <1>4, <1>5, <1>6

\* A lookup that starts at the root finds there what the trie holds.
LEMMA LookupStarts ==
  ASSUME NEW c, c.key \in Path, c.at = <<>>, c.link = FirstLink(c),
         c.op = "verify_proof" =>
           ContentsFrom(c.link, <<>>, NoNodes, c.store, c.key) = Wanted(c)
  PROVE  OnTheWay(c)
<1>1. Wanted(c) = ContentsFrom(c.link, <<>>, Nodes(c), db, c.key)
  BY ContentsIsFrom DEF Wanted
<1>2. StartsWith(c.key, <<>>)
  BY EmptyPrefix
<1>3. c.op = "get_proof" => Suffices(c)
  BY <1>1 DEF Suffices, FirstLink, Nodes
<1>4. ContentsFrom(c.link, c.at, Nodes(c), IF c.op = "verify_proof" THEN c.store ELSE db, c.key) = Wanted(c)
  BY <1>1 DEF Nodes
<1> QED BY <1>2, <1>3, <1>4 DEF OnTheWay

\* Where a lookup is depends on the trie only through its contents.
LEMMA StillOnTheWay ==
  ASSUME OnTheWay(call'), UNCHANGED <<root, mem, db>>
  PROVE  OnTheWay(call)'
BY DEF OnTheWay, Wanted, FirstLink, Nodes, Suffices, CopiedFrom, Leads

\* And so does what it has answered.
LEMMA StillAnswered ==
  ASSUME Answered(call'.of, call'.result), UNCHANGED <<root, mem, db>>
  PROVE  Answered(call.of, call.result)'
BY DEF Answered, Wanted, FirstLink, Nodes

\* A lookup that goes on.
LEMMA ReadDescendAnswers ==
  ASSUME IndInv, AnswerInv, ReadDescend
  PROVE  AnswerInv'
<1> DEFINE n    == NodeRead
           slot == NextSlot(n, Rest)
           at   == call.at \o slot
           link == LinkAt(n, slot)
           c    == ReadCall(call.op, call.root_hash, call.key, StoreAfter, at, link)
<1>1. /\ Reading /\ Found /\ Descends(n, Rest) /\ call' = c
      /\ UNCHANGED <<root, mem, db, dirty, roots, commits>>
  BY DEF ReadDescend
<1>2. /\ call.key \in Path /\ call.at \in Path /\ StartsWith(call.key, call.at)
      /\ Rest = Drop(call.key, Len(call.at)) /\ Rest \in Path
      /\ Resolves(call.link, call.at, Nodes(call), Source)
      /\ n = Resolve(call.link, call.at, Nodes(call), Source) /\ IsNode(n)
      /\ call.link # Boxed => /\ IsHash(call.link) /\ call.link.hash \in DOMAIN db
                              /\ n = db[call.link.hash]
  BY <1>1, NodeMet
<1>3. OnTheWay(call)
  BY <1>1 DEF AnswerInv
<1> HIDE DEF n
<1>4. /\ slot \in Slots(n) /\ slot # <<>> /\ slot \in Path
      /\ at \in Path /\ StartsWith(call.key, at) /\ Len(at) > Len(call.at)
      /\ ContentsFrom(call.link, call.at, Nodes(call), Source, call.key)
           = ContentsFrom(link, at, Nodes(call), Source, call.key)
  <2>1. slot = NextSlot(n, Drop(call.key, Len(call.at))) /\ Descends(n, Drop(call.key, Len(call.at)))
    BY <1>1, <1>2 DEF n
  <2>2. PICK M, D, x : M = Nodes(call) /\ D = Source /\ x = n
    OBVIOUS
  <2>3. /\ call.key \in Path /\ call.at \in Path /\ StartsWith(call.key, call.at)
        /\ Resolves(call.link, call.at, M, D) /\ x = Resolve(call.link, call.at, M, D) /\ IsNode(x)
        /\ slot = NextSlot(x, Drop(call.key, Len(call.at))) /\ Descends(x, Drop(call.key, Len(call.at)))
    BY <1>2, <2>1, <2>2
  <2> HIDE DEF slot
  <2>4. slot \in Slots(x) /\ slot # <<>> /\ slot \in Path
    BY <2>3, FromSlot
  <2>5. call.at \o slot \in Path /\ StartsWith(call.key, call.at \o slot)
    BY <2>3, FromSlot
  <2>6. Len(call.at \o slot) > Len(call.at)
    BY <2>3, FromSlot
  <2>7. ContentsFrom(call.link, call.at, M, D, call.key)
             = ContentsFrom(LinkAt(x, slot), call.at \o slot, M, D, call.key)
    BY <2>3, FromSlot
  <2> QED BY <2>2, <2>4, <2>5, <2>6, <2>7
<1>5. at # <<>>
  BY <1>2, <1>4, PathLen, EmptyPath
<1> HIDE DEF slot
<1>6. /\ c.op = call.op /\ c.root_hash = call.root_hash /\ c.key = call.key
      /\ c.store = StoreAfter /\ c.at = at /\ c.link = link
  BY DEF ReadCall
<1> HIDE DEF at, c
<1>7. link = Boxed \/ Leads(link, db)
  <2>1. link \in Links(n) /\ IsLink(link)
    BY <1>2, <1>4, NodeSlots
  <2>2. IsHash(link) => link.hash \in DOMAIN db
    <3>1. CASE call.link = Boxed
      <4>1. n = mem[call.at] /\ call.at \in DOMAIN mem /\ Owned(mem, DOMAIN db)
        BY <1>1, <3>1, LookingUp DEF NodeRead, n
      <4> QED BY <2>1, <4>1 DEF Owned
    <3>2. CASE call.link # Boxed
      <4>1. Childless(n, DOMAIN db)
        BY <1>1, <3>2, ReadNode DEF n
      <4> QED BY <2>1, <4>1 DEF Childless
    <3> QED BY <3>1, <3>2
  <2> QED BY <2>1, <2>2, LinkTypes DEF IsLink, Leads
<1>8. Wanted(c) = Wanted(call) /\ Nodes(c) = Nodes(call) /\ FirstLink(c) = FirstLink(call)
  BY <1>6 DEF Wanted, FirstLink, Nodes
<1>9. ContentsFrom(link, at, Nodes(c), IF c.op = "verify_proof" THEN c.store ELSE db, c.key) = Wanted(c)
  <2>1. (IF c.op = "verify_proof" THEN c.store ELSE db) = Source
    BY <1>6 DEF StoreAfter, Source
  <2> QED BY <1>3, <1>4, <1>6, <1>8, <2>1 DEF OnTheWay, Source
<1>10. c.op # "get_value" => c.root_hash \in DOMAIN db
  <2> SUFFICES ASSUME c.op # "get_value" PROVE c.root_hash \in DOMAIN db
    OBVIOUS
  <2>1. CASE call.at # <<>>
    BY <1>3, <1>6, <2>1 DEF OnTheWay
  <2>2. CASE call.at = <<>>
    <3>1. call.link = HashLink(call.root_hash)
      BY <1>3, <1>6, <2>2 DEF OnTheWay, FirstLink
    <3> QED BY <1>2, <1>6, <3>1, LinkTypes
  <2> QED BY <2>1, <2>2
<1>11. c.op = "get_proof" => Suffices(c)
  <2> SUFFICES ASSUME c.op = "get_proof",
                      NEW s, CopiedFrom(s), Extends(s, c.store),
                      ContentsFrom(c.link, c.at, NoNodes, s, c.key) = ContentsFrom(c.link, c.at, NoNodes, db, c.key)
               PROVE  ContentsFrom(HashLink(c.root_hash), <<>>, NoNodes, s, c.key) = Wanted(c)
    BY DEF Suffices
  <2>1. call.op = "get_proof" /\ call.link # Boxed /\ Suffices(call)
    BY <1>1, <1>3, <1>6, LookingUp DEF OnTheWay
  <2>2. StoreAfter = With(call.store, call.link.hash, n)
    BY <2>1 DEF StoreAfter, n
  <2>3. IsHash(call.link) /\ call.link.hash \in DOMAIN s /\ s[call.link.hash] = n
    <3>1. call.link.hash \in DOMAIN c.store /\ c.store[call.link.hash] = n
      <4>1. /\ call.link.hash \in DOMAIN With(call.store, call.link.hash, n)
            /\ With(call.store, call.link.hash, n)[call.link.hash] = n
        BY DEF With
      <4> QED BY <1>6, <2>2, <4>1
    <3> QED BY <1>2, <2>1, <3>1 DEF Extends
  <2>4. CopiedFrom(call.store)
    BY <1>1, LookingUp
  <2>5. Extends(s, call.store)
    <3>1. ASSUME NEW h \in DOMAIN call.store PROVE h \in DOMAIN s /\ s[h] = call.store[h]
      <4>1. h \in DOMAIN s /\ s[h] = StoreAfter[h]
        BY <1>6, <2>2 DEF With, Extends
      <4>2. s[h] = db[h] /\ call.store[h] = db[h]
        BY <2>4, <4>1 DEF CopiedFrom
      <4> QED BY <4>1, <4>2
    <3> QED BY <3>1 DEF Extends
  <2>6. Resolves(call.link, call.at, NoNodes, s) /\ n = Resolve(call.link, call.at, NoNodes, s)
    BY <2>1, <2>3 DEF Resolves, Resolve
  <2>7. ContentsFrom(call.link, call.at, NoNodes, s, call.key) = ContentsFrom(link, at, NoNodes, s, call.key)
    <3>1. slot = NextSlot(n, Drop(call.key, Len(call.at))) /\ Descends(n, Drop(call.key, Len(call.at)))
      BY <1>1, <1>2 DEF n, slot
    <3> QED BY <1>2, <2>6, <3>1, FromSlot DEF at
  <2>8. ContentsFrom(call.link, call.at, NoNodes, db, call.key) = ContentsFrom(link, at, NoNodes, db, call.key)
    BY <1>4, <2>1 DEF Nodes, Source
  <2>9. ContentsFrom(call.link, call.at, NoNodes, s, call.key) = ContentsFrom(call.link, call.at, NoNodes, db, call.key)
    BY <1>6, <2>7, <2>8
  <2> QED BY <1>6, <1>8, <2>1, <2>5, <2>9 DEF Suffices
<1>12. OnTheWay(c)
  BY <1>4, <1>5, <1>6, <1>7, <1>9, <1>10, <1>11 DEF OnTheWay
<1>13. call'.op # "return"
  BY <1>1, <1>6 DEF c, Reading
<1> QED BY <1>1, <1>12, <1>13, StillOnTheWay DEF AnswerInv, c

\* A lookup that ends with an answer that is right.
LEMMA ReturnAnswers ==
  ASSUME IndInv, Reading, NEW store, NEW result, Return(store, result),
         Answered(ReadCall(call.op, call.root_hash, call.key, store, call.at, call.link), result)
  PROVE  AnswerInv'
<1> DEFINE of == ReadCall(call.op, call.root_hash, call.key, store, call.at, call.link)
<1>1. call' = Returned(of, result) /\ UNCHANGED <<root, mem, db>>
  BY DEF Return
<1> HIDE DEF of
<1>2. call'.op = "return" /\ call'.of = of /\ call'.result = result
  BY <1>1 DEF Returned
<1>3. Answered(call.of, call.result)'
  BY <1>1, <1>2, StillAnswered DEF of
<1> QED BY <1>2, <1>3 DEF AnswerInv, Reading

\* What a lookup wants does not depend on the proof it makes.
LEMMA SameWanted ==
  ASSUME NEW store
  PROVE  LET of == ReadCall(call.op, call.root_hash, call.key, store, call.at, call.link)
         IN  /\ of.op = call.op /\ of.root_hash = call.root_hash /\ of.key = call.key
             /\ of.store = store /\ Wanted(of) = Wanted(call)
BY DEF ReadCall, Wanted, FirstLink, Nodes

\* A lookup that ends at a node.
LEMMA ReadHereAnswers ==
  ASSUME IndInv, AnswerInv, ReadHere
  PROVE  AnswerInv'
<1> DEFINE n     == NodeRead
           value == ValueAt(n, Rest)
           of    == ReadCall(call.op, call.root_hash, call.key, StoreAfter, call.at, call.link)
<1>1. Reading /\ Found /\ ~Descends(n, Rest) /\ Return(StoreAfter, Answer(value))
  BY DEF ReadHere
<1>2. /\ call.key \in Path /\ call.at \in Path /\ StartsWith(call.key, call.at)
      /\ Rest = Drop(call.key, Len(call.at)) /\ Rest \in Path
      /\ Resolves(call.link, call.at, Nodes(call), Source)
      /\ n = Resolve(call.link, call.at, Nodes(call), Source) /\ IsNode(n)
      /\ call.link # Boxed => /\ IsHash(call.link) /\ call.link.hash \in DOMAIN db
                              /\ n = db[call.link.hash]
  BY <1>1, NodeMet
<1>3. OnTheWay(call)
  BY <1>1 DEF AnswerInv
<1>4. /\ of.op = call.op /\ of.root_hash = call.root_hash /\ of.key = call.key
      /\ of.store = StoreAfter /\ Wanted(of) = Wanted(call)
  BY SameWanted
<1> HIDE DEF n, of
<1>5. value \in Value \cup {None} /\ value # Unreadable
  BY <1>2, UnreadableAssumption DEF ValueAt, IsNode
<1>6. Wanted(call) = value
  <2>1. ContentsFrom(call.link, call.at, Nodes(call), Source, call.key) = value
    BY <1>1, <1>2, ContentsRecursion DEF n
  <2> QED BY <1>3, <2>1 DEF OnTheWay, Source
<1> HIDE DEF value
<1>7. call.op = "get_proof" =>
        ContentsFrom(HashLink(call.root_hash), <<>>, NoNodes, StoreAfter, call.key) = Wanted(call)
  <2> SUFFICES ASSUME call.op = "get_proof"
               PROVE  ContentsFrom(HashLink(call.root_hash), <<>>, NoNodes, StoreAfter, call.key) = Wanted(call)
    OBVIOUS
  <2>1. call.link # Boxed /\ CopiedFrom(call.store) /\ CopiedFrom(StoreAfter)
    BY <1>1, LookingUp, ReadNode
  <2>2. StoreAfter = With(call.store, call.link.hash, n)
    BY DEF StoreAfter, n
  <2>3. IsHash(call.link) /\ call.link.hash \in DOMAIN StoreAfter /\ StoreAfter[call.link.hash] = n
    BY <1>2, <2>1, <2>2 DEF With
  <2>4. Extends(StoreAfter, call.store)
    BY <2>1, <2>2 DEF Extends, With, CopiedFrom
  <2>5. Resolves(call.link, call.at, NoNodes, StoreAfter) /\ Resolve(call.link, call.at, NoNodes, StoreAfter) = n
    BY <2>1, <2>3 DEF Resolves, Resolve
  <2>6. ContentsFrom(call.link, call.at, NoNodes, StoreAfter, call.key) = value
    BY <1>1, <1>2, <2>5, ContentsRecursion DEF n, value
  <2>7. ContentsFrom(call.link, call.at, NoNodes, db, call.key) = value
    BY <1>3, <1>6 DEF OnTheWay, Nodes
  <2>8. Suffices(call)
    BY <1>3 DEF OnTheWay
  <2> QED BY <2>1, <2>4, <2>6, <2>7, <2>8 DEF Suffices
<1>8. Answered(of, Answer(value))
  BY <1>4, <1>5, <1>6, <1>7 DEF Answered, Answer
<1> QED BY <1>1, <1>8, ReturnAnswers DEF of, value, n

\* A lookup that ends without a node.
LEMMA ReadMissAnswers ==
  ASSUME IndInv, AnswerInv, ReadEmpty \/ ReadNoRoot \/ ReadFails
  PROVE  AnswerInv'
<1> DEFINE of == ReadCall(call.op, call.root_hash, call.key, call.store, call.at, call.link)
           key == call.key
<1>1. Reading
  BY DEF ReadEmpty, ReadNoRoot, ReadFails, Reading
<1>2. /\ key \in Path /\ call.at \in Path /\ StartsWith(key, call.at)
      /\ Found <=> Resolves(call.link, call.at, Nodes(call), Source)
  BY <1>1, NodeMet
<1>3. OnTheWay(call)
  BY <1>1 DEF AnswerInv
<1>4. /\ of.op = call.op /\ of.root_hash = call.root_hash /\ of.key = key
      /\ of.store = call.store /\ Wanted(of) = Wanted(call)
  BY SameWanted
<1>5. Wanted(call) = ContentsFrom(call.link, call.at, Nodes(call), Source, key)
  BY <1>3 DEF OnTheWay, Source
<1>6. call.op \in {"get_value", "get_proof", "verify_proof"} /\ CopiedFrom(call.store)
  BY <1>1, LookingUp DEF Reading
<1>7. call.link # Empty /\ ~Found => Wanted(call) = Unreadable
  BY <1>2, <1>5, ContentsRecursion
<1> HIDE DEF of
<1>8. CASE ReadEmpty
  <2>1. call.link = Empty /\ Return(call.store, Answer(None))
    BY <1>8 DEF ReadEmpty
  <2>2. Wanted(call) = None /\ None # Unreadable
    BY <1>2, <1>5, <2>1, ContentsRecursion, UnreadableAssumption
  <2>3. call.op = "get_proof" =>
          ContentsFrom(HashLink(call.root_hash), <<>>, NoNodes, call.store, key) = Wanted(call)
    <3>1. /\ ContentsFrom(call.link, call.at, NoNodes, call.store, key) = None
          /\ ContentsFrom(call.link, call.at, NoNodes, db, key) = None
      BY <1>2, <2>1, ContentsRecursion
    <3>2. Extends(call.store, call.store)
      BY DEF Extends
    <3> QED BY <1>3, <1>6, <3>1, <3>2 DEF OnTheWay, Suffices
  <2>4. Answered(of, Answer(None))
    BY <1>4, <2>2, <2>3 DEF Answered, Answer
  <2> QED BY <1>1, <2>1, <2>4, ReturnAnswers DEF of
<1>9. CASE ReadNoRoot
  <2>1. /\ call.op \in {"get_proof", "verify_proof"} /\ call.at = <<>> /\ ~Found
        /\ Return(call.store, Answer(None))
    BY <1>9 DEF ReadNoRoot
  <2>2. call.link = HashLink(call.root_hash) /\ call.link # Empty
    BY <1>3, <2>1, LinkTypes DEF OnTheWay, FirstLink
  <2>3. call.op = "get_proof" =>
          ContentsFrom(HashLink(call.root_hash), <<>>, NoNodes, call.store, key) = Unreadable
    <3> SUFFICES ASSUME call.op = "get_proof"
                 PROVE  ContentsFrom(HashLink(call.root_hash), <<>>, NoNodes, call.store, key) = Unreadable
      OBVIOUS
    <3>1. ~Resolves(call.link, <<>>, NoNodes, call.store)
      BY <1>6, <2>1, <2>2, LinkTypes DEF Resolves, Found, Source, CopiedFrom
    <3> QED BY <1>2, <2>1, <2>2, <3>1, ContentsRecursion
  <2>4. Answered(of, Answer(None))
    BY <1>4, <1>7, <2>1, <2>2, <2>3 DEF Answered, Answer
  <2> QED BY <1>1, <2>1, <2>4, ReturnAnswers DEF of
<1>10. CASE ReadFails
  <2>1. /\ IsHash(call.link) /\ Return(call.store, Err)
        /\ \/ Faults /\ call.op # "verify_proof"
           \/ ~Found /\ (call.op = "get_value" \/ call.at # <<>>)
    BY <1>10 DEF ReadFails
  <2>2. call.link # Empty /\ call.link # Boxed
    BY <2>1, LinkTypes
  <2>3. CASE Faults /\ call.op # "verify_proof"
    <3>1. Answered(of, Err)
      BY <1>4, <1>6, <2>3 DEF Answered
    <3> QED BY <1>1, <2>1, <3>1, ReturnAnswers DEF of
  <2>4. CASE ~Found /\ call.op = "get_value"
    <3>1. Answered(of, Err)
      BY <1>4, <1>7, <2>2, <2>4 DEF Answered
    <3> QED BY <1>1, <2>1, <3>1, ReturnAnswers DEF of
  <2>5. CASE ~Found /\ call.op # "get_value" /\ call.at # <<>>
    <3>1. call.link.hash \in DOMAIN db /\ call.root_hash \in DOMAIN db
      BY <1>3, <2>2, <2>5 DEF OnTheWay, Leads
    <3>2. call.op = "verify_proof"
      BY <1>6, <2>1, <2>5, <3>1 DEF Found, Source
    <3>3. Wanted(call) = Unreadable
      BY <1>7, <2>2, <2>5
    <3>4. Wanted(call) = ContentsFrom(HashLink(call.root_hash), <<>>, NoNodes, db, key)
      BY <1>2, <3>2, ContentsIsFrom DEF Wanted, FirstLink, Nodes
    <3>5. Closed(db) /\ Extends(db, db) /\ Leads(HashLink(call.root_hash), db)
      BY <3>1, StoreClosedIs, LinkTypes DEF IndInv, Extends, Leads
    <3>6. <<>> \in Path /\ StartsWith(key, <<>>)
      BY <1>2, EmptyPath, EmptyPrefix
    <3>7. ContentsFrom(HashLink(call.root_hash), <<>>, NoNodes, db, key) # Unreadable
      BY <1>2, <3>5, <3>6, StoredContents
    <3> QED BY <3>3, <3>4, <3>7
  <2> QED BY <2>1, <2>3, <2>4, <2>5
<1> QED BY <1>8, <1>9, <1>10

\* A call that starts to look up a path from the root.
LEMMA StartAnswers ==
  ASSUME UNCHANGED db, call'.key \in Path, call'.at = <<>>,
         \/ call'.op = "get_value" /\ call'.link = root /\ UNCHANGED <<root, mem>>
         \/ call'.op = "get_proof" /\ call'.link = HashLink(call'.root_hash)
  PROVE  AnswerInv'
<1>1. Wanted(call)' = ContentsFrom(call'.link, <<>>, Nodes(call)', db', call'.key)
  <2>1. Wanted(call)' = Contents(call'.link, Nodes(call)', db', call'.key)
    BY DEF Wanted, FirstLink, Nodes
  <2> QED BY <2>1, ContentsIsFrom
<1>2. StartsWith(call'.key, <<>>)
  BY EmptyPrefix
<1>3. call'.link = FirstLink(call)'
  BY DEF FirstLink
<1>4. call'.op = "get_proof" => Suffices(call)'
  BY <1>1 DEF Suffices, Nodes
<1>5. OnTheWay(call)'
  BY <1>1, <1>2, <1>3, <1>4 DEF OnTheWay
<1> QED BY <1>5 DEF AnswerInv

\* The verification starts with a proof that will do.
LEMMA VerifyAnswers ==
  ASSUME IndInv, AnswerInv, VerifyProof
  PROVE  AnswerInv'
<1> DEFINE of == call.of
           c  == ReadCall("verify_proof", of.root_hash, of.key, of.store, <<>>, HashLink(of.root_hash))
<1>1. /\ call.op = "return" /\ of.op = "get_proof" /\ call.result # Err /\ call' = c
      /\ UNCHANGED <<root, mem, db>>
  BY DEF VerifyProof
<1>2. of.key \in Path
  BY <1>1 DEF IndInv, Typed, IsCall, IsRead
<1>3. ContentsFrom(HashLink(of.root_hash), <<>>, NoNodes, of.store, of.key) = Wanted(of)
  BY <1>1 DEF AnswerInv, Answered
<1>4. /\ c.op = "verify_proof" /\ c.key = of.key /\ c.store = of.store /\ c.at = <<>>
      /\ c.link = HashLink(of.root_hash) /\ c.root_hash = of.root_hash
  BY DEF ReadCall
<1> HIDE DEF c, of
<1>5. Wanted(c) = Wanted(of) /\ c.link = FirstLink(c)
  BY <1>1, <1>4 DEF Wanted, FirstLink, Nodes
<1>6. OnTheWay(c)
  BY <1>2, <1>3, <1>4, <1>5, LookupStarts
<1> QED BY <1>1, <1>4, <1>6, StillOnTheWay DEF AnswerInv

\* Every step keeps the lookups on their way and the answers right.
LEMMA AnswerInvInductive ==
  ASSUME IndInv, AnswerInv, [Next]_vars
  PROVE  AnswerInv'
<1> DEFINE Looking(c) == c.op \in {"get_value", "get_proof", "verify_proof", "return"}
<1>1. ASSUME ~Looking(call') PROVE AnswerInv'
  BY <1>1 DEF AnswerInv, Reading
<1>2. ASSUME call' = Idle PROVE AnswerInv'
  BY <1>1, <1>2 DEF Idle
<1>3. ASSUME NEW then, StartCommit(then) PROVE AnswerInv'
  BY <1>1, <1>3 DEF StartCommit, CommitCall
<1>4. ASSUME NEW h, NEW key \in Path, call' = ProofCall(h, key), UNCHANGED db PROVE AnswerInv'
  <2>1. call'.op = "get_proof" /\ call'.key = key /\ call'.at = <<>> /\ call'.link = HashLink(call'.root_hash)
    BY <1>4 DEF ProofCall, ReadCall
  <2> QED BY <1>4, <2>1, StartAnswers
<1>5. ASSUME NEW k \in Key, NEW v \in Value, Insert(k, v) PROVE AnswerInv'
  BY <1>1, <1>5 DEF Insert, InsertCall
<1>6. ASSUME NEW k \in Key, GetValue(k) PROVE AnswerInv'
  <2>1. convert_bytes_to_nibbles(k) \in Path
    BY KeyAssumption, NibblesOfKey
  <2>2. /\ call'.op = "get_value" /\ call'.key \in Path /\ call'.at = <<>> /\ call'.link = root
        /\ UNCHANGED <<root, mem, db>>
    BY <1>6, <2>1 DEF GetValue, ReadCall
  <2> QED BY <2>2, StartAnswers
<1>7. CASE Commit
  BY <1>3, <1>7 DEF Commit
<1>8. ASSUME NEW h \in KnownHash, NEW k \in Key, GetProof(h, k) PROVE AnswerInv'
  <2>1. convert_bytes_to_nibbles(k) \in Path
    BY KeyAssumption, NibblesOfKey
  <2> QED BY <1>3, <1>4, <1>8, <2>1 DEF GetProof
<1>9. CASE VerifyProof
  BY <1>9, VerifyAnswers
<1>10. CASE \/ InsertIntoEmpty \/ InsertHere \/ InsertFails \/ CommitFails \/ Resume \/ Restart
            \/ \E h \in KnownHash : Revert(h)
  BY <1>2, <1>10 DEF InsertIntoEmpty, InsertHere, FinishInsert, InsertFails, CommitFails,
                     Resume, Restart, Revert
<1>11. CASE InsertUnserializable
  BY <1>2, <1>11 DEF InsertUnserializable
<1>12. CASE InsertLoad \/ InsertDescend
  <2>1. \E key, value, top, at, link : call' = InsertCall(key, value, top, at, link)
    BY <1>12 DEF InsertLoad, InsertDescend
  <2>2. call'.op = "insert"
    BY <2>1 DEF InsertCall
  <2> QED BY <1>1, <2>2
<1>13. CASE CollapseNode
  BY <1>1, <1>13 DEF CollapseNode, CommitCall
<1>14. CASE FinishCommit
  <2>1. CASE call' = Idle
    BY <1>2, <2>1
  <2>2. CASE call.then # None /\ call' = ProofCall(call.then.root_hash, call.then.key)
    <3>1. call.then.key \in Path /\ UNCHANGED db
      BY <1>14, <2>2, Committing DEF FinishCommit
    <3> QED BY <1>4, <2>2, <3>1
  <2> QED BY <1>14, <2>1, <2>2 DEF FinishCommit
<1>15. CASE ReadDescend \/ ReadHere \/ ReadEmpty \/ ReadNoRoot \/ ReadFails
  BY <1>15, ReadDescendAnswers, ReadHereAnswers, ReadMissAnswers
<1>16. CASE UNCHANGED vars
  <2>1. call' = call /\ UNCHANGED <<root, mem, db>>
    BY <1>16 DEF vars
  <2>2. Reading' => OnTheWay(call)'
    BY <2>1, StillOnTheWay DEF AnswerInv, Reading
  <2>3. call'.op = "return" => Answered(call.of, call.result)'
    BY <2>1, StillAnswered DEF AnswerInv
  <2> QED BY <2>2, <2>3 DEF AnswerInv
<1> QED BY <1>5, <1>6, <1>7, <1>8, <1>9, <1>10, <1>11, <1>12, <1>13, <1>14, <1>15, <1>16 DEF Next, Step

\* Every reachable state satisfies it.
LEMMA AnswerInvHolds == Spec => []AnswerInv
<1>1. Init => AnswerInv
  BY DEF Init, AnswerInv, Reading, Idle
<1>2. IndInv /\ AnswerInv /\ [Next]_vars => AnswerInv'
  BY AnswerInvInductive
<1> QED BY <1>1, <1>2, IndInvHolds, PTL DEF Spec

\* get_value returns what the paths of the current trie spell for the key,
\* whichever nodes are boxed and whichever stored, at any depth.
THEOREM ValuesCorrect == Spec => []GetValueCorrect
<1>1. IndInv /\ AnswerInv => GetValueCorrect
  BY AnswerInvImplies
<1> QED BY <1>1, IndInvHolds, AnswerInvHolds, PTL

\* The nodes get_proof has copied when it answers are enough: verify_proof
\* gets from them, without an error, what the version holds for the key.
THEOREM ProofsSufficient == Spec => []ProofSufficient
<1>1. IndInv /\ AnswerInv => ProofSufficient
  BY AnswerInvImplies
<1> QED BY <1>1, IndInvHolds, AnswerInvHolds, PTL

-----------------------------------------------------------------------------
(* What a link holds below its path.                                       *)


\* What `link' at path `at' holds for what is left of a key.
Under(link, at, m, d, y) == ContentsFrom(link, at, m, d, at \o y)

\* The link leads to node n.
LeadsTo(link, at, m, d, n) == Resolves(link, at, m, d) /\ n = Resolve(link, at, m, d)

-----------------------------------------------------------------------------
(* What one node holds.                                                    *)

\* The recursion of Contents, at the end of a path.
LEMMA UnderHere ==
  ASSUME NEW at \in Path, NEW y \in Path, NEW m, NEW d, NEW link
  PROVE  /\ link = Empty => Under(link, at, m, d, y) = None
         /\ link # Empty /\ ~Resolves(link, at, m, d) => Under(link, at, m, d, y) = Unreadable
         /\ \A n : Resolves(link, at, m, d) /\ n = Resolve(link, at, m, d) /\ IsNode(n) /\ ~Descends(n, y)
              => Under(link, at, m, d, y) = ValueAt(n, y)
<1> DEFINE key == at \o y
<1>1. key \in Path /\ StartsWith(key, at) /\ Drop(key, Len(at)) = y
  BY ConcatPath, ConcatPrefix
<1> HIDE DEF key
<1>2. /\ link = Empty => ContentsFrom(link, at, m, d, key) = None
      /\ link # Empty /\ ~Resolves(link, at, m, d)
           => ContentsFrom(link, at, m, d, key) = Unreadable
      /\ /\ Resolves(link, at, m, d)
         /\ IsNode(Resolve(link, at, m, d))
         /\ ~Descends(Resolve(link, at, m, d), Drop(key, Len(at)))
         => ContentsFrom(link, at, m, d, key)
              = ValueAt(Resolve(link, at, m, d), Drop(key, Len(at)))
  BY <1>1, ContentsRecursion
<1>3. Under(link, at, m, d, y) = ContentsFrom(link, at, m, d, key)
  BY DEF Under, key
<1> QED BY <1>1, <1>2, <1>3

\* The recursion of Contents, through a slot.
LEMMA UnderSlot ==
  ASSUME NEW at \in Path, NEW m, NEW d, NEW link,
         Resolves(link, at, m, d), NEW n, n = Resolve(link, at, m, d), IsNode(n),
         NEW slot \in Slots(n), NEW z \in Path
  PROVE  Under(link, at, m, d, slot \o z) = Under(LinkAt(n, slot), at \o slot, m, d, z)
<1> DEFINE y == slot \o z
           key == at \o y
<1>0. slot \in Path /\ y \in Path
  BY NodeSlots, ConcatPath
<1>3. StartsWith(y, slot)
  BY <1>0, ConcatPrefix
<1>5. (at \o slot) \o z = key
  BY <1>0, ConcatAssoc
<1>9. Under(link, at, m, d, slot \o z) = ContentsFrom(link, at, m, d, key)
  BY DEF Under
<1> HIDE DEF y
<1>1. key \in Path /\ StartsWith(key, at) /\ Drop(key, Len(at)) = y
  BY <1>0, ConcatPath, ConcatPrefix
<1>4. Descends(n, y) /\ NextSlot(n, y) = slot
  BY <1>0, <1>3, SlotMet
<1> HIDE DEF key
<1>6. Descends(n, Drop(key, Len(at))) /\ slot = NextSlot(n, Drop(key, Len(at)))
  BY <1>1, <1>4
<1>7. key \in Path /\ StartsWith(key, at)
  BY <1>1
<1>8. ContentsFrom(link, at, m, d, key) = ContentsFrom(LinkAt(n, slot), at \o slot, m, d, key)
  BY <1>6, <1>7, FromSlot
<1> QED BY <1>5, <1>8, <1>9 DEF Under

\* A leaf holds its value for its own rest of a key.
LEMMA UnderLeaf ==
  ASSUME NEW at \in Path, NEW y \in Path, NEW m, NEW d, NEW link,
         Resolves(link, at, m, d), NEW n, n = Resolve(link, at, m, d), IsNode(n), n.kind = "Node"
  PROVE  Under(link, at, m, d, y) = IF y = n.rest_of_key THEN n.value ELSE None
<1>1. ~Descends(n, y)
  BY DEF Descends
<1>2. Under(link, at, m, d, y) = ValueAt(n, y)
  BY <1>1, UnderHere
<1> QED BY <1>2 DEF ValueAt

\* At p in m lies under s what lies at q in f, and nothing else.
Carries(link, p, m, s, next, q, f, d) ==
  /\ \A z \in Path : Under(link, p, m, d, s \o z) = Under(next, q, f, d, z)
  /\ \A y \in Path : ~StartsWith(y, s) => Under(link, p, m, d, y) = None

\* An extension holds what its branch does, below its partial key.
LEMMA UnderExtension ==
  ASSUME NEW at \in Path, NEW m, NEW d, NEW link, NEW n, LeadsTo(link, at, m, d, n),
         IsNode(n), n.kind = "Extension"
  PROVE  Carries(link, at, m, n.partial_key, n.branch, at \o n.partial_key, m, d)
<1>1. n.partial_key \in Slots(n) /\ LinkAt(n, n.partial_key) = n.branch /\ Slots(n) = {n.partial_key}
  BY ExtensionParts
<1>0. Resolves(link, at, m, d) /\ n = Resolve(link, at, m, d)
  BY DEF LeadsTo
<1>2. ASSUME NEW z \in Path
      PROVE  Under(link, at, m, d, n.partial_key \o z) = Under(n.branch, at \o n.partial_key, m, d, z)
  <2>1. PICK slot \in Slots(n) : slot = n.partial_key /\ LinkAt(n, slot) = n.branch
    BY <1>1
  <2>3. Under(link, at, m, d, slot \o z) = Under(LinkAt(n, slot), at \o slot, m, d, z)
    BY <1>0, UnderSlot
  <2> QED BY <2>1, <2>3
<1>3. ASSUME NEW y \in Path, ~StartsWith(y, n.partial_key) PROVE Under(link, at, m, d, y) = None
  <2>1. ~Descends(n, y)
    BY <1>1, <1>3, SlotMet
  <2>2. Under(link, at, m, d, y) = ValueAt(n, y)
    BY <1>0, <2>1, UnderHere
  <2> QED BY <2>2 DEF ValueAt
<1> QED BY <1>2, <1>3 DEF Carries

\* A branch holds its value for nothing more of a key, and else what its child
\* for the next nibble does.
LEMMA UnderBranch ==
  ASSUME NEW at \in Path, NEW m, NEW d, NEW link,
         Resolves(link, at, m, d), NEW n, n = Resolve(link, at, m, d), IsNode(n), n.kind = "Branch"
  PROVE  /\ Under(link, at, m, d, <<>>) = n.value
         /\ \A i \in Nibble : \A z \in Path :
              Under(link, at, m, d, <<i>> \o z) = Under(n.children[i], at \o <<i>>, m, d, z)
<1>1. Under(link, at, m, d, <<>>) = n.value
  <2>1. ~Descends(n, <<>>)
    BY DEF Descends
  <2>2. Under(link, at, m, d, <<>>) = ValueAt(n, <<>>)
    BY <2>1, EmptyPath, UnderHere
  <2> QED BY <2>2 DEF ValueAt
<1>2. ASSUME NEW i \in Nibble, NEW z \in Path
      PROVE  Under(link, at, m, d, <<i>> \o z) = Under(n.children[i], at \o <<i>>, m, d, z)
  <2> DEFINE s == <<i>>
  <2>1. s \in Slots(n) /\ LinkAt(n, s) = n.children[i] /\ s \in Path
    BY BranchParts, OneNibble
  <2> HIDE DEF s
  <2>2. Under(link, at, m, d, s \o z) = Under(LinkAt(n, s), at \o s, m, d, z)
    BY <2>1, UnderSlot
  <2> QED BY <2>1, <2>2 DEF s
<1> QED BY <1>1, <1>2

\* A path is nothing, or a nibble and the rest.
LEMMA PathCases ==
  ASSUME NEW y \in Path
  PROVE  y = <<>> \/ \E i \in Nibble : \E z \in Path : y = <<i>> \o z
BY FirstNibble

-----------------------------------------------------------------------------
(* Stores that agree on the way of a key.                                  *)

\* A lookup takes the two nodes the same way, or gets the same answer.
Alike(n, r, y) ==
  /\ Descends(r, y) <=> Descends(n, y)
  /\ ~Descends(n, y) => ValueAt(r, y) = ValueAt(n, y)
  /\ Descends(n, y) => /\ NextSlot(r, y) = NextSlot(n, y)
                       /\ LinkAt(r, NextSlot(n, y)) = LinkAt(n, NextSlot(n, y))

\* The links a lookup may meet from `link' on.
LinksMet(link, m, d) ==
  {link} \cup (UNION {Links(m[p]) : p \in DOMAIN m}) \cup (UNION {Links(d[h]) : h \in DOMAIN d})

\* m and r agree for the key from `at' on.
SameOnTheWay(m, r, at, key) ==
  \A q \in Path : StartsWith(q, at) /\ StartsWith(key, q) =>
    /\ q \in DOMAIN m <=> q \in DOMAIN r
    /\ q \in DOMAIN m => Alike(m[q], r[q], Drop(key, Len(q)))

\* Then a link there holds the same for the key in both, also if a database
\* has nodes more that no link leads to.
LEMMA SameWay ==
  ASSUME NEW m, IsStore(m), NEW r, IsStore(r), NEW d, IsStore(d), NEW e, Extends(e, d),
         NEW at \in Path, NEW key \in Path, StartsWith(key, at), SameOnTheWay(m, r, at, key),
         NEW link,
         \A l \in LinksMet(link, m, d) : IsHash(l) /\ l.hash \in DOMAIN e => l.hash \in DOMAIN d
  PROVE  ContentsFrom(link, at, r, e, key) = ContentsFrom(link, at, m, d, key)
<1> DEFINE AllLinks == LinksMet(link, m, d)
           S == {t \in [at : Path, link : AllLinks] : StartsWith(key, t.at) /\ StartsWith(t.at, at)}
           Good == {t \in S : ContentsFrom(t.link, t.at, r, e, key) = ContentsFrom(t.link, t.at, m, d, key)}
<1>1. ASSUME NEW t \in S, t \notin Good
      PROVE  \E u \in S : Len(u.at) > Len(t.at) /\ (u \in Good => t \in Good)
  <2> DEFINE rest == Drop(key, Len(t.at))
             x == Resolve(t.link, t.at, m, d)
             y == Resolve(t.link, t.at, r, e)
             slot == NextSlot(x, rest)
             next == LinkAt(x, slot)
             u == [at |-> t.at \o slot, link |-> next]
  <2>1. t.at \in Path /\ StartsWith(key, t.at) /\ StartsWith(t.at, at) /\ rest \in Path
    BY PathParts
  <2>2. t.link \in LinksMet(link, m, d)
    OBVIOUS
  <2>3. /\ Resolves(t.link, t.at, m, d) <=> Resolves(t.link, t.at, r, e)
        /\ Resolves(t.link, t.at, m, d) => Alike(x, y, rest)
    <3>1. CASE t.link = Boxed
      <4>1. /\ t.at \in DOMAIN m <=> t.at \in DOMAIN r
            /\ t.at \in DOMAIN m => Alike(m[t.at], r[t.at], rest)
        BY <2>1 DEF SameOnTheWay
      <4> QED BY <3>1, <4>1, LinkTypes DEF Resolves, Resolve
    <3>2. CASE t.link # Boxed
      <4>1. IsHash(t.link) => (t.link.hash \in DOMAIN d <=> t.link.hash \in DOMAIN e)
        BY <2>2 DEF Extends
      <4>2. IsHash(t.link) /\ t.link.hash \in DOMAIN d => x = y
        BY <3>2 DEF Extends, Resolve
      <4>3. x = y => Alike(x, y, rest)
        BY DEF Alike
      <4> HIDE DEF x, y, rest
      <4> QED BY <3>2, <4>1, <4>2, <4>3 DEF Resolves
    <3> QED BY <3>1, <3>2
  <2>4. Resolves(t.link, t.at, m, d)
    <3> SUFFICES ASSUME ~Resolves(t.link, t.at, m, d) PROVE FALSE
      OBVIOUS
    <3>1. ContentsFrom(t.link, t.at, r, e, key) = ContentsFrom(t.link, t.at, m, d, key)
      BY <2>1, <2>3, ContentsRecursion
    <3> QED BY <1>1, <3>1
  <2>5. IsNode(x) /\ Links(x) \subseteq LinksMet(link, m, d)
    <3>1. CASE t.link = Boxed
      <4>1. t.at \in DOMAIN m /\ x = m[t.at]
        BY <2>4, <3>1, LinkTypes DEF Resolves, Resolve
      <4> HIDE DEF x
      <4> QED BY <4>1 DEF IsStore, LinksMet
    <3>2. CASE t.link # Boxed
      <4>1. t.link.hash \in DOMAIN d /\ x = d[t.link.hash]
        BY <2>4, <3>2 DEF Resolves, Resolve
      <4> HIDE DEF x
      <4> QED BY <4>1 DEF IsStore, LinksMet
    <3> QED BY <3>1, <3>2
  <2>6. IsNode(y)
    <3>1. CASE t.link = Boxed
      <4>1. t.at \in DOMAIN r /\ y = r[t.at]
        BY <2>3, <2>4, <3>1, LinkTypes DEF Resolves, Resolve
      <4> QED BY <4>1 DEF IsStore
    <3>2. CASE t.link # Boxed
      <4>1. t.link.hash \in DOMAIN d /\ y = d[t.link.hash]
        BY <2>4, <3>2 DEF Resolves, Resolve, Extends
      <4> QED BY <4>1 DEF IsStore
    <3> QED BY <3>1, <3>2
  <2>7. /\ Resolves(t.link, t.at, r, e)
        /\ x = Resolve(t.link, t.at, m, d) /\ y = Resolve(t.link, t.at, r, e)
        /\ Alike(x, y, rest) /\ rest = Drop(key, Len(t.at))
    BY <2>3, <2>4
  <2> HIDE DEF x, y, rest, AllLinks
  <2>8. Descends(x, rest)
    <3> SUFFICES ASSUME ~Descends(x, rest) PROVE FALSE
      OBVIOUS
    <3>1. ContentsFrom(t.link, t.at, m, d, key) = ValueAt(x, rest)
      BY <2>1, <2>4, <2>5, <2>7, ContentsRecursion
    <3>2. ~Descends(y, rest) /\ ValueAt(y, rest) = ValueAt(x, rest)
      BY <2>7 DEF Alike
    <3>3. ContentsFrom(t.link, t.at, r, e, key) = ValueAt(y, rest)
      BY <2>1, <2>6, <2>7, <3>2, ContentsRecursion
    <3> QED BY <1>1, <3>1, <3>2, <3>3
  <2>9. slot = NextSlot(x, rest) /\ next = LinkAt(x, slot)
    OBVIOUS
  <2>10. Descends(y, rest) /\ slot = NextSlot(y, rest) /\ LinkAt(y, slot) = next
    BY <2>7, <2>8 DEF Alike
  <2>11. u.at = t.at \o slot /\ u.link = next
    OBVIOUS
  <2> HIDE DEF slot, next, u
  <2>12. /\ slot \in Slots(x) /\ slot \in Path
         /\ t.at \o slot \in Path /\ StartsWith(key, t.at \o slot) /\ Len(t.at \o slot) > Len(t.at)
         /\ ContentsFrom(t.link, t.at, m, d, key) = ContentsFrom(next, t.at \o slot, m, d, key)
    BY <2>1, <2>4, <2>5, <2>7, <2>8, <2>9, FromSlot
  <2>13. ContentsFrom(t.link, t.at, r, e, key) = ContentsFrom(next, t.at \o slot, r, e, key)
    BY <2>1, <2>6, <2>7, <2>10, FromSlot
  <2>14. StartsWith(t.at \o slot, at)
    <3>1. StartsWith(t.at \o slot, t.at)
      BY <2>1, <2>12, ConcatPrefix
    <3> QED BY <2>1, <2>12, <3>1, PrefixTrans
  <2>15. next \in LinksMet(link, m, d)
    BY <2>5, <2>9, <2>12 DEF Links
  <2>16. u \in S
    BY <2>11, <2>12, <2>14, <2>15 DEF u, AllLinks
  <2>17. u \in Good => t \in Good
    BY <2>11, <2>12, <2>13
  <2> QED BY <2>11, <2>12, <2>16, <2>17
<1>2. S \subseteq Good
  <2>1. \A t \in S : t.at \in Path /\ StartsWith(key, t.at)
    OBVIOUS
  <2> HIDE DEF S, Good
  <2> QED BY <1>1, <2>1, Downwards
<1>3. [at |-> at, link |-> link] \in S
  BY PrefixRefl DEF LinksMet
<1>4. [at |-> at, link |-> link] \in Good
  BY <1>2, <1>3
<1> QED BY <1>4

\* m and r have the same node at q, or none.
SameAt(m, r, q) == /\ q \in DOMAIN m <=> q \in DOMAIN r
                   /\ q \in DOMAIN m => r[q] = m[q]

\* What lies at and below `at' decides what a link there holds.
LEMMA SameUnder ==
  ASSUME NEW m, IsStore(m), NEW r, IsStore(r), NEW d, IsStore(d), NEW at \in Path,
         \A q \in Path : StartsWith(q, at) => SameAt(m, r, q),
         NEW link, NEW y \in Path
  PROVE  Under(link, at, r, d, y) = Under(link, at, m, d, y)
<1>1. PICK key \in Path : key = at \o y /\ StartsWith(key, at)
  BY ConcatPath, ConcatPrefix
<1>2. SameOnTheWay(m, r, at, key)
  BY DEF SameOnTheWay, SameAt, Alike
<1>3. Extends(d, d)
  BY DEF Extends
<1>4. ContentsFrom(link, at, r, d, key) = ContentsFrom(link, at, m, d, key)
  BY <1>1, <1>2, <1>3, SameWay
<1> QED BY <1>1, <1>4 DEF Under

-----------------------------------------------------------------------------
(* From the root to a place.                                               *)

\* What a node holds for a key that goes through a slot of it.
LEMMA ThroughSlot ==
  ASSUME NEW at \in Path, NEW m, NEW d, NEW link,
         Resolves(link, at, m, d), NEW n, n = Resolve(link, at, m, d), IsNode(n),
         NEW slot \in Slots(n), NEW key \in Path, StartsWith(key, at \o slot)
  PROVE  ContentsFrom(link, at, m, d, key) = ContentsFrom(LinkAt(n, slot), at \o slot, m, d, key)
<1>1. slot \in Path /\ at \o slot \in Path
  BY NodeSlots, ConcatPath
<1>2. PICK z \in Path : key = (at \o slot) \o z
  BY <1>1, PrefixDrop
<1>3. key = at \o (slot \o z)
  BY <1>1, <1>2, ConcatAssoc, SMTT(30)
<1>4. Under(link, at, m, d, slot \o z) = Under(LinkAt(n, slot), at \o slot, m, d, z)
  BY UnderSlot
<1> QED BY <1>2, <1>3, <1>4 DEF Under

\* A key through a boxed node finds from the root what it finds from there.
LEMMA ReachesNode ==
  ASSUME NEW m, NEW D, Owned(m, D), <<>> \in DOMAIN m, NEW p \in DOMAIN m,
         NEW key \in Path, StartsWith(key, p), NEW d
  PROVE  ContentsFrom(Boxed, <<>>, m, d, key) = ContentsFrom(Boxed, p, m, d, key)
<1> DEFINE From(q) == ContentsFrom(Boxed, q, m, d, key)
           S == {t \in [at : DOMAIN m] : StartsWith(p, t.at)}
           Good == {t \in S : From(t.at) = From(p)}
<1>1. IsStore(m) /\ DOMAIN m \subseteq Path /\ Tree(m) /\ p \in Path
  BY DEF Owned
<1>2. ASSUME NEW t \in S, t \notin Good
      PROVE  \E u \in S : Len(u.at) > Len(t.at) /\ (u \in Good => t \in Good)
  <2>1. PICK q \in DOMAIN m : q = t.at /\ StartsWith(p, q) /\ q # p /\ q \in Path
    BY <1>1, <1>2
  <2>2. PICK s \in Slots(m[q]) : LinkAt(m[q], s) = Boxed /\ StartsWith(p, q \o s)
    BY <1>1, <2>1 DEF Tree
  <2>3. /\ q \o s \in DOMAIN m /\ s \in Path /\ Len(s) > 0 /\ IsNode(m[q])
        /\ Len(q \o s) = Len(q) + Len(s) /\ Len(q) \in Nat /\ Len(s) \in Nat
    BY <1>1, <2>1, <2>2, NodeSlots, ConcatPath, PathLen DEF Tree, IsStore
  <2>4. Len(q \o s) > Len(q)
    <3>1. PICK a \in Nat, b \in Nat : a = Len(q) /\ b = Len(s)
      BY <2>3
    <3> QED BY <2>3, <3>1
  <2>5. StartsWith(key, q \o s)
    BY <1>1, <2>2, <2>3, PrefixTrans
  <2>6. Resolves(Boxed, q, m, d) /\ m[q] = Resolve(Boxed, q, m, d)
    BY DEF Resolves, Resolve
  <2>7. From(q) = From(q \o s)
    BY <2>1, <2>2, <2>3, <2>5, <2>6, ThroughSlot
  <2> DEFINE u == [at |-> q \o s]
  <2>8. u \in S /\ u.at = q \o s
    BY <2>2, <2>3
  <2> HIDE DEF u, From
  <2>9. u \in Good => t \in Good
    BY <1>2, <2>1, <2>7, <2>8
  <2> QED BY <2>1, <2>4, <2>8, <2>9
<1>3. S \subseteq Good
  <2>1. \A t \in S : t.at \in Path /\ StartsWith(p, t.at)
    BY <1>1
  <2> HIDE DEF S, Good
  <2> QED BY <1>1, <1>2, <2>1, Downwards
<1>4. [at |-> <<>>] \in S
  BY <1>1, PrefixRefl
<1>5. [at |-> <<>>] \in Good
  BY <1>3, <1>4
<1> QED BY <1>5

\* The same for a link of the tree.
LEMMA ReachesLink ==
  ASSUME NEW m, NEW D, Owned(m, D),
         NEW top, top = Boxed => <<>> \in DOMAIN m, top # Boxed => DOMAIN m = {},
         NEW at \in Path, NEW link, LinkOf(m, top, at, link),
         NEW key \in Path, StartsWith(key, at), NEW d
  PROVE  ContentsFrom(top, <<>>, m, d, key) = ContentsFrom(link, at, m, d, key)
<1>1. CASE at = <<>> /\ link = top
  BY <1>1
<1>2. ASSUME NEW p \in DOMAIN m, NEW slot \in Slots(m[p]), at = p \o slot, link = LinkAt(m[p], slot)
      PROVE  ContentsFrom(top, <<>>, m, d, key) = ContentsFrom(link, at, m, d, key)
  <2>1. p \in Path /\ IsNode(m[p]) /\ slot \in Path
    BY NodeSlots DEF Owned, IsStore
  <2>2. StartsWith(key, p)
    BY <1>2, <2>1, ConcatPrefix, PrefixTrans
  <2>3. top = Boxed /\ <<>> \in DOMAIN m
    OBVIOUS
  <2>4. ContentsFrom(Boxed, <<>>, m, d, key) = ContentsFrom(Boxed, p, m, d, key)
    BY <2>2, <2>3, ReachesNode
  <2>5. Resolves(Boxed, p, m, d) /\ m[p] = Resolve(Boxed, p, m, d)
    BY DEF Resolves, Resolve
  <2>6. StartsWith(key, p \o slot)
    BY <1>2
  <2>7. ContentsFrom(Boxed, p, m, d, key) = ContentsFrom(LinkAt(m[p], slot), p \o slot, m, d, key)
    BY <2>1, <2>5, <2>6, ThroughSlot
  <2> QED BY <1>2, <2>3, <2>4, <2>7
<1> QED BY <1>1, <1>2 DEF LinkOf

-----------------------------------------------------------------------------
(* Loads and writes of collapse.                                           *)

\* The recursion of Contents at a node.
LEMMA NodeHolds ==
  ASSUME NEW key \in Path, NEW at \in Path, StartsWith(key, at), NEW m, NEW d,
         NEW n, IsNode(n), NEW link, LeadsTo(link, at, m, d, n),
         NEW rest, rest = Drop(key, Len(at)), NEW slot, slot = NextSlot(n, rest)
  PROVE  /\ ~Descends(n, rest) => ContentsFrom(link, at, m, d, key) = ValueAt(n, rest)
         /\ Descends(n, rest) =>
              /\ slot \in Slots(n) /\ at \o slot \in Path /\ StartsWith(key, at \o slot)
              /\ ContentsFrom(link, at, m, d, key) = ContentsFrom(LinkAt(n, slot), at \o slot, m, d, key)
<1>1. ~Descends(n, rest) => ContentsFrom(link, at, m, d, key) = ValueAt(n, rest)
  BY ContentsRecursion DEF LeadsTo
<1>2. Descends(n, rest) =>
        /\ slot \in Slots(n) /\ at \o slot \in Path /\ StartsWith(key, at \o slot)
        /\ ContentsFrom(link, at, m, d, key) = ContentsFrom(LinkAt(n, slot), at \o slot, m, d, key)
  BY FromSlot DEF LeadsTo
<1> QED BY <1>1, <1>2

\* One node holds the same whether it is boxed or stored, when its links lead
\* to what is stored.
LEMMA SameThere ==
  ASSUME NEW key \in Path, NEW at \in Path, StartsWith(key, at),
         NEW d, Closed(d), NEW e, Extends(e, d), NEW m, NEW r,
         NEW n, IsNode(n), \A l \in Links(n) : Leads(l, d),
         NEW f, LeadsTo(f, at, m, d, n), NEW g, LeadsTo(g, at, r, e, n)
  PROVE  ContentsFrom(g, at, r, e, key) = ContentsFrom(f, at, m, d, key)
<1>1. PICK rest, slot : rest = Drop(key, Len(at)) /\ slot = NextSlot(n, rest)
  OBVIOUS
<1>2. /\ ~Descends(n, rest) => ContentsFrom(f, at, m, d, key) = ValueAt(n, rest)
      /\ Descends(n, rest) =>
           ContentsFrom(f, at, m, d, key) = ContentsFrom(LinkAt(n, slot), at \o slot, m, d, key)
  BY <1>1, NodeHolds
<1>5. Descends(n, rest) => slot \in Slots(n) /\ at \o slot \in Path /\ StartsWith(key, at \o slot)
  BY <1>1, FromSlot DEF LeadsTo
<1>3. /\ ~Descends(n, rest) => ContentsFrom(g, at, r, e, key) = ValueAt(n, rest)
      /\ Descends(n, rest) =>
           ContentsFrom(g, at, r, e, key) = ContentsFrom(LinkAt(n, slot), at \o slot, r, e, key)
  BY <1>1, NodeHolds
<1>4. CASE Descends(n, rest)
  <2>1. Leads(LinkAt(n, slot), d)
    BY <1>4, <1>5 DEF Links
  <2>2. ContentsFrom(LinkAt(n, slot), at \o slot, r, e, key) = ContentsFrom(LinkAt(n, slot), at \o slot, m, d, key)
    BY <1>4, <1>5, <2>1, StoredContents
  <2> QED BY <1>2, <1>3, <1>4, <2>2
<1> QED BY <1>2, <1>3, <1>4

\* A link of a node matters to the keys through it only.
LEMMA SetLinkAlike ==
  ASSUME NEW n, IsNode(n), NEW slot \in Path, NEW link, IsLink(link),
         NEW y \in Path, ~StartsWith(y, slot)
  PROVE  Alike(n, SetLink(n, slot, link), y)
<1> DEFINE r == SetLink(n, slot, link)
<1>1. /\ IsNode(r) /\ r.kind = n.kind /\ Slots(r) = Slots(n)
      /\ \A s \in Slots(n) : LinkAt(r, s) = IF s = slot THEN link ELSE LinkAt(n, s)
  BY SetLinkProperties
<1>2. ValueAt(r, y) = ValueAt(n, y)
  <2>1. CASE n.kind = "Node"
    BY <2>1 DEF SetLink
  <2>2. CASE n.kind = "Extension"
    BY <1>1, <2>2 DEF ValueAt
  <2>3. CASE n.kind = "Branch"
    <3>1. r.value = n.value
      BY <2>3 DEF SetLink, Branch, IsNode
    <3> QED BY <1>1, <2>3, <3>1 DEF ValueAt
  <2> QED BY <2>1, <2>2, <2>3, NodeKinds
<1> HIDE DEF r
<1>3. Descends(r, y) <=> Descends(n, y)
  BY <1>1, SlotMet
<1>4. ASSUME Descends(n, y)
      PROVE  NextSlot(r, y) = NextSlot(n, y) /\ LinkAt(r, NextSlot(n, y)) = LinkAt(n, NextSlot(n, y))
  <2>1. NextSlot(n, y) \in Slots(n) /\ StartsWith(y, NextSlot(n, y))
    BY <1>4, SlotMet
  <2>2. NextSlot(r, y) = NextSlot(n, y)
    BY <1>1, <2>1, SlotMet
  <2> QED BY <1>1, <2>1, <2>2
<1> QED BY <1>2, <1>3, <1>4 DEF Alike, r

\* A lookup that does not go through the link that changes meets no difference.
LEMMA RelinkAlike ==
  ASSUME NEW m, IsStore(m), NEW q \in DOMAIN m, q \in Path, NEW at \in Path, NEW link, IsLink(link),
         NEW key \in Path, StartsWith(key, q), ~StartsWith(key, at)
  PROVE  Alike(m[q], Relink(m, at, link)[q], Drop(key, Len(q)))
<1>1. PICK y \in Path : y = Drop(key, Len(q)) /\ key = q \o y
  BY PrefixDrop
<1>2. CASE StartsWith(at, q)
  <2>1. PICK slot \in Path : slot = Drop(at, Len(q)) /\ at = q \o slot
    BY <1>2, PrefixDrop
  <2>2. ~StartsWith(y, slot)
    <3>1. StartsWith(q \o y, q \o slot) <=> StartsWith(y, slot)
      BY PrefixConcat
    <3> QED BY <1>1, <2>1, <3>1
  <2>3. IsNode(m[q]) /\ Relink(m, at, link)[q] = SetLink(m[q], slot, link)
    BY <1>2, <2>1 DEF Relink, IsStore
  <2> QED BY <1>1, <2>2, <2>3, SetLinkAlike
<1>3. CASE ~StartsWith(at, q)
  <2>1. Relink(m, at, link)[q] = m[q]
    BY <1>3 DEF Relink
  <2> QED BY <2>1 DEF Alike
<1> QED BY <1>2, <1>3
=============================================================================
