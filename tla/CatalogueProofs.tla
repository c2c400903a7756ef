-------------------------- MODULE CatalogueProofs ---------------------------
(***************************************************************************)
(* The invariants of the catalogue's cache, for any catalogue, page size,  *)
(* bounds of the cache and number of loads: a till whose load passed the   *)
(* service worker has pages that lead to the end of the catalogue.         *)
(***************************************************************************)
EXTENDS Catalogue, FiniteSetTheorems, FunctionTheorems, TLAPS

\* The server keeps one record per product.
ServerOK ==
    /\ edits \in Nat
    /\ server \subseteq Products \X (0 .. edits) /\ IsFiniteSet(server)
    /\ \A x, y \in server : x[1] = y[1] => x = y

\* Every page, kept or on its way, fits the page size.
CacheOK ==
    /\ DOMAIN cache \subseteq Pages /\ Cardinality(DOMAIN cache) <= MaxEntries
    /\ \A k \in DOMAIN cache : Cardinality(cache[k]) <= PageSize

FlightsOK == \A f \in flights : f.page \in Pages /\ Cardinality(f.items) <= PageSize

LoadsOK ==
    /\ \A l \in loads : l \in [page : Pages, got : {l.got}, whole : {l.whole}, mine : {l.mine}]
    /\ status \in {"loading", "ready", "error"}

PromptOK == prompt \in {"idle", "offline-ready", "update-available", "reloading"}

TypeInv == ServerOK /\ CacheOK /\ FlightsOK /\ LoadsOK /\ PromptOK

\* Page k of a set of names.
Rank(S, p) == Cardinality({q \in S : q <= p})
Cut(S, k) == {p \in S : k * PageSize < Rank(S, p) /\ Rank(S, p) <= (k + 1) * PageSize}

Names == {x[1] : x \in server}

\* What page k had at first.
Slice(k) == Cut(Start, k)

Full(k) == Cardinality(Slice(k)) = PageSize

\* While products are only updated, renamed ones included, every copy of a page
\* has as many products as the page had at first.
SizeInv ==
    ~resized =>
        /\ Cardinality(server) = Cardinality(Start)
        /\ \A k \in DOMAIN cache : Cardinality(cache[k]) = Cardinality(Slice(k))
        /\ \A f \in flights : Cardinality(f.items) = Cardinality(Slice(f.page))

\* A load that passes the worker leaves full pages behind it in the cache, and
\* one that has ended left the way to the last page.
WayKept ==
    \E n \in Pages :
        /\ 0 .. n \subseteq DOMAIN cache
        /\ \A k \in 0 .. n - 1 : Full(k)
        /\ n + 1 = MaxPages \/ Cardinality(Slice(n)) < PageSize

WalkInv ==
    /\ \A l \in loads : l.whole => controlled
    /\ ~lost /\ ~resized =>
        /\ \A l \in loads : l.whole => \A k \in 0 .. l.page - 1 : k \in DOMAIN cache /\ Full(k)
        /\ kept => WayKept

----------------------------------------------------------------------------
(* Lemmas about the size of a page. *)

LEMMA Sizes ==
  /\ PageSize \in Nat \ {0} /\ MaxPages \in Nat \ {0} /\ MaxEntries \in Nat \ {0}
  /\ Products \subseteq Nat /\ IsFiniteSet(Products) /\ Start \subseteq Products
  /\ Pages \subseteq Nat /\ IsFiniteSet(Pages) /\ 0 \in Pages
  <1>1. /\ PageSize \in Nat \ {0} /\ MaxPages \in Nat \ {0} /\ MaxEntries \in Nat \ {0}
        /\ Products \subseteq Nat /\ IsFiniteSet(Products) /\ Start \subseteq Products
    BY CatalogueAssumption
  <1>2. MaxPages - 1 \in Int
    BY <1>1
  <1>3. IsFiniteSet(Pages)
    BY <1>2, FS_Interval DEF Pages
  <1>4. Pages \subseteq Nat /\ 0 \in Pages
    BY <1>1 DEF Pages
  <1>. QED BY <1>1, <1>3, <1>4

\* A product that comes later has a higher rank.
LEMMA RankGrows ==
  ASSUME NEW S, S \subseteq Nat, IsFiniteSet(S), NEW p \in S, NEW r \in S, p < r
  PROVE  Rank(S, p) \in Nat /\ Rank(S, r) \in Nat /\ Rank(S, p) < Rank(S, r)
  <1>. DEFINE P == {q \in S : q <= p}
              R == {q \in S : q <= r}
  <1>1. P \subseteq R /\ r \in R /\ r \notin P
    <2>1. p \in Nat /\ r \in Nat /\ \A q \in S : q \in Nat
      OBVIOUS
    <2>2. \A q \in S : q <= p => q <= r
      BY <2>1
    <2>3. r <= r /\ ~ (r <= p)
      BY <2>1
    <2>. QED BY <2>2, <2>3
  <1>2. IsFiniteSet(P) /\ IsFiniteSet(R)
    BY FS_Subset
  <1>3. Rank(S, p) = Cardinality(P) /\ Rank(S, r) = Cardinality(R)
    BY DEF Rank
  <1>. HIDE DEF P, R
  <1>4. Cardinality(P) \in Nat /\ Cardinality(R) \in Nat
    BY <1>2, FS_CardinalityType
  <1>5. Cardinality(P) <= Cardinality(R) /\ Cardinality(P) # Cardinality(R)
    BY <1>1, <1>2, FS_Subset
  <1>. QED BY <1>3, <1>4, <1>5

\* The ranks of n names are 1 .. n.
LEMMA RankCounts ==
  ASSUME NEW S, S \subseteq Nat, IsFiniteSet(S)
  PROVE  /\ \A p \in S : Rank(S, p) \in 1 .. Cardinality(S)
         /\ \A p, r \in S : Rank(S, p) = Rank(S, r) => p = r
         /\ \A i \in 1 .. Cardinality(S) : \E p \in S : Rank(S, p) = i
  <1>. DEFINE f == [p \in S |-> Rank(S, p)]
              T == 1 .. Cardinality(S)
  <1>1. Cardinality(S) \in Nat
    BY FS_CardinalityType
  <1>2. ASSUME NEW p \in S
        PROVE  Rank(S, p) \in T
    <2>. DEFINE U == {q \in S : q <= p}
    <2>1. U \subseteq S /\ p \in U
      OBVIOUS
    <2>2. Rank(S, p) = Cardinality(U)
      BY DEF Rank
    <2>. HIDE DEF U
    <2>3. IsFiniteSet(U) /\ Cardinality(U) \in Nat /\ Cardinality(U) <= Cardinality(S)
      BY <2>1, FS_Subset, FS_CardinalityType
    <2>4. Cardinality(U) # 0
      BY <2>1, <2>3, FS_EmptySet
    <2>. QED BY <1>1, <2>2, <2>3, <2>4
  <1>3. ASSUME NEW p \in S, NEW r \in S, Rank(S, p) = Rank(S, r)
        PROVE  p = r
    <2>1. p \in Nat /\ r \in Nat
      OBVIOUS
    <2>2. CASE p < r
      <3>1. Rank(S, p) < Rank(S, r) /\ Rank(S, p) \in Nat
        BY <2>2, RankGrows
      <3>. QED BY <1>3, <3>1
    <2>3. CASE r < p
      <3>1. Rank(S, r) < Rank(S, p) /\ Rank(S, p) \in Nat
        BY <2>3, RankGrows
      <3>. QED BY <1>3, <3>1
    <2>. QED BY <2>1, <2>2, <2>3
  <1>4. f \in Injection(S, T)
    <2>1. f \in [S -> T] /\ \A p, r \in S : f[p] = f[r] => p = r
      BY <1>2, <1>3
    <2>. HIDE DEF f, T
    <2>. QED BY <2>1, Fun_IsInj
  <1>5. IsFiniteSet(T) /\ Cardinality(T) = Cardinality(S)
    BY <1>1, FS_Interval
  <1>6. \A i \in T : \E p \in S : f[p] = i
    <2>. HIDE DEF f, T
    <2>1. f \in Surjection(S, T)
      BY <1>4, <1>5, FS_Injection
    <2>. QED BY <2>1, Fun_IsSurj DEF Surjection
  <1>. QED BY <1>2, <1>3, <1>6

\* The ranks on page k when there are n products.
Places(n, k) == {i \in 1 .. n : k * PageSize < i /\ i <= (k + 1) * PageSize}

\* The size of a page depends on how many names there are, and not on which.
LEMMA CutSize ==
  ASSUME NEW S, S \subseteq Nat, IsFiniteSet(S), NEW k
  PROVE  Cardinality(Cut(S, k)) = Cardinality(Places(Cardinality(S), k))
  <1>. DEFINE C == Cut(S, k)
              T == Places(Cardinality(S), k)
              f == [p \in C |-> Rank(S, p)]
  <1>1. \A p \in C : p \in S /\ Rank(S, p) \in T
    BY RankCounts DEF Cut, Places
  <1>2. ASSUME NEW i \in T
        PROVE  \E p \in C : Rank(S, p) = i
    <2>1. i \in 1 .. Cardinality(S) /\ k * PageSize < i /\ i <= (k + 1) * PageSize
      BY DEF Places
    <2>2. PICK p \in S : Rank(S, p) = i
      BY <2>1, RankCounts
    <2>. QED BY <2>1, <2>2 DEF Cut
  <1>3. \A p, r \in C : f[p] = f[r] => p = r
    BY <1>1, RankCounts
  <1>4. f \in [C -> T] /\ \A i \in T : \E p \in C : f[p] = i
    BY <1>1, <1>2
  <1>5. IsFiniteSet(C)
    BY FS_Subset DEF Cut
  <1>. HIDE DEF f, C, T
  <1>6. f \in Injection(C, T) /\ f \in Surjection(C, T)
    BY <1>3, <1>4, Fun_IsInj, Fun_IsSurj
  <1>7. Cardinality(C) = Cardinality(T)
    BY <1>5, <1>6, FS_Surjection
  <1>. QED BY <1>7 DEF C, T

LEMMA CutFits ==
  ASSUME NEW S, S \subseteq Nat, IsFiniteSet(S), NEW k \in Nat
  PROVE  IsFiniteSet(Cut(S, k)) /\ Cardinality(Cut(S, k)) <= PageSize
  <1>. DEFINE a == k * PageSize
              T == a + 1 .. a + PageSize
  <1>1. PageSize \in Nat
    BY Sizes
  <1>2. a \in Nat /\ (k + 1) * PageSize = a + PageSize
    BY <1>1
  <1>3. Places(Cardinality(S), k) \subseteq T
    BY <1>2 DEF Places
  <1>. HIDE DEF a
  <1>4. IsFiniteSet(T) /\ Cardinality(T) = PageSize
    BY <1>1, <1>2, FS_Interval
  <1>5. Cardinality(Places(Cardinality(S), k)) <= PageSize
    BY <1>3, <1>4, FS_Subset
  <1>6. IsFiniteSet(Cut(S, k))
    BY FS_Subset DEF Cut
  <1>. QED BY <1>5, <1>6, CutSize

\* As many products as names.
LEMMA NamesCount ==
  ASSUME TypeInv, NEW U, U \subseteq server
  PROVE  /\ IsFiniteSet(U) /\ IsFiniteSet({x[1] : x \in U})
         /\ Cardinality({x[1] : x \in U}) = Cardinality(U)
  <1>. DEFINE T == {x[1] : x \in U}
              f == [x \in U |-> x[1]]
  <1>1. IsFiniteSet(U)
    BY FS_Subset DEF TypeInv, ServerOK
  <1>2. f \in [U -> T] /\ \A t \in T : \E x \in U : f[x] = t
    OBVIOUS
  <1>3. \A x, y \in U : f[x] = f[y] => x = y
    BY DEF TypeInv, ServerOK
  <1>. HIDE DEF f, T
  <1>4. f \in Surjection(U, T) /\ f \in Injection(U, T)
    BY <1>2, <1>3, Fun_IsSurj, Fun_IsInj
  <1>5. IsFiniteSet(T) /\ Cardinality(T) = Cardinality(U)
    BY <1>1, <1>4, FS_Surjection
  <1>. QED BY <1>1, <1>5 DEF T

LEMMA PageIsCut ==
  ASSUME TypeInv, NEW k \in Pages
  PROVE  /\ Names \subseteq Nat /\ IsFiniteSet(Names)
         /\ Cardinality(Page(k)) = Cardinality(Cut(Names, k))
         /\ Cardinality(Page(k)) <= PageSize
  <1>1. Names \subseteq Nat /\ IsFiniteSet(Names)
    BY NamesCount, Sizes DEF Names, TypeInv, ServerOK
  <1>2. ASSUME NEW x \in server
        PROVE  Cardinality({y \in server : y[1] <= x[1]}) = Rank(Names, x[1])
    <2>. DEFINE U == {y \in server : y[1] <= x[1]}
    <2>1. {q \in Names : q <= x[1]} = {y[1] : y \in U}
      BY DEF Names
    <2>2. U \subseteq server
      OBVIOUS
    <2>. HIDE DEF U
    <2>3. Cardinality({y[1] : y \in U}) = Cardinality(U)
      BY <2>2, NamesCount
    <2>. QED BY <2>1, <2>3 DEF Rank, U
  <1>3. Page(k) = {x \in server : k * PageSize < Rank(Names, x[1])
                                  /\ Rank(Names, x[1]) <= (k + 1) * PageSize}
    BY <1>2 DEF Page
  <1>4. Page(k) \subseteq server
    BY DEF Page
  <1>5. Cut(Names, k) = {x[1] : x \in Page(k)}
    BY <1>3 DEF Cut, Names
  <1>6. Cardinality(Page(k)) = Cardinality(Cut(Names, k))
    BY <1>4, <1>5, NamesCount
  <1>. QED BY <1>1, <1>6, CutFits, Sizes

----------------------------------------------------------------------------
(* Types. *)

LEMMA TypeInit == Init => TypeInv
  <1>. SUFFICES ASSUME Init
                PROVE  TypeInv
    OBVIOUS
  <1>1. ServerOK
    <2>. DEFINE f == [p \in Start |-> <<p, 0>>]
    <2>1. IsFiniteSet(Start)
      BY Sizes, FS_Subset
    <2>2. server = {<<p, 0>> : p \in Start} /\ edits = 0
      BY DEF Init
    <2>3. f \in [Start -> server] /\ \A x \in server : \E p \in Start : f[p] = x
      BY <2>2
    <2>4. IsFiniteSet(server)
      <3>. HIDE DEF f
      <3>. QED BY <2>1, <2>3, Fun_IsSurj, FS_Surjection
    <2>5. server \subseteq Products \X (0 .. edits)
      BY <2>2, Sizes
    <2>. QED BY <2>2, <2>4, <2>5 DEF ServerOK
  <1>2. CacheOK /\ FlightsOK
    <2>1. DOMAIN cache = {} /\ flights = {}
      BY DEF Init
    <2>2. Cardinality(DOMAIN cache) = 0
      BY <2>1, FS_EmptySet
    <2>. QED BY <2>1, <2>2, Sizes DEF CacheOK, FlightsOK
  <1>3. LoadsOK /\ PromptOK
    BY Sizes DEF Init, LoadsOK, PromptOK, NewLoad
  <1>. QED BY <1>1, <1>2, <1>3 DEF TypeInv

\* What the cache has after an answer was put there.
LEMMA PutTyped ==
  ASSUME TypeInv, NEW k \in Pages, NEW items, Cardinality(items) <= PageSize, Put(k, items)
  PROVE  /\ CacheOK'
         /\ k \in DOMAIN cache' /\ DOMAIN cache' \subseteq DOMAIN cache \cup {k}
         /\ \A j \in DOMAIN cache' : cache'[j] = IF j = k THEN items ELSE cache[j]
         /\ ~lost' => ~lost /\ DOMAIN cache \subseteq DOMAIN cache'
  <1>1. PICK pages \in Room(k) :
          /\ cache' = [j \in pages |-> IF j = k THEN items ELSE cache[j]]
          /\ lost' = (lost \/ ~(DOMAIN cache \subseteq pages))
    BY DEF Put
  <1>2. ~lost' => ~lost /\ DOMAIN cache \subseteq pages
    BY <1>1
  <1>3. IsFiniteSet(DOMAIN cache) /\ DOMAIN cache \subseteq Pages /\ Cardinality(DOMAIN cache) <= MaxEntries
    BY Sizes, FS_Subset DEF TypeInv, CacheOK
  <1>. DEFINE all == DOMAIN cache \cup {k}
  <1>4. IsFiniteSet(all) /\ Cardinality(all) \in Nat /\ Cardinality(all) <= MaxEntries + 1
    <2>1. Cardinality(DOMAIN cache) \in Nat
      BY <1>3, FS_CardinalityType
    <2>2. /\ IsFiniteSet(all)
          /\ Cardinality(all) = IF k \in DOMAIN cache THEN Cardinality(DOMAIN cache)
                                ELSE Cardinality(DOMAIN cache) + 1
      BY <1>3, FS_AddElement
    <2>. HIDE DEF all
    <2>. QED BY <1>3, <2>1, <2>2, Sizes
  <1>5. k \in pages /\ pages \subseteq all /\ Cardinality(pages) <= MaxEntries
    <2>1. pages \in IF Cardinality(all) <= MaxEntries THEN {all} ELSE {all \ {j} : j \in all \ {k}}
      BY DEF Room
    <2>2. CASE Cardinality(all) <= MaxEntries
      BY <2>1, <2>2
    <2>3. CASE ~ (Cardinality(all) <= MaxEntries)
      <3>1. PICK j \in all \ {k} : pages = all \ {j}
        BY <2>1, <2>3
      <3>2. k \in pages /\ pages \subseteq all
        BY <3>1
      <3>. HIDE DEF all
      <3>3. Cardinality(pages) = Cardinality(all) - 1
        BY <1>4, <3>1, FS_RemoveElement
      <3>. QED BY <1>4, <3>2, <3>3, Sizes
    <2>. QED BY <2>2, <2>3
  <1>6. DOMAIN cache' = pages
    BY <1>1
  <1>7. \A j \in pages : cache'[j] = IF j = k THEN items ELSE cache[j]
    BY <1>1
  <1>8. \A j \in pages : Cardinality(cache'[j]) <= PageSize
    BY <1>5, <1>7 DEF TypeInv, CacheOK
  <1>9. CacheOK'
    BY <1>3, <1>5, <1>6, <1>8 DEF CacheOK
  <1>. QED BY <1>2, <1>5, <1>6, <1>7, <1>9

\* A load that got a page ends or goes on to the next one.
LEMMA GetsTyped ==
  ASSUME TypeInv, NEW l \in loads, NEW items, Gets(l, items)
  PROVE  /\ LoadsOK'
         /\ \/ /\ Cardinality(items) < PageSize \/ l.page + 1 = MaxPages
               /\ loads' = loads \ {l} /\ kept' = (kept \/ l.whole)
            \/ /\ ~ (Cardinality(items) < PageSize)
               /\ kept' = kept
               /\ \E m : /\ loads' = (loads \ {l}) \cup {m}
                         /\ m.page = l.page + 1 /\ m.whole = l.whole
  <1>1. l \in [page : Pages, got : {l.got}, whole : {l.whole}, mine : {l.mine}]
    BY DEF TypeInv, LoadsOK
  <1>2. CASE Cardinality(items) < PageSize \/ l.page + 1 = MaxPages
    <2>1. /\ loads' = loads \ {l} /\ kept' = (kept \/ l.whole)
          /\ status' \in {status, "ready"}
      BY <1>2 DEF Gets
    <2>. QED BY <1>2, <2>1 DEF TypeInv, LoadsOK
  <1>3. CASE ~ (Cardinality(items) < PageSize \/ l.page + 1 = MaxPages)
    <2>. DEFINE got == IF l.mine THEN l.got \cup items ELSE {}
                m == [l EXCEPT !.page = @ + 1, !.got = got]
    <2>1. loads' = (loads \ {l}) \cup {m} /\ UNCHANGED <<kept, status>>
      BY <1>3 DEF Gets
    <2>2. l.page + 1 \in Pages
      BY <1>1, <1>3, Sizes DEF Pages
    <2>3. m \in [page : Pages, got : {got}, whole : {l.whole}, mine : {l.mine}]
      BY <1>1, <2>2
    <2>4. /\ m \in [page : Pages, got : {m.got}, whole : {m.whole}, mine : {m.mine}]
          /\ m.page = l.page + 1 /\ m.whole = l.whole
      BY <1>1, <2>3
    <2>. HIDE DEF m
    <2>5. LoadsOK'
      BY <2>1, <2>4 DEF TypeInv, LoadsOK
    <2>. QED BY <1>3, <2>1, <2>4, <2>5
  <1>. QED BY <1>2, <1>3

\* A product is new, or updated under a free name.
LEMMA EditTyped ==
  ASSUME TypeInv
  PROVE  \A p \in Products : /\ create_product(p) => ServerOK'
                             /\ \A x \in server : update_product(x, p) => ServerOK'
  <1>1. ServerOK
    BY DEF TypeInv
  <1>2. server \subseteq Products \X (0 .. edits + 1) /\ edits + 1 \in Nat
    <2>1. edits \in Nat
      BY <1>1 DEF ServerOK
    <2>2. 0 .. edits \subseteq 0 .. edits + 1
      BY <2>1
    <2>. QED BY <1>1, <2>1, <2>2 DEF ServerOK
  <1>3. ASSUME NEW U, U \subseteq server, NEW z \in Products \X (0 .. edits + 1),
               \A y \in U : y[1] # z[1], Edit(U \cup {z})
        PROVE  ServerOK'
    <2>1. server' = U \cup {z} /\ edits' = edits + 1
      BY <1>3 DEF Edit
    <2>2. IsFiniteSet(U \cup {z})
      BY <1>1, <1>3, FS_Subset, FS_AddElement DEF ServerOK
    <2>3. \A x, y \in U \cup {z} : x[1] = y[1] => x = y
      BY <1>1, <1>3 DEF ServerOK
    <2>4. U \cup {z} \subseteq Products \X (0 .. edits + 1)
      BY <1>2, <1>3
    <2>. QED BY <1>2, <2>1, <2>2, <2>3, <2>4 DEF ServerOK
  <1>4. ASSUME NEW p \in Products, NEW x \in server, update_product(x, p)
        PROVE  ServerOK'
    <2>. DEFINE z == <<p, x[2] + 1>>
    <2>1. x[2] \in 0 .. edits /\ edits \in Nat
      BY <1>1 DEF ServerOK
    <2>2. z \in Products \X (0 .. edits + 1) /\ z[1] = p
      BY <2>1
    <2>3. Edit((server \ {x}) \cup {z}) /\ \A y \in server \ {x} : y[1] # p
      BY <1>4 DEF update_product, Free
    <2>. HIDE DEF z
    <2>. QED BY <1>3, <2>2, <2>3
  <1>5. ASSUME NEW p \in Products, create_product(p)
        PROVE  ServerOK'
    <2>1. <<p, 0>> \in Products \X (0 .. edits + 1) /\ <<p, 0>>[1] = p
      BY <1>2
    <2>2. Edit(server \cup {<<p, 0>>}) /\ \A y \in server : y[1] # <<p, 0>>[1]
      BY <1>5 DEF create_product, Free
    <2>. QED BY <1>3, <2>1, <2>2
  <1>. QED BY <1>4, <1>5

\* The background request of a page that was read.
LEMMA RefreshesTyped ==
  ASSUME TypeInv, NEW k \in Pages, flights' \in Refreshes(k)
  PROVE  /\ FlightsOK'
         /\ \A f \in flights' : f \in flights \/ (f.page = k /\ f.items = Page(k))
  <1>1. flights' = flights \cup {[page |-> k, items |-> Page(k)]}
    BY DEF Refreshes
  <1>. DEFINE g == [page |-> k, items |-> Page(k)]
  <1>2. g.page = k /\ g.items = Page(k)
    OBVIOUS
  <1>. HIDE DEF g
  <1>3. Cardinality(Page(k)) <= PageSize
    BY PageIsCut
  <1>. QED BY <1>1, <1>2, <1>3 DEF TypeInv, FlightsOK, g

LEMMA LoadsAnewTyped ==
  ASSUME TypeInv, NEW others, LoadsAnew(others), others \in {{}, Cancelled}
  PROVE  LoadsOK'
  <1>1. loads' = others \cup {NewLoad} /\ status' = "loading"
    BY DEF LoadsAnew
  <1>2. NewLoad \in [page : Pages, got : {NewLoad.got}, whole : {NewLoad.whole}, mine : {NewLoad.mine}]
    BY Sizes DEF NewLoad
  <1>3. \A l \in Cancelled : l \in [page : Pages, got : {l.got}, whole : {l.whole}, mine : {l.mine}]
    <2>. SUFFICES ASSUME NEW l \in loads
                  PROVE  LET m == [l EXCEPT !.mine = FALSE, !.got = {}]
                         IN  m \in [page : Pages, got : {m.got}, whole : {m.whole}, mine : {m.mine}]
      BY DEF Cancelled
    <2>1. l \in [page : Pages, got : {l.got}, whole : {l.whole}, mine : {l.mine}]
      BY DEF TypeInv, LoadsOK
    <2>2. [l EXCEPT !.mine = FALSE, !.got = {}] \in [page : Pages, got : {{}}, whole : {l.whole}, mine : {FALSE}]
      BY <2>1
    <2>. QED BY <2>2
  <1>. HIDE DEF NewLoad, Cancelled
  <1>. QED BY <1>1, <1>2, <1>3 DEF LoadsOK

\* Every part holds as long as its variables are left alone.
LEMMA PartsKept ==
  ASSUME TypeInv
  PROVE  /\ UNCHANGED <<server, edits>> => ServerOK'
         /\ UNCHANGED cache => CacheOK'
         /\ UNCHANGED flights => FlightsOK'
         /\ UNCHANGED <<loads, status>> => LoadsOK'
         /\ UNCHANGED prompt => PromptOK'
  BY DEF TypeInv, ServerOK, CacheOK, FlightsOK, LoadsOK, PromptOK

LEMMA TypeStep ==
  ASSUME TypeInv, [Next]_vars
  PROVE  TypeInv'
  <1>. USE DEF TypeInv
  <1>1. CASE UNCHANGED vars
    BY <1>1, PartsKept DEF vars, readVars, promptVars
  <1>2. CASE Claims
    BY <1>2, PartsKept DEF Claims, promptVars
  <1>3. CASE Remount \/ GateChanges \/ PageReloads
    <2>1. PICK others \in {{}, Cancelled} : LoadsAnew(others)
      BY <1>3 DEF Remount, GateChanges, PageReloads
    <2>2. LoadsOK'
      BY <2>1, LoadsAnewTyped
    <2>3. UNCHANGED <<server, edits, cache, flights>>
      BY <2>1 DEF LoadsAnew
    <2>4. PromptOK'
      BY <1>3 DEF Remount, GateChanges, PageReloads, promptVars, PromptOK
    <2>. QED BY <2>2, <2>3, <2>4, PartsKept
  <1>4. CASE BuildArrives \/ NeedRefresh \/ OfflineReady \/ Dismiss \/ ConfirmReload
    <2>1. PromptOK'
      BY <1>4 DEF BuildArrives, NeedRefresh, OfflineReady, Dismiss, ConfirmReload, Reduced, PromptOK
    <2>2. UNCHANGED readVars
      BY <1>4 DEF BuildArrives, NeedRefresh, OfflineReady, Dismiss, ConfirmReload
    <2>. QED BY <2>1, <2>2, PartsKept DEF readVars
  <1>5. ASSUME NEW l \in loads, FromCache(l) \/ FromCacheRefreshed(l)
        PROVE  TypeInv'
    <2>1. Gets(l, cache[l.page]) /\ UNCHANGED <<server, edits, cache, prompt>>
      BY <1>5 DEF FromCache, FromCacheRefreshed, promptVars
    <2>2. LoadsOK' /\ l.page \in Pages
      BY <2>1, GetsTyped DEF LoadsOK
    <2>3. FlightsOK'
      <3>1. flights' = flights \/ flights' \in Refreshes(l.page)
        BY <1>5 DEF FromCache, FromCacheRefreshed
      <3>. QED BY <2>2, <3>1, PartsKept, RefreshesTyped
    <2>. QED BY <2>1, <2>2, <2>3, PartsKept
  <1>6. ASSUME NEW l \in loads, FromNetwork(l)
        PROVE  TypeInv'
    <2>1. /\ Gets(l, Page(l.page)) /\ UNCHANGED <<server, edits, flights, prompt>>
          /\ Put(l.page, Page(l.page)) \/ UNCHANGED cache
      BY <1>6 DEF FromNetwork, promptVars
    <2>2. LoadsOK' /\ l.page \in Pages
      BY <2>1, GetsTyped DEF LoadsOK
    <2>3. CacheOK'
      <3>1. Cardinality(Page(l.page)) <= PageSize
        BY <2>2, PageIsCut
      <3>. QED BY <2>1, <2>2, <3>1, PutTyped, PartsKept
    <2>. QED BY <2>1, <2>2, <2>3, PartsKept
  <1>7. ASSUME NEW l \in loads, LoadFails(l)
        PROVE  TypeInv'
    <2>1. /\ loads' \subseteq loads /\ status' \in {status, "error"}
          /\ UNCHANGED <<server, edits, cache, flights, prompt>>
      BY <1>7 DEF LoadFails, promptVars
    <2>2. LoadsOK'
      BY <2>1 DEF LoadsOK
    <2>. QED BY <2>1, <2>2, PartsKept
  <1>8. ASSUME NEW f \in flights, FlightLands(f)
        PROVE  TypeInv'
    <2>1. /\ Put(f.page, f.items) /\ flights' \subseteq flights
          /\ UNCHANGED <<server, edits, loads, status, prompt>>
      BY <1>8 DEF FlightLands, promptVars
    <2>2. f.page \in Pages /\ Cardinality(f.items) <= PageSize
      BY DEF FlightsOK
    <2>3. CacheOK' /\ FlightsOK'
      BY <2>1, <2>2, PutTyped DEF FlightsOK
    <2>. QED BY <2>1, <2>3, PartsKept
  <1>9. ASSUME NEW k \in Pages, Expires(k)
        PROVE  TypeInv'
    <2>1. /\ cache' = [j \in DOMAIN cache \ {k} |-> cache[j]]
          /\ UNCHANGED <<server, edits, flights, loads, status, prompt>>
      BY <1>9 DEF Expires, promptVars
    <2>2. /\ DOMAIN cache' = DOMAIN cache \ {k}
          /\ \A j \in DOMAIN cache' : j \in DOMAIN cache /\ cache'[j] = cache[j]
      BY <2>1
    <2>3. Cardinality(DOMAIN cache') <= MaxEntries
      <3>1. IsFiniteSet(DOMAIN cache)
        BY Sizes, FS_Subset DEF CacheOK
      <3>2. Cardinality(DOMAIN cache') <= Cardinality(DOMAIN cache)
        BY <2>2, <3>1, FS_Subset
      <3>3. Cardinality(DOMAIN cache') \in Nat /\ Cardinality(DOMAIN cache) \in Nat
        BY <2>2, <3>1, FS_RemoveElement, FS_CardinalityType
      <3>. QED BY <3>2, <3>3, Sizes DEF CacheOK
    <2>4. CacheOK'
      BY <2>2, <2>3 DEF CacheOK
    <2>. QED BY <2>1, <2>4, PartsKept
  <1>10. ASSUME NEW p \in Products, create_product(p) \/ \E x \in server : update_product(x, p)
         PROVE  TypeInv'
    <2>1. ServerOK'
      BY <1>10, EditTyped
    <2>2. UNCHANGED <<cache, flights, loads, status, prompt>>
      BY <1>10 DEF create_product, update_product, Edit, promptVars
    <2>. QED BY <2>1, <2>2, PartsKept
  <1>. QED BY <1>1, <1>2, <1>3, <1>4, <1>5, <1>6, <1>7, <1>8, <1>9, <1>10 DEF Next

----------------------------------------------------------------------------
(* The sizes of the copies. *)

\* An edit that adds a product is seen in the size of the catalogue.
LEMMA EditSizes ==
  ASSUME NEW items, Edit(items), ~resized'
  PROVE  Cardinality(server') = Cardinality(server) /\ ~resized
  BY DEF Edit

\* While the catalogue keeps its size a page read now has as many products as it
\* had at first.
LEMMA PageSized ==
  ASSUME TypeInv, SizeInv, ~resized, NEW k \in Pages
  PROVE  Cardinality(Page(k)) = Cardinality(Slice(k)) /\ Cardinality(Page(k)) <= PageSize
  <1>1. Names \subseteq Nat /\ IsFiniteSet(Names) /\ Start \subseteq Nat /\ IsFiniteSet(Start)
    BY PageIsCut, Sizes, FS_Subset
  <1>2. Cardinality(Names) = Cardinality(Start)
    BY NamesCount DEF SizeInv, Names
  <1>3. Cardinality(Cut(Names, k)) = Cardinality(Slice(k))
    BY <1>1, <1>2, CutSize DEF Slice
  <1>. QED BY <1>3, PageIsCut

LEMMA SizeInit == Init => SizeInv
  <1>. SUFFICES ASSUME Init
                PROVE  SizeInv
    OBVIOUS
  <1>1. Cardinality(server) = Cardinality(Start)
    <2>. DEFINE f == [p \in Start |-> <<p, 0>>]
    <2>1. IsFiniteSet(Start)
      BY Sizes, FS_Subset
    <2>2. server = {<<p, 0>> : p \in Start}
      BY DEF Init
    <2>3. /\ f \in [Start -> server] /\ \A x \in server : \E p \in Start : f[p] = x
          /\ \A p, r \in Start : f[p] = f[r] => p = r
      BY <2>2
    <2>. HIDE DEF f
    <2>4. f \in Surjection(Start, server) /\ f \in Injection(Start, server)
      BY <2>3, Fun_IsSurj, Fun_IsInj
    <2>. QED BY <2>1, <2>4, FS_Surjection
  <1>2. DOMAIN cache = {} /\ flights = {}
    BY DEF Init
  <1>. QED BY <1>1, <1>2 DEF SizeInv

LEMMA SizeStep ==
  ASSUME TypeInv, SizeInv, [Next]_vars
  PROVE  SizeInv'
  <1>. SUFFICES ASSUME ~resized'
                PROVE  /\ Cardinality(server') = Cardinality(Start)
                       /\ \A k \in DOMAIN cache' : Cardinality(cache'[k]) = Cardinality(Slice(k))
                       /\ \A f \in flights' : Cardinality(f.items) = Cardinality(Slice(f.page))
    BY DEF SizeInv, Slice, Cut, Rank
  <1>1. CASE UNCHANGED <<server, resized, cache, flights>>
    BY <1>1 DEF SizeInv
  <1>2. CASE \/ UNCHANGED vars
             \/ Claims \/ Remount \/ GateChanges \/ PageReloads
             \/ BuildArrives \/ NeedRefresh \/ OfflineReady \/ Dismiss \/ ConfirmReload
             \/ \E l \in loads : FromCache(l) \/ LoadFails(l)
    BY <1>1, <1>2 DEF vars, readVars, Claims, Remount, GateChanges, PageReloads, LoadsAnew,
       BuildArrives, NeedRefresh, OfflineReady, Dismiss, ConfirmReload, FromCache, LoadFails
  <1>3. ASSUME NEW l \in loads, FromCacheRefreshed(l)
        PROVE  /\ Cardinality(server') = Cardinality(Start)
               /\ \A k \in DOMAIN cache' : Cardinality(cache'[k]) = Cardinality(Slice(k))
               /\ \A f \in flights' : Cardinality(f.items) = Cardinality(Slice(f.page))
    <2>1. /\ flights' \in Refreshes(l.page) /\ l.page \in Pages
          /\ UNCHANGED <<server, resized, cache>>
      BY <1>3 DEF FromCacheRefreshed, TypeInv, LoadsOK
    <2>2. \A f \in flights' : f \in flights \/ (f.page = l.page /\ f.items = Page(l.page))
      BY <2>1, RefreshesTyped
    <2>3. Cardinality(Page(l.page)) = Cardinality(Slice(l.page))
      BY <2>1, PageSized
    <2>. QED BY <2>1, <2>2, <2>3 DEF SizeInv
  <1>4. ASSUME NEW l \in loads, FromNetwork(l)
        PROVE  /\ Cardinality(server') = Cardinality(Start)
               /\ \A k \in DOMAIN cache' : Cardinality(cache'[k]) = Cardinality(Slice(k))
               /\ \A f \in flights' : Cardinality(f.items) = Cardinality(Slice(f.page))
    <2>1. /\ Put(l.page, Page(l.page)) \/ UNCHANGED cache
          /\ l.page \in Pages /\ UNCHANGED <<server, resized, flights>>
      BY <1>4 DEF FromNetwork, TypeInv, LoadsOK
    <2>2. Cardinality(Page(l.page)) = Cardinality(Slice(l.page)) /\ Cardinality(Page(l.page)) <= PageSize
      BY <2>1, PageSized
    <2>3. CASE Put(l.page, Page(l.page))
      <3>1. /\ DOMAIN cache' \subseteq DOMAIN cache \cup {l.page}
            /\ \A j \in DOMAIN cache' : cache'[j] = IF j = l.page THEN Page(l.page) ELSE cache[j]
        BY <2>1, <2>2, <2>3, PutTyped
      <3>. QED BY <2>1, <2>2, <3>1 DEF SizeInv
    <2>. QED BY <1>1, <2>1, <2>3
  <1>5. ASSUME NEW f \in flights, FlightLands(f)
        PROVE  /\ Cardinality(server') = Cardinality(Start)
               /\ \A k \in DOMAIN cache' : Cardinality(cache'[k]) = Cardinality(Slice(k))
               /\ \A g \in flights' : Cardinality(g.items) = Cardinality(Slice(g.page))
    <2>1. /\ Put(f.page, f.items) /\ flights' \subseteq flights
          /\ f.page \in Pages /\ Cardinality(f.items) <= PageSize /\ UNCHANGED <<server, resized>>
      BY <1>5 DEF FlightLands, TypeInv, FlightsOK
    <2>2. /\ DOMAIN cache' \subseteq DOMAIN cache \cup {f.page}
          /\ \A j \in DOMAIN cache' : cache'[j] = IF j = f.page THEN f.items ELSE cache[j]
      BY <2>1, PutTyped
    <2>. QED BY <2>1, <2>2 DEF SizeInv
  <1>6. ASSUME NEW k \in Pages, Expires(k)
        PROVE  /\ Cardinality(server') = Cardinality(Start)
               /\ \A j \in DOMAIN cache' : Cardinality(cache'[j]) = Cardinality(Slice(j))
               /\ \A f \in flights' : Cardinality(f.items) = Cardinality(Slice(f.page))
    BY <1>6 DEF Expires, SizeInv, Names
  <1>7. ASSUME NEW p \in Products, create_product(p) \/ \E x \in server : update_product(x, p)
        PROVE  /\ Cardinality(server') = Cardinality(Start)
               /\ \A k \in DOMAIN cache' : Cardinality(cache'[k]) = Cardinality(Slice(k))
               /\ \A f \in flights' : Cardinality(f.items) = Cardinality(Slice(f.page))
    <2>1. Cardinality(server') = Cardinality(server) /\ ~resized
      BY <1>7, EditSizes DEF create_product, update_product
    <2>2. UNCHANGED <<cache, flights>>
      BY <1>7 DEF create_product, update_product, Edit
    <2>. QED BY <2>1, <2>2 DEF SizeInv
  <1>. QED BY <1>2, <1>3, <1>4, <1>5, <1>6, <1>7 DEF Next

----------------------------------------------------------------------------
(* The way through the cached pages. *)

\* A longer cache keeps every way.
LEMMA WayPersists ==
  ASSUME WalkInv, ~lost' => ~lost /\ DOMAIN cache \subseteq DOMAIN cache',
         ~resized' => ~resized, UNCHANGED kept, controlled => controlled',
         \A m \in loads' : \/ m.page = 0 /\ (m.whole => controlled')
                           \/ \E l \in loads : m.page = l.page /\ m.whole = l.whole
  PROVE  WalkInv'
  <1>1. \A m \in loads' : m.whole => controlled'
    BY DEF WalkInv
  <1>2. SUFFICES ASSUME ~lost', ~resized'
                 PROVE  /\ \A m \in loads' : m.whole =>
                             \A k \in 0 .. m.page - 1 : k \in DOMAIN cache' /\ Full(k)
                        /\ kept' => WayKept'
    BY <1>1 DEF WalkInv, Full, Slice, Cut, Rank
  <1>3. ASSUME NEW m \in loads', m.whole, NEW k \in 0 .. m.page - 1
        PROVE  k \in DOMAIN cache' /\ Full(k)
    <2>1. m.page # 0
      BY <1>3
    <2>. QED BY <1>2, <1>3, <2>1 DEF WalkInv
  <1>4. kept => WayKept
    BY <1>2 DEF WalkInv
  <1>5. WayKept => WayKept'
    BY <1>2 DEF WayKept, Full, Slice, Cut, Rank
  <1>. QED BY <1>3, <1>4, <1>5

\* A page that a load got from the worker, or through it, is in the cache.
LEMMA GetsWalks ==
  ASSUME TypeInv, WalkInv, NEW l \in loads, NEW items, Gets(l, items),
         ~lost' => ~lost /\ DOMAIN cache \subseteq DOMAIN cache',
         UNCHANGED <<resized, controlled>>,
         ~resized => Cardinality(items) = Cardinality(Slice(l.page)) /\ Cardinality(items) <= PageSize,
         l.whole => l.page \in DOMAIN cache'
  PROVE  WalkInv'
  <1>1. l.page \in Pages /\ l.page \in Nat
    BY Sizes DEF TypeInv, LoadsOK
  <1>2. CASE /\ Cardinality(items) < PageSize \/ l.page + 1 = MaxPages
             /\ loads' = loads \ {l} /\ kept' = (kept \/ l.whole)
    <2>1. CASE ~ l.whole
      <3>1. kept' <=> kept
        BY <1>2, <2>1
      <3>2. \A m \in loads' : m.whole => controlled'
        BY <1>2 DEF WalkInv
      <3>3. ASSUME ~lost', ~resized'
            PROVE  /\ \A m \in loads' : m.whole =>
                         \A k \in 0 .. m.page - 1 : k \in DOMAIN cache' /\ Full(k)
                   /\ kept' => WayKept'
        <4>1. WayKept => WayKept'
          BY <3>3 DEF WayKept, Full, Slice, Cut, Rank
        <4>2. kept' => WayKept'
          BY <3>1, <3>3, <4>1 DEF WalkInv
        <4>. QED BY <1>2, <3>3, <4>2 DEF WalkInv
      <3>. QED BY <3>2, <3>3 DEF WalkInv, Full, Slice, Cut, Rank
    <2>2. CASE l.whole
      <3>1. \A m \in loads' : m.whole => controlled'
        BY <1>2 DEF WalkInv
      <3>2. ASSUME ~lost', ~resized'
            PROVE  /\ \A m \in loads' : m.whole =>
                         \A k \in 0 .. m.page - 1 : k \in DOMAIN cache' /\ Full(k)
                   /\ WayKept'
        <4>1. \A k \in 0 .. l.page - 1 : k \in DOMAIN cache' /\ Full(k)
          BY <2>2, <3>2 DEF WalkInv
        <4>2. 0 .. l.page \subseteq DOMAIN cache'
          BY <1>1, <2>2, <4>1
        <4>3. l.page + 1 = MaxPages \/ Cardinality(Slice(l.page)) < PageSize
          BY <1>2, <3>2
        <4>4. WayKept'
          BY <1>1, <4>1, <4>2, <4>3 DEF WayKept, Full, Slice, Cut, Rank
        <4>. QED BY <1>2, <3>2, <4>4 DEF WalkInv
      <3>. QED BY <3>1, <3>2 DEF WalkInv, Full, Slice, Cut, Rank
    <2>. QED BY <2>1, <2>2
  <1>3. ASSUME ~ (Cardinality(items) < PageSize), kept' = kept,
               NEW n, loads' = (loads \ {l}) \cup {n}, n.page = l.page + 1, n.whole = l.whole
        PROVE  WalkInv'
    <2>1. \A m \in loads' : m.whole => controlled'
      BY <1>3 DEF WalkInv
    <2>2. ASSUME ~lost', ~resized'
          PROVE  /\ \A m \in loads' : m.whole =>
                       \A k \in 0 .. m.page - 1 : k \in DOMAIN cache' /\ Full(k)
                 /\ kept' => WayKept'
      <3>1. WayKept => WayKept'
        BY <2>2 DEF WayKept, Full, Slice, Cut, Rank
      <3>2. kept' => WayKept'
        BY <1>3, <2>2, <3>1 DEF WalkInv
      <3>3. Full(l.page)
        <4>1. Cardinality(Slice(l.page)) = Cardinality(items) /\ Cardinality(items) <= PageSize
          BY <2>2
        <4>2. Cardinality(Slice(l.page)) \in Nat
          <5>1. Start \subseteq Nat /\ IsFiniteSet(Start)
            BY Sizes, FS_Subset
          <5>. QED BY <1>1, <5>1, CutFits, FS_CardinalityType DEF Slice
        <4>. QED BY <1>3, <4>1, <4>2, Sizes DEF Full
      <3>4. ASSUME n.whole, NEW k \in 0 .. n.page - 1
            PROVE  k \in DOMAIN cache' /\ Full(k)
        <4>1. k = l.page \/ k \in 0 .. l.page - 1
          BY <1>1, <1>3
        <4>. QED BY <1>3, <2>2, <3>3, <3>4, <4>1 DEF WalkInv
      <3>5. ASSUME NEW m \in loads, m.whole
            PROVE  \A k \in 0 .. m.page - 1 : k \in DOMAIN cache' /\ Full(k)
        BY <2>2, <3>5 DEF WalkInv
      <3>. QED BY <1>3, <3>2, <3>4, <3>5
    <2>. QED BY <2>1, <2>2 DEF WalkInv, Full, Slice, Cut, Rank
  <1>. QED BY <1>2, <1>3, GetsTyped

LEMMA WalkInit == Init => WalkInv
  BY DEF Init, WalkInv, NewLoad

LEMMA WalkStep ==
  ASSUME TypeInv, SizeInv, WalkInv, [Next]_vars
  PROVE  WalkInv'
  <1>1. CASE UNCHANGED <<cache, lost, resized, controlled, loads, kept>>
    BY <1>1, WayPersists
  <1>2. CASE \/ UNCHANGED vars
             \/ BuildArrives \/ NeedRefresh \/ OfflineReady \/ Dismiss \/ ConfirmReload
    BY <1>1, <1>2 DEF vars, readVars, BuildArrives, NeedRefresh, OfflineReady, Dismiss, ConfirmReload
  <1>3. CASE Claims
    BY <1>3, WayPersists DEF Claims
  <1>4. CASE Remount \/ GateChanges \/ PageReloads
    <2>1. PICK others \in {{}, Cancelled} : LoadsAnew(others)
      BY <1>4 DEF Remount, GateChanges, PageReloads
    <2>2. /\ loads' = others \cup {NewLoad}
          /\ UNCHANGED <<resized, controlled, cache, lost, kept>>
      BY <2>1 DEF LoadsAnew
    <2>3. NewLoad.page = 0 /\ NewLoad.whole = controlled
      BY DEF NewLoad
    <2>4. \A m \in Cancelled : \E l \in loads : m.page = l.page /\ m.whole = l.whole
      BY DEF Cancelled, TypeInv, LoadsOK
    <2>. HIDE DEF NewLoad, Cancelled
    <2>. QED BY <2>2, <2>3, <2>4, WayPersists
  <1>5. ASSUME NEW l \in loads, FromCache(l) \/ FromCacheRefreshed(l)
        PROVE  WalkInv'
    <2>1. /\ Gets(l, cache[l.page]) /\ Hit(l.page)
          /\ UNCHANGED <<resized, controlled, cache, lost>>
      BY <1>5 DEF FromCache, FromCacheRefreshed
    <2>2. l.page \in DOMAIN cache
      BY <2>1 DEF Hit
    <2>3. Cardinality(cache[l.page]) <= PageSize
      BY <2>2 DEF TypeInv, CacheOK
    <2>4. ~resized => Cardinality(cache[l.page]) = Cardinality(Slice(l.page))
      BY <2>2 DEF SizeInv
    <2>. QED BY <2>1, <2>2, <2>3, <2>4, GetsWalks
  <1>6. ASSUME NEW l \in loads, FromNetwork(l)
        PROVE  WalkInv'
    <2>1. /\ Gets(l, Page(l.page)) /\ l.page \in Pages
          /\ UNCHANGED <<resized, controlled>>
      BY <1>6 DEF FromNetwork, TypeInv, LoadsOK
    <2>2. ~resized => Cardinality(Page(l.page)) = Cardinality(Slice(l.page)) /\ Cardinality(Page(l.page)) <= PageSize
      BY <2>1, PageSized
    <2>3. Cardinality(Page(l.page)) <= PageSize
      BY <2>1, PageIsCut
    <2>4. CASE Cacheable(l.page)
      <3>1. Put(l.page, Page(l.page))
        BY <1>6, <2>4 DEF FromNetwork
      <3>2. /\ l.page \in DOMAIN cache'
            /\ ~lost' => ~lost /\ DOMAIN cache \subseteq DOMAIN cache'
        BY <2>1, <2>3, <3>1, PutTyped
      <3>. QED BY <2>1, <2>2, <3>2, GetsWalks
    <2>5. CASE ~ Cacheable(l.page)
      <3>1. UNCHANGED <<cache, lost>>
        BY <1>6, <2>5 DEF FromNetwork
      <3>2. ~ controlled
        BY <2>5 DEF Cacheable, Route, Read
      <3>3. ~ l.whole
        BY <3>2 DEF WalkInv
      <3>. QED BY <2>1, <2>2, <3>1, <3>3, GetsWalks
    <2>. QED BY <2>4, <2>5
  <1>7. ASSUME NEW l \in loads, LoadFails(l)
        PROVE  WalkInv'
    <2>1. loads' \subseteq loads /\ UNCHANGED <<resized, controlled, cache, lost, kept>>
      BY <1>7 DEF LoadFails
    <2>. QED BY <2>1, WayPersists
  <1>8. ASSUME NEW f \in flights, FlightLands(f)
        PROVE  WalkInv'
    <2>1. /\ Put(f.page, f.items) /\ f.page \in Pages /\ Cardinality(f.items) <= PageSize
          /\ UNCHANGED <<resized, controlled, loads, kept>>
      BY <1>8 DEF FlightLands, TypeInv, FlightsOK
    <2>2. ~lost' => ~lost /\ DOMAIN cache \subseteq DOMAIN cache'
      BY <2>1, PutTyped
    <2>. QED BY <2>1, <2>2, WayPersists
  <1>9. ASSUME NEW k \in Pages, Expires(k)
        PROVE  WalkInv'
    <2>1. lost' = TRUE /\ UNCHANGED <<resized, controlled, loads, kept>>
      BY <1>9 DEF Expires
    <2>. QED BY <2>1, WayPersists
  <1>10. ASSUME NEW p \in Products, create_product(p) \/ \E x \in server : update_product(x, p)
         PROVE  WalkInv'
    <2>1. PICK items : Edit(items)
      BY <1>10 DEF create_product, update_product
    <2>2. (~resized' => ~resized) /\ UNCHANGED <<controlled, cache, lost, loads, kept>>
      BY <2>1 DEF Edit
    <2>. QED BY <2>2, WayPersists
  <1>. QED BY <1>2, <1>3, <1>4, <1>5, <1>6, <1>7, <1>8, <1>9, <1>10 DEF Next

----------------------------------------------------------------------------
(* The theorems. *)

THEOREM TypeCorrect == Spec => []TypeInv
  BY TypeInit, TypeStep, PTL DEF Spec

\* The cache of product pages never outgrows maxEntries (vite.config.js), no
\* page its size, and a load asks for none after the last.
THEOREM CatalogueTypes == Spec => []TypeOK
  <1>1. TypeInv => TypeOK
    <2>. SUFFICES ASSUME TypeInv
                  PROVE  TypeOK
      OBVIOUS
    <2>1. \A x \in server : x[1] \in Products /\ x[2] \in 0 .. edits
      BY DEF TypeInv, ServerOK
    <2>2. \A l \in loads : l.page \in Pages
      BY DEF TypeInv, LoadsOK
    <2>. QED BY <2>1, <2>2 DEF TypeInv, CacheOK, LoadsOK, PromptOK, TypeOK
  <1>. QED BY <1>1, TypeCorrect, PTL

\* Once a load has passed the worker, the cached pages lead to the end of the
\* catalogue (fetchAllProducts.js, vite.config.js): the till works offline,
\* however loads, refreshes, reloads, new prices and new names interleave.
THEOREM OfflineIsKept == Spec => []KeptOffline
  <1>1. TypeInv /\ SizeInv /\ WalkInv => KeptOffline
    <2>. SUFFICES ASSUME TypeInv, SizeInv, WalkInv, kept, ~lost, ~resized
                  PROVE  Walkable
      BY DEF KeptOffline
    <2>1. PICK n \in Pages : /\ 0 .. n \subseteq DOMAIN cache
                             /\ \A k \in 0 .. n - 1 : Full(k)
                             /\ n + 1 = MaxPages \/ Cardinality(Slice(n)) < PageSize
      BY DEF WalkInv, WayKept
    <2>2. n \in Nat
      BY Sizes
    <2>3. \A k \in 0 .. n : Cardinality(cache[k]) = Cardinality(Slice(k))
      BY <2>1 DEF SizeInv
    <2>4. \A k \in 0 .. n - 1 : Cardinality(cache[k]) = PageSize
      BY <2>1, <2>2, <2>3 DEF Full
    <2>5. n + 1 = MaxPages \/ Cardinality(cache[n]) < PageSize
      BY <2>1, <2>2, <2>3
    <2>. QED BY <2>1, <2>4, <2>5 DEF Walkable
  <1>. QED BY <1>1, TypeCorrect, SizeInit, SizeStep, WalkInit, WalkStep, PTL DEF Spec
=============================================================================
