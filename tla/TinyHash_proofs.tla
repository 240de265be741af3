--------------------------- MODULE TinyHash_proofs ---------------------------
(***************************************************************************)
(* Theorems about TinyHash, for any keys, hashes and sizes and any         *)
(* allocations that fail.                                                  *)
(*                                                                         *)
(* A table is taken apart into its chains and put together into the set of *)
(* its entries.  Each operation changes one chain, or all; what it does to *)
(* the set is simple, and memory and map are functions of the set.         *)
(***************************************************************************)
EXTENDS TinyHash, FiniteSetTheorems, TLAPS

KeysOf(entries) == {e.k : e \in entries}

\* The tables whose array has m slots.
Tables(m) == [table      : [0 .. m - 1 -> Seq(Entry)],
              size       : Nat \ {0},
              primeindex : 0 .. Len(Primes) - 1,
              loadlimit  : Nat,
              entrycount : Nat,
              noccupied  : Nat]

\* The entries of a chain belong into slot i of n, and have a key each.
Proper(c, n, i) ==
  /\ \A j \in DOMAIN c : c[j].h = Hash[c[j].k] /\ indexFor(n, c[j].h) = i
  /\ \A j, l \in DOMAIN c : c[j].k = c[l].k => j = l

(***************************************************************************)
(* A table of m slots that is fit for the next call.  The last prime is    *)
(* not reached, so that there is a larger one whenever the table is        *)
(* crowded; primeindex 0 is the size a resize went back to.                *)
(***************************************************************************)
Good(t, m) ==
  /\ t \in Tables(m)
  /\ t.size <= m /\ t.size = Primes[IF t.primeindex = 0 THEN 1 ELSE t.primeindex]
  /\ t.loadlimit = LoadLimit(t.size)
  /\ \A i \in 0 .. m - 1 : IF i < t.size THEN Proper(t.table[i], t.size, i)
                                         ELSE t.table[i] = <<>>
  /\ t.entrycount = Cardinality(KeysOf(Entries(t)))

GoodTable == \E m \in Nat : Good(h, m)

\* What is owned is what the entries of a set refer to, or lost.
Owned(entries, own, away) ==
  /\ own \ away = {e.kb : e \in entries} \cup ({e.v : e \in entries} \ {Null})
  /\ \A e, f \in entries : e.kb = f.kb \/ (e.v = f.v /\ e.v # Null) => e = f

OwnedInv == Owned(Entries(h), owned, lost)

OtherTypes ==
  /\ answer \in BOOLEAN
  /\ lost \subseteq owned /\ owned \subseteq KeyBlocks \cup Values

IInv == GoodTable /\ OwnedInv /\ OtherTypes
-----------------------------------------------------------------------------
(* Spots and entries. *)

\* A spot is a slot and a place in its chain.
LEMMA SpotsIn ==
  ASSUME NEW t
  PROVE  /\ \A s \in Spots(t) : /\ s = <<s[1], s[2]>>
                                /\ s[1] \in 0 .. t.size - 1 /\ s[2] \in DOMAIN t.table[s[1]]
                                /\ At(t, s) = t.table[s[1]][s[2]]
         /\ \A i \in 0 .. t.size - 1 : \A j \in DOMAIN t.table[i] :
              <<i, j>> \in Spots(t) /\ At(t, <<i, j>>) = t.table[i][j]
<1>1. ASSUME NEW s \in Spots(t)
      PROVE  /\ s = <<s[1], s[2]>>
             /\ s[1] \in 0 .. t.size - 1 /\ s[2] \in DOMAIN t.table[s[1]]
             /\ At(t, s) = t.table[s[1]][s[2]]
  <2>1. PICK i \in 0 .. t.size - 1 : s \in {i} \X DOMAIN t.table[i]
    BY DEF Spots
  <2> QED
    BY <2>1 DEF At
<1>2. ASSUME NEW i \in 0 .. t.size - 1, NEW j \in DOMAIN t.table[i]
      PROVE  <<i, j>> \in Spots(t) /\ At(t, <<i, j>>) = t.table[i][j]
  <2>1. <<i, j>> \in {i} \X DOMAIN t.table[i]
    OBVIOUS
  <2> QED
    BY <2>1 DEF Spots, At
<1> QED
  BY <1>1, <1>2

\* The entries are the members of the chains.
LEMMA EntriesIn ==
  ASSUME NEW t, NEW x
  PROVE  x \in Entries(t) <=> \E i \in 0 .. t.size - 1 : x \in ToSet(t.table[i])
<1>1. ASSUME x \in Entries(t)
      PROVE  \E i \in 0 .. t.size - 1 : x \in ToSet(t.table[i])
  <2>1. PICK s \in Spots(t) : x = At(t, s)
    BY <1>1 DEF Entries
  <2> QED
    BY <2>1, SpotsIn DEF ToSet
<1>2. ASSUME NEW i \in 0 .. t.size - 1, x \in ToSet(t.table[i])
      PROVE  x \in Entries(t)
  <2>1. PICK j \in DOMAIN t.table[i] : x = t.table[i][j]
    BY <1>2 DEF ToSet
  <2>2. <<i, j>> \in Spots(t) /\ At(t, <<i, j>>) = x
    BY <2>1, SpotsIn
  <2> QED
    BY <2>2 DEF Entries
<1> QED
  BY <1>1, <1>2

\* What is known of a good table.
LEMMA GoodTypes ==
  ASSUME NEW m \in Nat, NEW t, Good(t, m)
  PROVE  /\ t \in Tables(m) /\ t.table \in [0 .. m - 1 -> Seq(Entry)]
         /\ t.size \in Nat /\ t.size > 0 /\ t.size <= m
         /\ t.primeindex \in 0 .. Len(Primes) - 1 /\ t.loadlimit \in Nat
         /\ t.entrycount \in Nat /\ t.noccupied \in Nat
         /\ \A i \in 0 .. t.size - 1 : /\ i \in 0 .. m - 1 /\ t.table[i] \in Seq(Entry)
                                       /\ Proper(t.table[i], t.size, i)
         /\ Entries(t) \subseteq Entry
<1>1. /\ t \in Tables(m) /\ t.table \in [0 .. m - 1 -> Seq(Entry)]
      /\ t.size \in Nat /\ t.size > 0 /\ t.size <= m
      /\ t.primeindex \in 0 .. Len(Primes) - 1 /\ t.loadlimit \in Nat
      /\ t.entrycount \in Nat /\ t.noccupied \in Nat
  BY DEF Good, Tables
<1>2. \A i \in 0 .. t.size - 1 : /\ i \in 0 .. m - 1 /\ t.table[i] \in Seq(Entry)
                                 /\ Proper(t.table[i], t.size, i)
  BY <1>1, SMTT(30) DEF Good
<1>3. Entries(t) \subseteq Entry
  <2> SUFFICES ASSUME NEW x \in Entries(t) PROVE x \in Entry
    OBVIOUS
  <2>1. PICK i \in 0 .. t.size - 1 : x \in ToSet(t.table[i])
    BY EntriesIn
  <2> QED
    BY <1>2, <2>1 DEF ToSet
<1> QED
  BY <1>1, <1>2, <1>3

\* A key has one hash and so one slot, and it has one place in its chain.
LEMMA OneSpot ==
  ASSUME NEW m \in Nat, NEW t, Good(t, m)
  PROVE  /\ \A s \in Spots(t) : /\ At(t, s).h = Hash[At(t, s).k]
                                /\ indexFor(t.size, At(t, s).h) = s[1]
                                /\ At(t, s) \in Entry
         /\ \A s, u \in Spots(t) : At(t, s).k = At(t, u).k => s = u
         /\ \A e, f \in Entries(t) : e.k = f.k => e = f
<1>1. ASSUME NEW s \in Spots(t)
      PROVE  /\ At(t, s).h = Hash[At(t, s).k] /\ indexFor(t.size, At(t, s).h) = s[1]
             /\ At(t, s) \in Entry
  BY GoodTypes, SpotsIn DEF Proper
<1>2. ASSUME NEW s \in Spots(t), NEW u \in Spots(t), At(t, s).k = At(t, u).k PROVE s = u
  <2>1. s[1] = u[1]
    BY <1>1, <1>2
  <2>2. s[2] = u[2]
    BY <1>2, <2>1, GoodTypes, SpotsIn DEF Proper
  <2> QED
    BY <2>1, <2>2, SpotsIn
<1> QED
  BY <1>1, <1>2 DEF Entries

\* There are as many spots as keys with an entry, and not more than keys.
LEMMA CountSpots ==
  ASSUME NEW m \in Nat, NEW t, Good(t, m)
  PROVE  /\ IsFiniteSet(Spots(t)) /\ Cardinality(Spots(t)) = t.entrycount
         /\ IsFiniteSet(KeysOf(Entries(t))) /\ KeysOf(Entries(t)) \subseteq Keys
<1> DEFINE f == [s \in Spots(t) |-> At(t, s).k]
<1>1. f \in Injection(Spots(t), Keys)
  BY OneSpot DEF Injection, IsInjective, Entry
<1>2. IsFiniteSet(Keys)
  BY PrimesAssumption
<1>3. IsFiniteSet(Spots(t))
  BY <1>1, <1>2, FS_Injection
<1>4. f \in Surjection(Spots(t), KeysOf(Entries(t)))
  BY DEF Surjection, KeysOf, Entries
<1>5. f \in Injection(Spots(t), KeysOf(Entries(t)))
  BY <1>1, <1>4 DEF Surjection, Injection
<1>6. Cardinality(Spots(t)) = Cardinality(KeysOf(Entries(t)))
  BY <1>3, <1>4, <1>5, FS_Surjection
<1>7. KeysOf(Entries(t)) \subseteq Keys
  BY GoodTypes DEF KeysOf, Entry
<1> QED
  BY <1>2, <1>3, <1>6, <1>7, FS_Subset DEF Good

-----------------------------------------------------------------------------
(* Changing a chain. *)

(***************************************************************************)
(* A table with a proper new chain in slot i is good if it counts its      *)
(* entries: those of the chain, and those that belong elsewhere.           *)
(***************************************************************************)
LEMMA SlotChanged ==
  ASSUME NEW m \in Nat, NEW t, Good(t, m), NEW i \in 0 .. t.size - 1,
         NEW c \in Seq(Entry), Proper(c, t.size, i),
         NEW u \in Tables(m), u.table = [t.table EXCEPT ![i] = c],
         u.size = t.size, u.primeindex = t.primeindex, u.loadlimit = t.loadlimit
  PROVE  /\ u.entrycount = Cardinality(KeysOf(Entries(u))) => Good(u, m)
         /\ Entries(u) = (Entries(t) \ ToSet(t.table[i])) \cup ToSet(c)
<1>1. /\ i \in 0 .. m - 1 /\ u.table[i] = c
      /\ \A l \in 0 .. m - 1 : l # i => u.table[l] = t.table[l]
  BY GoodTypes
<1>2. \A l \in 0 .. m - 1 : IF l < u.size THEN Proper(u.table[l], u.size, l)
                                          ELSE u.table[l] = <<>>
  <2>1. \A l \in 0 .. m - 1 : IF l < t.size THEN Proper(t.table[l], t.size, l)
                                            ELSE t.table[l] = <<>>
    BY DEF Good
  <2>2. t.size \in Nat /\ i < t.size
    BY GoodTypes
  <2>3. u.table[i] = c /\ i < u.size
    BY <1>1, <2>2
  <2>4. ASSUME NEW l \in 0 .. m - 1, l # i
        PROVE  IF l < u.size THEN Proper(u.table[l], u.size, l) ELSE u.table[l] = <<>>
    <3>1. u.table[l] = t.table[l]
      BY <1>1, <2>4
    <3> QED
      BY <2>1, <3>1, Zenon
  <2> QED
    BY <2>3, <2>4, Zenon
<1>3. u.entrycount = Cardinality(KeysOf(Entries(u))) => Good(u, m)
  BY <1>2 DEF Good
<1>4. ASSUME NEW l \in 0 .. t.size - 1, NEW x \in ToSet(t.table[l]), x \in ToSet(t.table[i])
      PROVE  l = i
  <2>1. Proper(t.table[l], t.size, l) /\ Proper(t.table[i], t.size, i)
    BY GoodTypes
  <2>2. indexFor(t.size, x.h) = l /\ indexFor(t.size, x.h) = i
    BY <1>4, <2>1 DEF Proper, ToSet
  <2> QED
    BY <2>2
<1>5. ASSUME NEW x
      PROVE  x \in Entries(u) <=> x \in (Entries(t) \ ToSet(t.table[i])) \cup ToSet(c)
  <2>1. x \in Entries(u) <=> \E l \in 0 .. u.size - 1 : x \in ToSet(u.table[l])
    BY EntriesIn, Zenon
  <2>2. x \in Entries(t) <=> \E l \in 0 .. t.size - 1 : x \in ToSet(t.table[l])
    BY EntriesIn, Zenon
  <2>3. /\ u.size = t.size /\ u.table[i] = c
        /\ \A l \in 0 .. t.size - 1 : l # i => u.table[l] = t.table[l]
    BY <1>1, GoodTypes
  <2> QED
    BY <1>4, <2>1, <2>2, <2>3
<1> QED
  BY <1>3, <1>5
-----------------------------------------------------------------------------
(* Searching. *)

\* Where a chain has the key, a search stops at the one place that has.
LEMMA PlaceIn ==
  ASSUME NEW n, NEW i, NEW c \in Seq(Entry), Proper(c, n, i), NEW k,
         NEW e \in ToSet(c), e.k = k
  PROVE  \E p \in DOMAIN c : c[p] = e /\ {l \in 1 .. Len(c) : c[l].k = k} = {p}
<1>1. PICK p \in DOMAIN c : c[p] = e
  BY DEF ToSet
<1>2. {l \in 1 .. Len(c) : c[l].k = k} = {p}
  BY <1>1 DEF Proper
<1> QED
  BY <1>1, <1>2

\* A search finds exactly the keys that have an entry, and the entry of each.
LEMMA Found ==
  ASSUME NEW m \in Nat, Good(h, m), NEW k \in Keys
  PROVE  /\ indexFor(h.size, Hash[k]) \in 0 .. h.size - 1
         /\ Chain(k) \in Seq(Entry) /\ ToSet(Chain(k)) \subseteq Entries(h)
         /\ Proper(Chain(k), h.size, indexFor(h.size, Hash[k]))
         /\ Has(k) <=> k \in KeysOf(Entries(h))
         /\ Has(k) => /\ Place(k) \in DOMAIN Chain(k)
                      /\ Chain(k)[Place(k)].k = k
                      /\ Chain(k)[Place(k)] \in Entries(h)
<1>1. indexFor(h.size, Hash[k]) \in 0 .. h.size - 1
  BY HashAssumption, GoodTypes DEF indexFor
<1>2. /\ Chain(k) \in Seq(Entry) /\ ToSet(Chain(k)) \subseteq Entries(h)
      /\ Proper(Chain(k), h.size, indexFor(h.size, Hash[k]))
  BY <1>1, GoodTypes, EntriesIn DEF Chain
<1>3. ASSUME Has(k)
      PROVE  /\ Place(k) \in DOMAIN Chain(k)
             /\ Chain(k)[Place(k)].k = k
             /\ Chain(k)[Place(k)] \in Entries(h)
             /\ k \in KeysOf(Entries(h))
  <2>1. PICK e \in ToSet(Chain(k)) : e.k = k
    BY <1>3 DEF Has
  <2>2. Place(k) \in DOMAIN Chain(k) /\ Chain(k)[Place(k)] = e
    <3>1. PICK p \in DOMAIN Chain(k) :
            Chain(k)[p] = e /\ {l \in 1 .. Len(Chain(k)) : Chain(k)[l].k = k} = {p}
      BY <1>2, <2>1, PlaceIn
    <3>2. Place(k) = Min({p})
      BY <3>1 DEF Place, SelectInSeq
    <3>3. Min({p}) = p
      BY <3>1 DEF Min
    <3> QED
      BY <3>1, <3>2, <3>3
  <2> QED
    BY <1>2, <2>1, <2>2 DEF KeysOf
<1>4. ASSUME k \in KeysOf(Entries(h)) PROVE Has(k)
  <2>1. PICK e \in Entries(h) : e.k = k
    BY <1>4 DEF KeysOf
  <2>2. PICK i \in 0 .. h.size - 1 : e \in ToSet(h.table[i])
    BY EntriesIn
  <2>3. indexFor(h.size, Hash[k]) = i
    BY <2>1, <2>2, GoodTypes, SMTT(30) DEF Proper, ToSet
  <2> QED
    BY <2>1, <2>2, <2>3 DEF Has, Chain
<1> QED
  BY <1>1, <1>2, <1>3, <1>4
-----------------------------------------------------------------------------
(* The changes of one chain. *)

\* One sequence after another.
LEMMA Joined ==
  ASSUME NEW S, NEW a \in Seq(S), NEW b \in Seq(S)
  PROVE  /\ a \o b \in Seq(S) /\ Len(a \o b) = Len(a) + Len(b)
         /\ \A j \in 1 .. Len(a) : (a \o b)[j] = a[j]
         /\ \A j \in 1 .. Len(b) : (a \o b)[Len(a) + j] = b[j]
OBVIOUS

\* Removing a place of a proper chain removes its entry and leaves the others.
LEMMA RemovedFromChain ==
  ASSUME NEW n, NEW i, NEW c \in Seq(Entry), Proper(c, n, i), NEW p \in DOMAIN c
  PROVE  /\ RemoveAt(c, p) \in Seq(Entry) /\ Proper(RemoveAt(c, p), n, i)
         /\ ToSet(RemoveAt(c, p)) = ToSet(c) \ {c[p]}
<1> DEFINE r == RemoveAt(c, p)
           from(j) == IF j < p THEN j ELSE j + 1
<1>1. /\ SubSeq(c, 1, p - 1) \in Seq(Entry) /\ Len(SubSeq(c, 1, p - 1)) = p - 1
      /\ \A j \in 1 .. p - 1 : SubSeq(c, 1, p - 1)[j] = c[j]
  OBVIOUS
<1>2. /\ SubSeq(c, p + 1, Len(c)) \in Seq(Entry) /\ Len(SubSeq(c, p + 1, Len(c))) = Len(c) - p
      /\ \A j \in 1 .. Len(c) - p : SubSeq(c, p + 1, Len(c))[j] = c[p + j]
  OBVIOUS
<1>3. /\ r \in Seq(Entry) /\ Len(r) = Len(c) - 1
      /\ \A j \in 1 .. Len(c) - 1 : r[j] = c[from(j)]
  <2>1. PICK a, b : a = SubSeq(c, 1, p - 1) /\ b = SubSeq(c, p + 1, Len(c))
    OBVIOUS
  <2>2. r = a \o b
    BY <2>1 DEF RemoveAt
  <2> HIDE DEF r
  <2>3. a \in Seq(Entry) /\ b \in Seq(Entry) /\ Len(a) = p - 1 /\ Len(b) = Len(c) - p
        /\ p \in Nat /\ Len(c) \in Nat /\ p <= Len(c) /\ p >= 1
    BY <1>1, <1>2, <2>1, SMTT(30)
  <2>4. /\ r \in Seq(Entry) /\ Len(r) = Len(a) + Len(b)
        /\ \A j \in 1 .. Len(a) : r[j] = a[j]
        /\ \A j \in 1 .. Len(b) : r[Len(a) + j] = b[j]
    <3>1. a \in Seq(Entry) /\ b \in Seq(Entry)
      BY <2>3
    <3>2. /\ a \o b \in Seq(Entry) /\ Len(a \o b) = Len(a) + Len(b)
          /\ \A j \in 1 .. Len(a) : (a \o b)[j] = a[j]
          /\ \A j \in 1 .. Len(b) : (a \o b)[Len(a) + j] = b[j]
      BY <3>1, Joined
    <3> QED
      BY <2>2, <3>2, Zenon
  <2>5. /\ \A j \in 1 .. p - 1 : a[j] = c[j]
        /\ \A j \in 1 .. Len(c) - p : b[j] = c[p + j]
    <3>1. \A j \in 1 .. p - 1 : a[j] = c[j]
      BY <1>1, <2>1
    <3>2. ASSUME NEW j \in 1 .. Len(c) - p PROVE b[j] = c[p + j]
      <4>1. b = SubSeq(c, p + 1, Len(c))
        BY <2>1
      <4>2. SubSeq(c, p + 1, Len(c))[j] = c[p + j]
        BY <1>2
      <4> QED
        BY <4>1, <4>2
    <3> QED
      BY <3>1, <3>2
  <2>6. ASSUME NEW j \in 1 .. Len(c) - 1 PROVE r[j] = c[from(j)]
    <3>1. CASE j < p
      <4>1. j \in 1 .. p - 1 /\ j \in 1 .. Len(a)
        BY <2>3, <3>1
      <4> QED
        BY <2>4, <2>5, <3>1, <4>1
    <3>2. CASE ~(j < p)
      <4>1. PICK l : l = j - (p - 1)
        OBVIOUS
      <4>2. l \in 1 .. Len(c) - p /\ Len(a) + l = j /\ p + l = j + 1
        BY <2>3, <3>2, <4>1, SMTT(30)
      <4> QED
        BY <2>3, <2>4, <2>5, <3>2, <4>2
    <3> QED
      BY <3>1, <3>2
  <2> QED
    BY <2>3, <2>4, <2>6
<1>4. /\ DOMAIN r = 1 .. Len(c) - 1 /\ DOMAIN c = 1 .. Len(c)
      /\ \A j \in DOMAIN r : from(j) \in DOMAIN c /\ from(j) # p
      /\ \A j, l \in DOMAIN r : from(j) = from(l) => j = l
      /\ \A l \in DOMAIN c : l # p => \E j \in DOMAIN r : from(j) = l
  <2>1. DOMAIN r = 1 .. Len(c) - 1 /\ DOMAIN c = 1 .. Len(c) /\ Len(c) \in Nat
    BY <1>3
  <2>2. ASSUME NEW l \in DOMAIN c, l # p PROVE \E j \in DOMAIN r : from(j) = l
    <3>1. CASE l < p
      BY <2>1, <2>2, <3>1
    <3>2. CASE l > p
      <4>1. l - 1 \in DOMAIN r /\ from(l - 1) = l
        BY <2>1, <2>2, <3>2
      <4> QED
        BY <4>1
    <3> QED
      BY <2>1, <2>2, <3>1, <3>2
  <2> QED
    BY <2>1, <2>2, SMTT(30)
<1> HIDE DEF r, from
<1>5. Proper(r, n, i)
  <2>1. \A j \in DOMAIN r : r[j] = c[from(j)] /\ from(j) \in DOMAIN c
    BY <1>3, <1>4
  <2>2. ASSUME NEW j \in DOMAIN r PROVE r[j].h = Hash[r[j].k] /\ indexFor(n, r[j].h) = i
    BY <2>1 DEF Proper
  <2>3. ASSUME NEW j \in DOMAIN r, NEW l \in DOMAIN r, r[j].k = r[l].k PROVE j = l
    <3>1. from(j) = from(l)
      BY <2>1, <2>3 DEF Proper
    <3> QED
      BY <1>4, <3>1
  <2> QED
    BY <2>2, <2>3 DEF Proper
<1>6. ToSet(r) = ToSet(c) \ {c[p]}
  <2>1. ToSet(r) \subseteq ToSet(c) \ {c[p]}
    BY <1>3, <1>4, SMTT(30) DEF ToSet, Proper
  <2>2. ASSUME NEW x \in ToSet(c), x # c[p] PROVE x \in ToSet(r)
    <3>1. PICK l \in DOMAIN c : x = c[l]
      BY DEF ToSet
    <3> QED
      BY <1>3, <1>4, <2>2, <3>1 DEF ToSet
  <2> QED
    BY <2>1, <2>2
<1> QED
  BY <1>3, <1>5, <1>6 DEF r

\* A new entry of a new key: one entry more.
LEMMA LinkedGood ==
  ASSUME NEW m \in Nat, NEW t, Good(t, m), NEW e \in Entry, e.h = Hash[e.k],
         e.k \notin KeysOf(Entries(t))
  PROVE  Good(Linked(t, e), m) /\ Entries(Linked(t, e)) = Entries(t) \cup {e}
<1> DEFINE i == indexFor(t.size, e.h)
           u == Linked(t, e)
           c == <<e>> \o t.table[i]
<1>1. i \in 0 .. t.size - 1
  BY GoodTypes DEF indexFor, Entry
<1>2. t.table[i] \in Seq(Entry) /\ Proper(t.table[i], t.size, i)
      /\ i \in 0 .. m - 1 /\ ToSet(t.table[i]) \subseteq Entries(t)
  BY <1>1, GoodTypes, EntriesIn
<1> HIDE DEF c
<1>3. u \in Tables(m) /\ u.table = [t.table EXCEPT ![i] = c]
      /\ u.size = t.size /\ u.primeindex = t.primeindex /\ u.loadlimit = t.loadlimit
      /\ u.entrycount = t.entrycount + 1
  <2>1. t \in Tables(m) /\ t.table \in [0 .. m - 1 -> Seq(Entry)]
    BY GoodTypes
  <2>2. u = [t EXCEPT !.table = [t.table EXCEPT ![i] = c], !.entrycount = t.entrycount + 1,
                      !.noccupied = IF t.table[i] = <<>> THEN t.noccupied + 1 ELSE t.noccupied]
    BY <2>1 DEF Linked, Tables, c
  <2>3. c \in Seq(Entry)
    BY <1>2 DEF c
  <2>4. [t.table EXCEPT ![i] = c] \in [0 .. m - 1 -> Seq(Entry)]
    BY <2>1, <2>3
  <2> HIDE DEF u
  <2> QED
    <3>1. (IF t.table[i] = <<>> THEN t.noccupied + 1 ELSE t.noccupied) \in Nat
          /\ t.entrycount + 1 \in Nat
      BY GoodTypes, SMTT(30)
    <3> QED
      BY <2>1, <2>2, <2>4, <3>1 DEF Tables
<1>4. /\ c \in Seq(Entry) /\ Len(c) = Len(t.table[i]) + 1 /\ c[1] = e
      /\ \A j \in DOMAIN t.table[i] : j + 1 \in DOMAIN c /\ c[j + 1] = t.table[i][j]
      /\ \A j \in DOMAIN c : j # 1 => j - 1 \in DOMAIN t.table[i] /\ c[j] = t.table[i][j - 1]
  <2>1. PICK d \in Seq(Entry) : d = t.table[i]
    BY <1>2
  <2>2. c = <<e>> \o d
    BY <2>1 DEF c
  <2>3. c \in Seq(Entry) /\ Len(c) = Len(d) + 1
    BY <2>2
  <2>4. \A j \in 1 .. Len(d) + 1 : c[j] = IF j = 1 THEN e ELSE d[j - 1]
    BY <2>2
  <2>5. DOMAIN c = 1 .. Len(d) + 1 /\ DOMAIN d = 1 .. Len(d) /\ Len(d) \in Nat
    BY <2>3
  <2> QED
    BY <2>1, <2>3, <2>4, <2>5, SMTT(30)
<1>5. ToSet(c) = ToSet(t.table[i]) \cup {e}
  <2>1. ToSet(c) \subseteq ToSet(t.table[i]) \cup {e}
    <3> SUFFICES ASSUME NEW x \in ToSet(c), x # e PROVE x \in ToSet(t.table[i])
      OBVIOUS
    <3>1. PICK j \in DOMAIN c : x = c[j]
      BY DEF ToSet
    <3>2. j - 1 \in DOMAIN t.table[i] /\ x = t.table[i][j - 1]
      BY <1>4, <3>1
    <3> QED
      BY <3>2 DEF ToSet
  <2>2. 1 \in DOMAIN c
    BY <1>2, <1>4
  <2>3. ToSet(t.table[i]) \subseteq ToSet(c) /\ e \in ToSet(c)
    BY <1>4, <2>2 DEF ToSet
  <2> QED
    BY <2>1, <2>3
<1>6. Proper(c, t.size, i)
  <2>1. ASSUME NEW j \in DOMAIN c PROVE c[j].h = Hash[c[j].k] /\ indexFor(t.size, c[j].h) = i
    <3>1. CASE j = 1
      BY <1>4, <3>1, SMTT(30)
    <3>2. CASE j # 1
      <4>1. j - 1 \in DOMAIN t.table[i] /\ c[j] = t.table[i][j - 1]
        BY <1>4, <3>2
      <4> QED
        BY <1>2, <4>1 DEF Proper
    <3> QED
      BY <3>1, <3>2
  <2>2. ASSUME NEW j \in DOMAIN t.table[i] PROVE t.table[i][j].k # e.k
    BY <1>2 DEF ToSet, KeysOf
  <2>3. ASSUME NEW j \in DOMAIN c, NEW l \in DOMAIN c, c[j].k = c[l].k PROVE j = l
    <3>1. j \in Nat /\ l \in Nat
      BY <1>4
    <3>2. CASE j = 1 \/ l = 1
      BY <1>4, <2>2, <2>3, <3>2, SMTT(30)
    <3>3. CASE j # 1 /\ l # 1
      <4>1. /\ j - 1 \in DOMAIN t.table[i] /\ l - 1 \in DOMAIN t.table[i]
            /\ t.table[i][j - 1].k = t.table[i][l - 1].k
        BY <1>4, <2>3, <3>3
      <4>2. j - 1 = l - 1
        BY <1>2, <4>1 DEF Proper
      <4> QED
        BY <3>1, <4>2
    <3> QED
      BY <3>2, <3>3
  <2> QED
    BY <2>1, <2>3 DEF Proper
<1> HIDE DEF i, u
<1>7. Entries(u) = (Entries(t) \ ToSet(t.table[i])) \cup ToSet(c)
  BY <1>1, <1>3, <1>4, <1>6, SlotChanged
<1>8. Entries(u) = Entries(t) \cup {e}
  BY <1>2, <1>5, <1>7
<1>9. Cardinality(KeysOf(Entries(u))) = u.entrycount
  <2>1. KeysOf(Entries(u)) = KeysOf(Entries(t)) \cup {e.k}
    BY <1>8 DEF KeysOf
  <2>2. IsFiniteSet(KeysOf(Entries(t)))
    BY CountSpots
  <2>3. Cardinality(KeysOf(Entries(t)) \cup {e.k}) = Cardinality(KeysOf(Entries(t))) + 1
    BY <2>2, FS_AddElement
  <2> QED
    BY <1>3, <2>1, <2>3 DEF Good
<1>10. Good(u, m)
  BY <1>1, <1>3, <1>4, <1>6, <1>9, SlotChanged
<1> QED
  BY <1>8, <1>10 DEF u, i

\* Another entry of the same key in the place of one: one entry instead of another.
LEMMA ChangedGood ==
  ASSUME NEW m \in Nat, NEW t, Good(t, m), NEW i \in 0 .. t.size - 1,
         NEW p \in DOMAIN t.table[i], NEW e \in Entry,
         e.k = t.table[i][p].k, e.h = t.table[i][p].h
  PROVE  LET u == [t EXCEPT !.table[i][p] = e]
         IN  Good(u, m) /\ Entries(u) = (Entries(t) \ {t.table[i][p]}) \cup {e}
<1> DEFINE u == [t EXCEPT !.table[i][p] = e]
           c == [t.table[i] EXCEPT ![p] = e]
<1>1. t.table[i] \in Seq(Entry) /\ Proper(t.table[i], t.size, i)
      /\ i \in 0 .. m - 1 /\ ToSet(t.table[i]) \subseteq Entries(t)
  BY GoodTypes, EntriesIn
<1>2. /\ c \in Seq(Entry) /\ DOMAIN c = DOMAIN t.table[i]
      /\ \A j \in DOMAIN c : c[j] = IF j = p THEN e ELSE t.table[i][j]
  BY <1>1
<1> HIDE DEF c
<1>3. u \in Tables(m) /\ u.table = [t.table EXCEPT ![i] = c]
      /\ u.size = t.size /\ u.primeindex = t.primeindex /\ u.loadlimit = t.loadlimit
      /\ u.entrycount = t.entrycount
  <2>1. t \in Tables(m) /\ t.table \in [0 .. m - 1 -> Seq(Entry)]
    BY GoodTypes
  <2>2. u = [t EXCEPT !.table = [t.table EXCEPT ![i] = c]]
    BY <2>1 DEF Tables, c
  <2>3. [t.table EXCEPT ![i] = c] \in [0 .. m - 1 -> Seq(Entry)]
    BY <1>2, <2>1
  <2> HIDE DEF u
  <2> QED
    BY <2>1, <2>2, <2>3 DEF Tables
<1> HIDE DEF u
<1>4. Proper(c, t.size, i)
  <2>1. \A j \in DOMAIN c : c[j].k = t.table[i][j].k /\ c[j].h = t.table[i][j].h
    BY <1>2
  <2> QED
    BY <1>1, <1>2, <2>1, SMTT(30) DEF Proper
<1>5. ToSet(c) = (ToSet(t.table[i]) \ {t.table[i][p]}) \cup {e}
  BY <1>1, <1>2 DEF ToSet, Proper
<1>6. t.table[i][p] \in ToSet(t.table[i])
  BY DEF ToSet
<1>7. Entries(u) = (Entries(t) \ ToSet(t.table[i])) \cup ToSet(c)
  BY <1>2, <1>3, <1>4, SlotChanged
<1>8. Entries(u) = (Entries(t) \ {t.table[i][p]}) \cup {e}
  BY <1>1, <1>5, <1>6, <1>7
<1>9. KeysOf(Entries(u)) = KeysOf(Entries(t))
  BY <1>1, <1>6, <1>8 DEF KeysOf
<1>10. Good(u, m)
  BY <1>2, <1>3, <1>4, <1>9, SlotChanged DEF Good
<1> QED
  BY <1>8, <1>10 DEF u

Removed(t, i, p) == [t EXCEPT !.table[i] = RemoveAt(@, p), !.entrycount = @ - 1]

\* A place less: one entry less.
LEMMA RemovedGood ==
  ASSUME NEW m \in Nat, NEW t, Good(t, m), NEW i \in 0 .. t.size - 1,
         NEW p \in DOMAIN t.table[i]
  PROVE  /\ Good(Removed(t, i, p), m)
         /\ Entries(Removed(t, i, p)) = Entries(t) \ {t.table[i][p]}
<1> DEFINE u == Removed(t, i, p)
           c == RemoveAt(t.table[i], p)
           old == t.table[i][p]
<1>1. t.table[i] \in Seq(Entry) /\ Proper(t.table[i], t.size, i)
      /\ i \in 0 .. m - 1 /\ ToSet(t.table[i]) \subseteq Entries(t)
  BY GoodTypes, EntriesIn
<1>2. old \in ToSet(t.table[i])
  BY DEF ToSet
<1>3. c \in Seq(Entry) /\ Proper(c, t.size, i) /\ ToSet(c) = ToSet(t.table[i]) \ {old}
  BY <1>1, RemovedFromChain
<1> HIDE DEF old
<1>4. KeysOf(Entries(t) \ {old}) = KeysOf(Entries(t)) \ {old.k}
  BY <1>1, <1>2, OneSpot DEF KeysOf
<1>5. Cardinality(KeysOf(Entries(t) \ {old})) = t.entrycount - 1
  <2>1. old.k \in KeysOf(Entries(t))
    BY <1>1, <1>2 DEF KeysOf
  <2>2. IsFiniteSet(KeysOf(Entries(t)))
    BY CountSpots
  <2>3. Cardinality(KeysOf(Entries(t)) \ {old.k}) = Cardinality(KeysOf(Entries(t))) - 1
    BY <2>1, <2>2, FS_RemoveElement
  <2> QED
    BY <1>4, <2>3 DEF Good
<1>6. t.entrycount - 1 \in Nat
  <2>1. IsFiniteSet(KeysOf(Entries(t) \ {old}))
    <3>1. IsFiniteSet(KeysOf(Entries(t)))
      BY CountSpots
    <3>2. IsFiniteSet(KeysOf(Entries(t)) \ {old.k})
      BY <3>1, FS_RemoveElement
    <3> QED
      BY <1>4, <3>2
  <2> QED
    BY <1>5, <2>1, FS_CardinalityType
<1> HIDE DEF c
<1>7. u \in Tables(m) /\ u.table = [t.table EXCEPT ![i] = c]
      /\ u.size = t.size /\ u.primeindex = t.primeindex /\ u.loadlimit = t.loadlimit
      /\ u.entrycount = t.entrycount - 1
  <2>1. t \in Tables(m) /\ t.table \in [0 .. m - 1 -> Seq(Entry)]
    BY GoodTypes
  <2>2. u = [t EXCEPT !.table = [t.table EXCEPT ![i] = c], !.entrycount = t.entrycount - 1]
    BY <2>1 DEF Tables, c, Removed
  <2>3. [t.table EXCEPT ![i] = c] \in [0 .. m - 1 -> Seq(Entry)]
    BY <1>3, <2>1
  <2> HIDE DEF u
  <2> QED
    BY <1>6, <2>1, <2>2, <2>3 DEF Tables
<1> HIDE DEF u
<1>8. Entries(u) = (Entries(t) \ ToSet(t.table[i])) \cup ToSet(c)
  BY <1>3, <1>7, SlotChanged
<1>9. Entries(u) = Entries(t) \ {old}
  BY <1>1, <1>2, <1>3, <1>8
<1>10. Good(u, m)
  BY <1>3, <1>5, <1>7, <1>9, SlotChanged
<1> QED
  BY <1>9, <1>10 DEF u, old
-----------------------------------------------------------------------------
(* Tables without entries. *)

\* A table whose chains are empty is good if its sizes are right.
LEMMA EmptyGood ==
  ASSUME NEW m \in Nat, NEW t \in Tables(m), t.size <= m,
         t.size = Primes[IF t.primeindex = 0 THEN 1 ELSE t.primeindex],
         t.loadlimit = LoadLimit(t.size), t.entrycount = 0,
         \A i \in 0 .. m - 1 : t.table[i] = <<>>
  PROVE  Good(t, m) /\ Entries(t) = {}
<1>1. \A i \in 0 .. t.size - 1 : t.table[i] = <<>>
  BY DEF Tables
<1>2. \A i \in 0 .. t.size - 1 : ToSet(t.table[i]) = {}
  BY <1>1 DEF ToSet
<1>3. Entries(t) = {}
  BY <1>2, EntriesIn
<1>4. KeysOf(Entries(t)) = {}
  BY <1>3 DEF KeysOf
<1>5. t.entrycount = Cardinality(KeysOf(Entries(t)))
  BY <1>4, FS_EmptySet
<1>6. \A i \in 0 .. m - 1 : Proper(t.table[i], t.size, i)
  BY DEF Proper
<1> QED
  BY <1>3, <1>5, <1>6 DEF Good

\* The sizes are numbers, and the first is the least.
LEMMA Sizes ==
  ASSUME NEW i \in 1 .. Len(Primes)
  PROVE  /\ Primes[i] \in Nat \ {0} /\ Primes[1] \in Nat \ {0} /\ Primes[1] <= Primes[i]
         /\ LoadLimit(Primes[i]) \in Nat
<1>1. Primes[i] \in Nat \ {0} /\ Primes[1] \in Nat \ {0} /\ Primes[1] <= Primes[i]
  BY PrimesAssumption
<1> QED
  BY <1>1 DEF LoadLimit

\* A new table is good.
LEMMA CreatedGood == Good(Created, Primes[1]) /\ Entries(Created) = {}
<1>1. Primes[1] \in Nat \ {0} /\ LoadLimit(Primes[1]) \in Nat /\ Len(Primes) \in Nat
      /\ Len(Primes) > 1
  BY Sizes, PrimesAssumption
<1>2. Created \in Tables(Primes[1])
  BY <1>1 DEF Created, Tables
<1>3. /\ Created.size = Primes[1] /\ Created.primeindex = 1
      /\ Created.loadlimit = LoadLimit(Primes[1]) /\ Created.entrycount = 0
      /\ \A i \in 0 .. Primes[1] - 1 : Created.table[i] = <<>>
  BY DEF Created
<1> QED
  BY <1>1, <1>2, <1>3, EmptyGood

\* A table may be emptied, and resized then: the array is at least as long as the
\* least size.
LEMMA EmptiedGood ==
  ASSUME NEW m \in Nat, Good(h, m)
  PROVE  /\ Good(MaybeResized(Emptied), m) /\ Entries(MaybeResized(Emptied)) = {}
         /\ LET t == MaybeResized([Emptied EXCEPT !.size = 0, !.noccupied = 0])
            IN  Good(t, m) /\ Entries(t) = {}
<1> DEFINE e == Emptied
           z == [Emptied EXCEPT !.size = 0, !.noccupied = 0]
<1>1. /\ h \in Tables(m) /\ h.table \in [0 .. m - 1 -> Seq(Entry)]
      /\ h.size \in Nat \ {0} /\ h.size <= m
      /\ \A i \in 0 .. m - 1 : ~(i < h.size) => h.table[i] = <<>>
      /\ h.size = Primes[IF h.primeindex = 0 THEN 1 ELSE h.primeindex]
      /\ h.loadlimit = LoadLimit(h.size) /\ h.primeindex \in 0 .. Len(Primes) - 1
  BY GoodTypes, SMTT(30) DEF Good
<1>2. Primes[1] \in Nat \ {0} /\ Primes[1] <= m /\ LoadLimit(Primes[1]) \in Nat
      /\ Len(Primes) \in Nat /\ Len(Primes) > 1
  <2>1. Len(Primes) \in Nat /\ Len(Primes) > 1
    BY PrimesAssumption
  <2>2. Primes[1] <= h.size /\ Primes[1] \in Nat \ {0}
    <3>1. PICK i \in 1 .. Len(Primes) : h.size = Primes[i]
      <4>1. (IF h.primeindex = 0 THEN 1 ELSE h.primeindex) \in 1 .. Len(Primes)
        BY <1>1, <2>1
      <4> QED
        BY <1>1, <4>1
    <3> QED
      BY <3>1, Sizes
  <2>3. LoadLimit(Primes[1]) \in Nat
    BY <2>1, Sizes
  <2> QED
    BY <1>1, <2>1, <2>2, <2>3
<1>3. PICK a : a = [i \in DOMAIN h.table |-> IF i < h.size THEN <<>> ELSE h.table[i]]
  OBVIOUS
<1>4. a \in [0 .. m - 1 -> Seq(Entry)] /\ \A i \in 0 .. m - 1 : a[i] = <<>>
  BY <1>1, <1>3
<1>5. /\ e = [h EXCEPT !.table = a, !.entrycount = 0]
      /\ z = [h EXCEPT !.table = a, !.entrycount = 0, !.size = 0, !.noccupied = 0]
  BY <1>1, <1>3 DEF Emptied, Tables
<1> HIDE DEF e, z
<1>6. e \in Tables(m) /\ Good(e, m) /\ Entries(e) = {}
  <2>1. e \in Tables(m) /\ e.size = h.size /\ e.primeindex = h.primeindex
        /\ e.loadlimit = h.loadlimit /\ e.entrycount = 0 /\ e.table = a
    BY <1>1, <1>4, <1>5 DEF Tables
  <2> QED
    BY <1>1, <1>4, <2>1, EmptyGood
<1>7. ASSUME NEW t, t \in {e, z} PROVE Good(Resized(t), m) /\ Entries(Resized(t)) = {}
  <2> DEFINE u == Resized(t)
  <2>1. u = [t EXCEPT !.size = Primes[1], !.primeindex = 0,
                      !.loadlimit = LoadLimit(Primes[1]), !.noccupied = 0]
    <3>1. h.primeindex # Len(Primes)
      BY <1>1, <1>2
    <3>2. t.primeindex = h.primeindex
      BY <1>1, <1>5, <1>7 DEF Tables
    <3> QED
      BY <3>1, <3>2 DEF Resized
  <2>2. u = [h EXCEPT !.table = a, !.entrycount = 0, !.size = Primes[1], !.primeindex = 0,
                      !.loadlimit = LoadLimit(Primes[1]), !.noccupied = 0]
    BY <1>1, <1>5, <1>7, <2>1 DEF Tables
  <2> HIDE DEF u
  <2>3. u \in Tables(m) /\ u.size = Primes[1] /\ u.primeindex = 0
        /\ u.loadlimit = LoadLimit(Primes[1]) /\ u.entrycount = 0 /\ u.table = a
    <3>1. /\ u.size = Primes[1] /\ u.primeindex = 0 /\ u.loadlimit = LoadLimit(Primes[1])
          /\ u.entrycount = 0 /\ u.table = a /\ u.noccupied = 0
      BY <1>1, <2>2 DEF Tables
    <3>2. u = [table |-> u.table, size |-> u.size, primeindex |-> u.primeindex,
               loadlimit |-> u.loadlimit, entrycount |-> u.entrycount,
               noccupied |-> u.noccupied]
      BY <1>1, <2>2 DEF Tables
    <3>3. 0 \in 0 .. Len(Primes) - 1 /\ 0 \in Nat
      BY <1>2
    <3> QED
      BY <1>2, <1>4, <3>1, <3>2, <3>3 DEF Tables
  <2>4. Good(u, m) /\ Entries(u) = {}
    BY <1>2, <1>4, <2>3, EmptyGood
  <2> QED
    BY <2>4 DEF u
<1>8. MaybeResized(e) \in {e, Resized(e)}
  BY DEF MaybeResized
<1>9. MaybeResized(z) = Resized(z)
  <2>1. z.size = 0 /\ z.noccupied = 0
    BY <1>1, <1>5 DEF Tables
  <2> QED
    BY <2>1 DEF MaybeResized
<1>10. Good(MaybeResized(e), m) /\ Entries(MaybeResized(e)) = {}
  BY <1>6, <1>7, <1>8
<1>11. Good(MaybeResized(z), m) /\ Entries(MaybeResized(z)) = {}
  BY <1>7, <1>9
<1> QED
  BY <1>10, <1>11 DEF e, z
-----------------------------------------------------------------------------
(* Growing. *)

\* Spots that are pairs of numbers come before one another in a linear order.
LEMMA BeforeOrder ==
  ASSUME NEW s, NEW u, NEW w, s = <<s[1], s[2]>>, u = <<u[1], u[2]>>, w = <<w[1], w[2]>>,
         s[1] \in Int, s[2] \in Int, u[1] \in Int, u[2] \in Int, w[1] \in Int, w[2] \in Int
  PROVE  /\ ~Before(s, s)
         /\ s # u => Before(s, u) \/ Before(u, s)
         /\ Before(s, u) /\ Before(u, w) => Before(s, w)
BY DEF Before

\* Spots as pairs of numbers.
Pairs(M) == \A s \in M : s = <<s[1], s[2]>> /\ s[1] \in Int /\ s[2] \in Int

\* The chain prepended from the spots M takes each of them once, in this order.
Takes(t, M, from) ==
  /\ Prepended(t, M) = [j \in 1 .. Cardinality(M) |-> At(t, from[j])]
  /\ \A j, l \in 1 .. Cardinality(M) : from[j] = from[l] => j = l
  /\ \A s \in M : \E j \in 1 .. Cardinality(M) : from[j] = s

(***************************************************************************)
(* Prepending takes every one of the spots once: the number of spots       *)
(* before a spot is another for each and less than the number of spots, so *)
(* each number below is that of one.                                       *)
(***************************************************************************)
LEMMA PrependsAll ==
  ASSUME NEW t, NEW M \in SUBSET Spots(t), IsFiniteSet(M), Pairs(M)
  PROVE  \E from \in [1 .. Cardinality(M) -> M] : Takes(t, M, from)
<1> DEFINE last(s) == {u \in M : Before(s, u)}
           rank == [s \in M |-> Cardinality(last(s))]
           from == [j \in 1 .. Cardinality(M) |->
                      CHOOSE s \in M : Cardinality({u \in M : Before(s, u)}) = j - 1]
<1> USE DEF Pairs
<1>0. Cardinality(M) \in Nat
  BY FS_CardinalityType
<1>1. ASSUME NEW s \in M
      PROVE  IsFiniteSet(last(s)) /\ Cardinality(last(s)) \in 0 .. Cardinality(M) - 1
  <2>1. last(s) \in SUBSET M /\ s \notin last(s)
    BY BeforeOrder
  <2>2. IsFiniteSet(last(s)) /\ Cardinality(last(s)) <= Cardinality(M)
    BY <2>1, FS_Subset
  <2>3. Cardinality(last(s)) # Cardinality(M)
    BY <2>1, FS_Subset
  <2>4. Cardinality(last(s)) \in Nat
    BY <2>2, FS_CardinalityType
  <2> QED
    BY <1>0, <2>2, <2>3, <2>4
<1>2. ASSUME NEW s \in M, NEW u \in M, Before(s, u) PROVE rank[s] # rank[u]
  <2>1. last(u) \in SUBSET last(s) /\ u \in last(s) /\ u \notin last(u)
    BY <1>2, BeforeOrder
  <2>2. IsFiniteSet(last(s))
    BY <1>1
  <2>3. Cardinality(last(s)) # Cardinality(last(u))
    BY <2>1, <2>2, FS_Subset
  <2> QED
    BY <2>3
<1>3. rank \in Injection(M, 0 .. Cardinality(M) - 1)
  <2>1. rank \in [M -> 0 .. Cardinality(M) - 1]
    BY <1>1
  <2>2. ASSUME NEW s \in M, NEW u \in M, rank[s] = rank[u] PROVE s = u
    BY <1>2, <2>2, BeforeOrder
  <2> QED
    BY <2>1, <2>2 DEF Injection, IsInjective
<1>4. rank \in Surjection(M, 0 .. Cardinality(M) - 1)
  <2>1. IsFiniteSet(0 .. Cardinality(M) - 1)
        /\ Cardinality(0 .. Cardinality(M) - 1) = Cardinality(M)
    <3>1. PICK n \in Nat : n = Cardinality(M)
      BY <1>0
    <3>2. /\ IsFiniteSet(0 .. n - 1)
          /\ Cardinality(0 .. n - 1) = IF 0 > n - 1 THEN 0 ELSE n - 1 - 0 + 1
      <4>1. 0 \in Int /\ n - 1 \in Int
        OBVIOUS
      <4> QED
        BY <4>1, FS_Interval, Zenon
    <3>3. (IF 0 > n - 1 THEN 0 ELSE n - 1 - 0 + 1) = n
      OBVIOUS
    <3> QED
      BY <3>1, <3>2, <3>3
  <2> QED
    BY <1>3, <2>1, FS_Injection
<1>5. Prepended(t, M) = [j \in 1 .. Cardinality(M) |-> At(t, from[j])]
  BY DEF Prepended
<1>6. ASSUME NEW j \in 1 .. Cardinality(M)
      PROVE  from[j] \in M /\ rank[from[j]] = j - 1
  <2>1. j - 1 \in 0 .. Cardinality(M) - 1
    BY <1>0
  <2>2. PICK s \in M : rank[s] = j - 1
    BY <1>4, <2>1 DEF Surjection
  <2>3. Cardinality({u \in M : Before(s, u)}) = j - 1
    BY <2>2
  <2>4. from[j] = CHOOSE w \in M : Cardinality({u \in M : Before(w, u)}) = j - 1
    OBVIOUS
  <2> HIDE DEF from
  <2>5. from[j] \in M /\ Cardinality({u \in M : Before(from[j], u)}) = j - 1
    BY <2>3, <2>4
  <2> QED
    BY <2>5
<1> HIDE DEF rank
<1>7. \A j, l \in 1 .. Cardinality(M) : from[j] = from[l] => j = l
  <2> SUFFICES ASSUME NEW j \in 1 .. Cardinality(M), NEW l \in 1 .. Cardinality(M),
                      from[j] = from[l]
               PROVE  j = l
    OBVIOUS
  <2> HIDE DEF from
  <2>1. j - 1 = l - 1
    BY <1>6
  <2> QED
    BY <1>0, <2>1
<1>8. ASSUME NEW s \in M PROVE \E j \in 1 .. Cardinality(M) : from[j] = s
  <2>1. rank[s] \in 0 .. Cardinality(M) - 1
    BY <1>3 DEF Injection
  <2>2. PICK j \in 1 .. Cardinality(M) : rank[s] = j - 1
    <3>1. rank[s] + 1 \in 1 .. Cardinality(M) /\ rank[s] = (rank[s] + 1) - 1
      BY <1>0, <2>1
    <3> QED
      BY <3>1
  <2>3. from[j] \in M /\ rank[from[j]] = rank[s]
    BY <1>6, <2>2
  <2>4. from[j] = s
    BY <1>3, <2>3 DEF Injection, IsInjective
  <2> QED
    BY <2>4
<1>9. from \in [1 .. Cardinality(M) -> M]
  BY <1>6
<1> HIDE DEF from
<1> QED
  BY <1>5, <1>7, <1>8, <1>9 DEF Takes

\* A slot of the larger array gets the entries that belong there, in a proper chain.
LEMMA MovedChain ==
  ASSUME NEW m \in Nat, NEW t, Good(t, m), NEW n \in Nat \ {0}, NEW i \in 0 .. n - 1
  PROVE  LET c == Prepended(t, Moved(t, n, i))
         IN  /\ c \in Seq(Entry) /\ Proper(c, n, i)
             /\ ToSet(c) = {e \in Entries(t) : indexFor(n, e.h) = i}
<1> DEFINE M == Moved(t, n, i)
           c == Prepended(t, M)
<1>1. M \in SUBSET Spots(t) /\ IsFiniteSet(M)
  BY CountSpots, FS_Subset DEF Moved
<1>2. Pairs(M)
  <2>1. ASSUME NEW s \in M PROVE s = <<s[1], s[2]>> /\ s[1] \in Int /\ s[2] \in Int
    <3>1. s = <<s[1], s[2]>> /\ s[1] \in 0 .. t.size - 1 /\ s[2] \in DOMAIN t.table[s[1]]
      BY <1>1, SpotsIn
    <3>2. t.table[s[1]] \in Seq(Entry)
      BY <3>1, GoodTypes
    <3> QED
      BY <3>1, <3>2
  <2> QED
    BY <2>1 DEF Pairs
<1>3. \A s \in M : At(t, s) \in Entry /\ At(t, s).h = Hash[At(t, s).k]
                   /\ indexFor(n, At(t, s).h) = i
  BY <1>1, OneSpot DEF Moved
<1>4. Cardinality(M) \in Nat
  BY <1>1, FS_CardinalityType
<1> HIDE DEF M, c
<1>5. PICK from \in [1 .. Cardinality(M) -> M] :
        /\ c = [j \in 1 .. Cardinality(M) |-> At(t, from[j])]
        /\ \A j, l \in 1 .. Cardinality(M) : from[j] = from[l] => j = l
        /\ \A s \in M : \E j \in 1 .. Cardinality(M) : from[j] = s
  <2>1. \E from \in [1 .. Cardinality(M) -> M] : Takes(t, M, from)
    <3>1. M \in SUBSET Spots(t)
      BY <1>1
    <3>2. IsFiniteSet(M)
      BY <1>1
    <3> QED
      BY <1>2, <3>1, <3>2, PrependsAll
  <2> QED
    BY <2>1 DEF c, Takes
<1>6. c \in Seq(Entry) /\ DOMAIN c = 1 .. Cardinality(M)
  BY <1>3, <1>4, <1>5
<1>7. Proper(c, n, i)
  <2>1. ASSUME NEW j \in DOMAIN c
        PROVE  c[j].h = Hash[c[j].k] /\ indexFor(n, c[j].h) = i
    BY <1>3, <1>5, <1>6
  <2>2. ASSUME NEW j \in DOMAIN c, NEW l \in DOMAIN c, c[j].k = c[l].k PROVE j = l
    <3>1. from[j] \in Spots(t) /\ from[l] \in Spots(t)
          /\ At(t, from[j]).k = At(t, from[l]).k
      BY <1>1, <1>5, <1>6, <2>2
    <3>2. from[j] = from[l]
      BY <3>1, OneSpot
    <3> QED
      BY <1>5, <1>6, <3>2
  <2> QED
    BY <2>1, <2>2 DEF Proper
<1>8. ToSet(c) = {At(t, s) : s \in M}
  BY <1>5, <1>6 DEF ToSet
<1>9. {At(t, s) : s \in M} = {e \in Entries(t) : indexFor(n, e.h) = i}
  BY DEF M, Moved, Entries
<1> QED
  BY <1>6, <1>7, <1>8, <1>9 DEF c, M

\* A crowded table that lacks a key can grow, and stays clear of the last prime.
LEMMA CrowdedGrows ==
  ASSUME NEW m \in Nat, Good(h, m), NEW k \in Keys, k \notin KeysOf(Entries(h)), Crowded
  PROVE  h.primeindex < Len(Primes) - 1
<1>1. h.entrycount + 1 <= Cardinality(Keys)
  <2>1. IsFiniteSet(KeysOf(Entries(h))) /\ KeysOf(Entries(h)) \subseteq Keys
    BY CountSpots
  <2>2. Cardinality(KeysOf(Entries(h)) \cup {k}) = h.entrycount + 1
    BY <2>1, FS_AddElement DEF Good
  <2>3. KeysOf(Entries(h)) \cup {k} \in SUBSET Keys
    BY <2>1
  <2>4. IsFiniteSet(Keys)
    BY PrimesAssumption
  <2>5. Cardinality(KeysOf(Entries(h)) \cup {k}) <= Cardinality(Keys)
    BY <2>3, <2>4, FS_Subset
  <2> QED
    BY <2>2, <2>5
<1>2. /\ h.entrycount \in Nat /\ h.loadlimit \in Nat /\ h.primeindex \in 0 .. Len(Primes) - 1
      /\ h.loadlimit = LoadLimit(Primes[IF h.primeindex = 0 THEN 1 ELSE h.primeindex])
  BY GoodTypes DEF Good
<1>3. Len(Primes) \in Nat /\ Len(Primes) > 1
      /\ Cardinality(Keys) <= LoadLimit(Primes[Len(Primes) - 1])
  BY PrimesAssumption
<1>4. Cardinality(Keys) \in Nat
  BY PrimesAssumption, FS_CardinalityType
<1> SUFFICES ASSUME h.primeindex = Len(Primes) - 1 PROVE FALSE
  BY <1>2, <1>3
<1>5. h.loadlimit = LoadLimit(Primes[Len(Primes) - 1])
  BY <1>2, <1>3
<1>6. h.entrycount + 1 > h.loadlimit
  BY DEF Crowded
<1> QED
  BY <1>1, <1>2, <1>3, <1>4, <1>5, <1>6

\* A larger table has the same entries.
LEMMA ExpandedGood ==
  ASSUME NEW m \in Nat, Good(h, m), h.primeindex < Len(Primes) - 1
  PROVE  \E n \in Nat : Good(Expanded, n) /\ Entries(Expanded) = Entries(h)
<1> DEFINE n == Primes[h.primeindex + 1]
           u == Expanded
<1>1. h.primeindex + 1 \in 1 .. Len(Primes) - 1 /\ h.primeindex + 1 \in 1 .. Len(Primes)
  <2>1. h.primeindex \in 0 .. Len(Primes) - 1 /\ Len(Primes) \in Nat
    BY GoodTypes, PrimesAssumption
  <2> QED
    BY <2>1
<1>2. n \in Nat \ {0} /\ LoadLimit(n) \in Nat
  BY <1>1, Sizes
<1>3. /\ u.table = [i \in 0 .. n - 1 |-> Prepended(h, Moved(h, n, i))]
      /\ u.size = n /\ u.primeindex = h.primeindex + 1 /\ u.loadlimit = LoadLimit(n)
      /\ u.entrycount = h.entrycount /\ u.noccupied = h.noccupied
      /\ u = [table |-> u.table, size |-> u.size, primeindex |-> u.primeindex,
              loadlimit |-> u.loadlimit, entrycount |-> u.entrycount,
              noccupied |-> u.noccupied]
  <2>1. h \in Tables(m)
    BY GoodTypes
  <2>2. PICK a : a = [i \in 0 .. n - 1 |-> Prepended(h, Moved(h, n, i))]
    OBVIOUS
  <2>3. u = [h EXCEPT !.table = a, !.size = n, !.primeindex = h.primeindex + 1,
                      !.loadlimit = LoadLimit(n)]
    BY <2>1, <2>2 DEF Expanded, Tables
  <2> HIDE DEF u, n
  <2>4. /\ u.table = a /\ u.size = n /\ u.primeindex = h.primeindex + 1
        /\ u.loadlimit = LoadLimit(n) /\ u.entrycount = h.entrycount
        /\ u.noccupied = h.noccupied
    BY <2>1, <2>3 DEF Tables
  <2>5. u = [table |-> u.table, size |-> u.size, primeindex |-> u.primeindex,
             loadlimit |-> u.loadlimit, entrycount |-> u.entrycount,
             noccupied |-> u.noccupied]
    BY <2>1, <2>3 DEF Tables
  <2> QED
    BY <2>2, <2>4, <2>5
<1> HIDE DEF n, u
<1>4. \A i \in 0 .. n - 1 : /\ u.table[i] \in Seq(Entry) /\ Proper(u.table[i], n, i)
                            /\ ToSet(u.table[i]) = {e \in Entries(h) : indexFor(n, e.h) = i}
  <2> SUFFICES ASSUME NEW i \in 0 .. n - 1
               PROVE  /\ u.table[i] \in Seq(Entry) /\ Proper(u.table[i], n, i)
                      /\ ToSet(u.table[i]) = {e \in Entries(h) : indexFor(n, e.h) = i}
    OBVIOUS
  <2>1. u.table[i] = Prepended(h, Moved(h, n, i))
    BY <1>3
  <2> QED
    BY <1>2, <2>1, MovedChain
<1>5. u \in Tables(n)
  <2>1. u.table \in [0 .. n - 1 -> Seq(Entry)]
    BY <1>3, <1>4
  <2>2. h.entrycount \in Nat /\ h.noccupied \in Nat
    BY GoodTypes
  <2>3. h.primeindex + 1 \in 0 .. Len(Primes) - 1
    BY <1>1
  <2> QED
    BY <1>2, <1>3, <2>1, <2>2, <2>3 DEF Tables
<1>6. Entries(u) = Entries(h)
  <2>1. ASSUME NEW e \in Entries(u) PROVE e \in Entries(h)
    <3>1. PICK i \in 0 .. u.size - 1 : e \in ToSet(u.table[i])
      BY EntriesIn
    <3> QED
      BY <1>3, <1>4, <3>1
  <2>2. ASSUME NEW e \in Entries(h) PROVE e \in Entries(u)
    <3>1. e \in Entry
      BY GoodTypes
    <3>2. indexFor(n, e.h) \in 0 .. u.size - 1
      BY <1>2, <1>3, <3>1 DEF indexFor, Entry
    <3>3. e \in ToSet(u.table[indexFor(n, e.h)])
      BY <1>3, <1>4, <3>2
    <3> QED
      BY <3>2, <3>3, EntriesIn
  <2> QED
    BY <2>1, <2>2
<1>7. u.size = Primes[IF u.primeindex = 0 THEN 1 ELSE u.primeindex]
  BY <1>1, <1>3 DEF n
<1>8. u.entrycount = Cardinality(KeysOf(Entries(u)))
  BY <1>3, <1>6 DEF Good
<1>9. Good(u, n)
  <2>1. \A i \in 0 .. n - 1 : IF i < u.size THEN Proper(u.table[i], u.size, i)
                                            ELSE u.table[i] = <<>>
    BY <1>2, <1>3, <1>4
  <2>2. u.size <= n /\ u.loadlimit = LoadLimit(u.size)
    BY <1>2, <1>3
  <2> QED
    BY <1>5, <1>7, <1>8, <2>1, <2>2, Zenon DEF Good
<1> QED
  BY <1>2, <1>6, <1>9 DEF u

\* An insertion goes on with a good table of the same entries.
LEMMA RoomyGood ==
  ASSUME NEW m \in Nat, Good(h, m), NEW k \in Keys, k \notin KeysOf(Entries(h)),
         NEW t \in Roomy
  PROVE  \E n \in Nat : Good(t, n) /\ Entries(t) = Entries(h)
<1>1. CASE t = h
  BY <1>1
<1>2. CASE t = Expanded /\ Crowded
  BY <1>2, CrowdedGrows, ExpandedGood
<1>3. t = h \/ (t = Expanded /\ Crowded)
  BY DEF Roomy
<1> QED
  BY <1>1, <1>2, <1>3
-----------------------------------------------------------------------------
(* What each call does to the set of the entries. *)

Fields(k, kb, v) == [h |-> Hash[k], k |-> k, kb |-> kb, v |-> v]

\* The entry a search for k finds.
Old(k) == Chain(k)[Place(k)]

\* A new key: a new entry, in a table that may have grown.
LEMMA InsertNewTable ==
  ASSUME GoodTable, NEW k \in Keys, NEW kb \in KeyBlocks, NEW v \in Values \cup {Null},
         InsertNew(k, kb, v)
  PROVE  /\ k \notin KeysOf(Entries(h)) /\ Fields(k, kb, v) \in Entry
         /\ Entries(h') = Entries(h) \cup {Fields(k, kb, v)} /\ GoodTable'
<1>1. PICK m \in Nat : Good(h, m)
  BY DEF GoodTable
<1>2. k \notin KeysOf(Entries(h))
  BY <1>1, Found DEF InsertNew
<1>3. Fields(k, kb, v) \in Entry /\ Fields(k, kb, v).k = k /\ Fields(k, kb, v).h = Hash[k]
  BY HashAssumption DEF Fields, Entry
<1>4. PICK t \in Roomy : h' = Linked(t, Fields(k, kb, v))
  BY DEF InsertNew, Fields
<1>5. PICK n \in Nat : Good(t, n) /\ Entries(t) = Entries(h)
  BY <1>1, <1>2, RoomyGood
<1>6. Good(Linked(t, Fields(k, kb, v)), n)
      /\ Entries(Linked(t, Fields(k, kb, v))) = Entries(t) \cup {Fields(k, kb, v)}
  BY <1>2, <1>3, <1>5, LinkedGood
<1> QED
  BY <1>2, <1>3, <1>4, <1>5, <1>6 DEF GoodTable

\* No memory for the entry: the table may have grown.
LEMMA InsertNoMemoryTable ==
  ASSUME GoodTable, NEW k \in Keys, NEW kb \in KeyBlocks, NEW v \in Values \cup {Null},
         InsertNoMemory(k, kb, v)
  PROVE  k \notin KeysOf(Entries(h)) /\ Entries(h') = Entries(h) /\ GoodTable'
<1>1. PICK m \in Nat : Good(h, m)
  BY DEF GoodTable
<1>2. k \notin KeysOf(Entries(h))
  BY <1>1, Found DEF InsertNoMemory
<1>3. h' \in Roomy
  BY DEF InsertNoMemory
<1>4. PICK n \in Nat : Good(h', n) /\ Entries(h') = Entries(h)
  BY <1>1, <1>2, <1>3, RoomyGood
<1> QED
  BY <1>2, <1>4 DEF GoodTable

\* A search finds the one entry of its key.
LEMMA OldEntry ==
  ASSUME NEW m \in Nat, Good(h, m), NEW k \in Keys, Has(k)
  PROVE  /\ Old(k) \in Entries(h) /\ Old(k) \in Entry /\ Old(k).k = k
         /\ indexFor(h.size, Hash[k]) \in 0 .. h.size - 1
         /\ Place(k) \in DOMAIN h.table[indexFor(h.size, Hash[k])]
         /\ h.table[indexFor(h.size, Hash[k])][Place(k)] = Old(k)
BY Found, GoodTypes DEF Old, Chain

\* A key that is there: an entry with the new value in the place of the old.
LEMMA InsertOldTable ==
  ASSUME GoodTable, NEW k \in Keys, NEW kb \in KeyBlocks, NEW v \in Values \cup {Null},
         InsertOld(k, kb, v)
  PROVE  /\ Old(k) \in Entries(h) /\ Old(k) \in Entry /\ Old(k).k = k
         /\ [Old(k) EXCEPT !.v = v] \in Entry
         /\ Entries(h') = (Entries(h) \ {Old(k)}) \cup {[Old(k) EXCEPT !.v = v]}
         /\ owned' = (owned \cup ({v} \ {Null})) \ {Old(k).v}
         /\ GoodTable'
<1>1. PICK m \in Nat : Good(h, m)
  BY DEF GoodTable
<1>2. Has(k)
  BY DEF InsertOld
<1>3. PICK i, p : i = indexFor(h.size, Hash[k]) /\ p = Place(k)
  OBVIOUS
<1>4. /\ Old(k) \in Entries(h) /\ Old(k) \in Entry /\ Old(k).k = k
      /\ i \in 0 .. h.size - 1 /\ p \in DOMAIN h.table[i] /\ h.table[i][p] = Old(k)
  BY <1>1, <1>2, <1>3, OldEntry
<1>5. PICK e : e = [Old(k) EXCEPT !.v = v]
  OBVIOUS
<1>6. e \in Entry /\ e.k = Old(k).k /\ e.h = Old(k).h
  BY <1>4, <1>5 DEF Entry
<1>7. h' = [h EXCEPT !.table[i][p] = e]
  BY <1>1, <1>3, <1>4, <1>5, GoodTypes DEF InsertOld, Tables
<1>8. Good(h', m) /\ Entries(h') = (Entries(h) \ {Old(k)}) \cup {e}
  BY <1>1, <1>4, <1>6, <1>7, ChangedGood, SMTT(30)
<1>9. owned' = (owned \cup ({v} \ {Null})) \ {Old(k).v}
  BY DEF InsertOld, Old
<1> QED
  BY <1>4, <1>5, <1>6, <1>8, <1>9 DEF GoodTable

\* The same with the new key block.
LEMMA ReplaceOldTable ==
  ASSUME GoodTable, NEW k \in Keys, NEW kb \in KeyBlocks, NEW v \in Values \cup {Null},
         ReplaceOld(k, kb, v)
  PROVE  /\ Old(k) \in Entries(h) /\ Old(k) \in Entry /\ Old(k).k = k
         /\ [Old(k) EXCEPT !.v = v, !.kb = kb] \in Entry
         /\ Entries(h') = (Entries(h) \ {Old(k)}) \cup {[Old(k) EXCEPT !.v = v, !.kb = kb]}
         /\ owned' = (owned \cup ({kb, v} \ {Null})) \ {Old(k).kb, Old(k).v}
         /\ GoodTable'
<1>1. PICK m \in Nat : Good(h, m)
  BY DEF GoodTable
<1>2. Has(k)
  BY DEF ReplaceOld
<1>3. PICK i, p : i = indexFor(h.size, Hash[k]) /\ p = Place(k)
  OBVIOUS
<1>4. /\ Old(k) \in Entries(h) /\ Old(k) \in Entry /\ Old(k).k = k
      /\ i \in 0 .. h.size - 1 /\ p \in DOMAIN h.table[i] /\ h.table[i][p] = Old(k)
  BY <1>1, <1>2, <1>3, OldEntry
<1>5. PICK e : e = [Old(k) EXCEPT !.v = v, !.kb = kb]
  OBVIOUS
<1>6. e \in Entry /\ e.k = Old(k).k /\ e.h = Old(k).h
  BY <1>4, <1>5 DEF Entry
<1>7. h' = [h EXCEPT !.table[i][p] = e]
  BY <1>1, <1>3, <1>4, <1>5, GoodTypes DEF ReplaceOld, Tables
<1>8. Good(h', m) /\ Entries(h') = (Entries(h) \ {Old(k)}) \cup {e}
  BY <1>1, <1>4, <1>6, <1>7, ChangedGood, SMTT(30)
<1>9. owned' = (owned \cup ({kb, v} \ {Null})) \ {Old(k).kb, Old(k).v}
  BY DEF ReplaceOld, Old
<1> QED
  BY <1>4, <1>5, <1>6, <1>8, <1>9 DEF GoodTable

\* A removal: an entry less.
LEMMA RemoveKeyTable ==
  ASSUME GoodTable, NEW k \in Keys, RemoveKey(k)
  PROVE  /\ Old(k) \in Entries(h) /\ Old(k) \in Entry /\ Old(k).k = k
         /\ Entries(h') = Entries(h) \ {Old(k)}
         /\ owned' = owned \ {Old(k).kb, Old(k).v} /\ answer' = (Old(k).v # Null)
         /\ GoodTable'
<1>1. PICK m \in Nat : Good(h, m)
  BY DEF GoodTable
<1>2. Has(k)
  BY DEF RemoveKey
<1>3. PICK i, p : i = indexFor(h.size, Hash[k]) /\ p = Place(k)
  OBVIOUS
<1>4. /\ Old(k) \in Entries(h) /\ Old(k) \in Entry /\ Old(k).k = k
      /\ i \in 0 .. h.size - 1 /\ p \in DOMAIN h.table[i] /\ h.table[i][p] = Old(k)
  BY <1>1, <1>2, <1>3, OldEntry
<1>5. h' = Removed(h, i, p)
  BY <1>1, <1>3, <1>4, GoodTypes DEF RemoveKey, Tables, Removed
<1>6. Good(h', m) /\ Entries(h') = Entries(h) \ {Old(k)}
  BY <1>1, <1>4, <1>5, RemovedGood
<1>7. owned' = owned \ {Old(k).kb, Old(k).v} /\ answer' = (Old(k).v # Null)
  BY DEF RemoveKey, Old
<1> QED
  BY <1>4, <1>6, <1>7 DEF GoodTable

\* The calls that empty the table.
LEMMA EmptyTable ==
  ASSUME GoodTable, ForeachRemove \/ RemoveAll \/ Destroy
  PROVE  Entries(h') = {} /\ GoodTable' /\ owned' = owned \ Memory(h)
<1>1. PICK m \in Nat : Good(h, m)
  BY DEF GoodTable
<1>2. CASE ForeachRemove
  BY <1>1, <1>2, EmptiedGood DEF ForeachRemove, GoodTable, Freed
<1>3. CASE RemoveAll
  BY <1>1, <1>3, EmptiedGood DEF RemoveAll, GoodTable, Freed
<1>4. CASE Destroy
  <2>1. Primes[1] \in Nat
    BY Sizes, PrimesAssumption
  <2> QED
    BY <1>4, <2>1, CreatedGood DEF Destroy, GoodTable, Freed
<1> QED
  BY <1>2, <1>3, <1>4
-----------------------------------------------------------------------------
(* The memory of a set of entries. *)

\* Entries and blocks of which each is owned by one entry or lost.
Books(entries, own, away) ==
  /\ entries \subseteq Entry /\ own \subseteq KeyBlocks \cup Values /\ away \subseteq own
  /\ Owned(entries, own, away)

\* A block belongs to an entry that refers to it.
RefersTo(e, x) == x = e.kb \/ (x = e.v /\ x # Null)

\* No two entries refer to one block.
OneReferrer(entries) ==
  \A e, f \in entries : e.kb = f.kb \/ (e.v = f.v /\ e.v # Null) => e = f

\* What is owned and not lost is what an entry refers to.
LEMMA OwnedBlocks ==
  ASSUME NEW entries, NEW own, NEW away
  PROVE  Owned(entries, own, away) <=>
           /\ \A x : x \in own /\ x \notin away <=> \E e \in entries : RefersTo(e, x)
           /\ OneReferrer(entries)
<1>1. own \ away = {e.kb : e \in entries} \cup ({e.v : e \in entries} \ {Null}) <=>
        \A x : x \in own /\ x \notin away <=> \E e \in entries : RefersTo(e, x)
  <2>1. \A x : x \in {e.kb : e \in entries} \cup ({e.v : e \in entries} \ {Null}) <=>
                 \E e \in entries : RefersTo(e, x)
    BY DEF RefersTo
  <2>2. ASSUME NEW S
        PROVE  own \ away = S <=> \A x : x \in own /\ x \notin away <=> x \in S
    OBVIOUS
  <2>3. PICK S : S = {e.kb : e \in entries} \cup ({e.v : e \in entries} \ {Null})
    OBVIOUS
  <2>4. own \ away = S <=> \A x : x \in own /\ x \notin away <=> x \in S
    BY <2>2
  <2>5. \A x : x \in S <=> \E e \in entries : RefersTo(e, x)
    BY <2>1, <2>3, Zenon
  <2>6. own \ away = S <=>
          \A x : x \in own /\ x \notin away <=> \E e \in entries : RefersTo(e, x)
    BY <2>4, <2>5, Zenon
  <2> QED
    BY <2>3, <2>6, Zenon
<1> QED
  BY <1>1 DEF Owned, OneReferrer

\* Other entries refer to other blocks.
LEMMA Apart ==
  ASSUME NEW entries \in SUBSET Entry, OneReferrer(entries), NEW e \in entries,
         NEW f \in entries, NEW x, RefersTo(e, x), RefersTo(f, x)
  PROVE  e = f
<1>1. /\ e.kb \in KeyBlocks /\ e.v \in Values \cup {Null}
      /\ f.kb \in KeyBlocks /\ f.v \in Values \cup {Null}
  BY DEF Entry
<1> QED
  BY <1>1, BlockAssumption DEF RefersTo, OneReferrer

\* A new entry owns its new blocks.
LEMMA OwnedInsert ==
  ASSUME NEW E, NEW own, NEW away, Books(E, own, away), NEW e \in Entry,
         e.kb \notin own, e.v \notin own
  PROVE  Books(E \cup {e}, own \cup ({e.kb, e.v} \ {Null}), away)
<1>1. /\ \A x : x \in own /\ x \notin away <=> \E f \in E : RefersTo(f, x)
      /\ OneReferrer(E) /\ E \subseteq Entry /\ away \subseteq own
      /\ own \subseteq KeyBlocks \cup Values
  BY OwnedBlocks DEF Books
<1>2. e.kb \in KeyBlocks /\ e.v \in Values \cup {Null} /\ e.kb # Null
  BY BlockAssumption DEF Entry
<1>3. \A x : x \in {e.kb, e.v} \ {Null} <=> RefersTo(e, x)
  BY <1>2 DEF RefersTo
<1>4. ASSUME NEW x
      PROVE  x \in own \cup ({e.kb, e.v} \ {Null}) /\ x \notin away <=>
               \E f \in E \cup {e} : RefersTo(f, x)
  BY <1>1, <1>2, <1>3
<1>5. \A f \in E : f.kb # e.kb /\ (f.v # Null => f.v # e.v)
  <2>1. ASSUME NEW f \in E PROVE f.kb # e.kb /\ (f.v # Null => f.v # e.v)
    <3>1. RefersTo(f, f.kb) /\ (f.v # Null => RefersTo(f, f.v))
      BY DEF RefersTo
    <3> QED
      BY <1>1, <3>1
  <2> QED
    BY <2>1
<1>6. OneReferrer(E \cup {e})
  BY <1>1, <1>5 DEF OneReferrer
<1>7. Owned(E \cup {e}, own \cup ({e.kb, e.v} \ {Null}), away)
  BY <1>4, <1>6, OwnedBlocks
<1> QED
  BY <1>1, <1>2, <1>7 DEF Books

\* What nobody has is lost.
LEMMA OwnedLost ==
  ASSUME NEW E, NEW own, NEW away, Books(E, own, away), NEW X \in SUBSET (KeyBlocks \cup Values),
         X \cap own = {}
  PROVE  Books(E, own \cup X, away \cup X)
<1>1. (own \cup X) \ (away \cup X) = own \ away
  BY DEF Books
<1> QED
  BY <1>1 DEF Books, Owned

\* An entry that goes gives its blocks back.
LEMMA OwnedRemove ==
  ASSUME NEW E, NEW own, NEW away, Books(E, own, away), NEW old \in E
  PROVE  Books(E \ {old}, own \ {old.kb, old.v}, away)
<1>1. /\ \A x : x \in own /\ x \notin away <=> \E f \in E : RefersTo(f, x)
      /\ OneReferrer(E) /\ E \in SUBSET Entry /\ away \subseteq own
      /\ own \subseteq KeyBlocks \cup Values
  BY OwnedBlocks DEF Books
<1>2. old.kb \in KeyBlocks /\ old.v \in Values \cup {Null} /\ Null \notin own
  BY <1>1, BlockAssumption DEF Entry
<1>3. \A x : x \in {old.kb, old.v} /\ x \in own <=> RefersTo(old, x)
  BY <1>1, <1>2 DEF RefersTo
<1>4. ASSUME NEW x
      PROVE  x \in own \ {old.kb, old.v} /\ x \notin away <=> \E f \in E \ {old} : RefersTo(f, x)
  <2>1. ASSUME NEW f \in E \ {old}, RefersTo(f, x) PROVE ~RefersTo(old, x)
    BY <1>1, <2>1, Apart
  <2> QED
    BY <1>1, <1>3, <2>1
<1>5. OneReferrer(E \ {old})
  BY <1>1 DEF OneReferrer
<1>6. Owned(E \ {old}, own \ {old.kb, old.v}, away)
  BY <1>4, <1>5, OwnedBlocks
<1>7. away \subseteq own \ {old.kb, old.v}
  BY <1>1, <1>3
<1> QED
  BY <1>1, <1>6, <1>7 DEF Books

\* An entry with new blocks takes the place of one.
LEMMA OwnedReplace ==
  ASSUME NEW E, NEW own, NEW away, Books(E, own, away), NEW old \in E, NEW e \in Entry,
         e.kb \notin own, e.v \notin own
  PROVE  Books((E \ {old}) \cup {e}, (own \cup ({e.kb, e.v} \ {Null})) \ {old.kb, old.v}, away)
<1>1. Books(E \ {old}, own \ {old.kb, old.v}, away)
  BY OwnedRemove
<1>2. Books((E \ {old}) \cup {e}, (own \ {old.kb, old.v}) \cup ({e.kb, e.v} \ {Null}), away)
  BY <1>1, OwnedInsert
<1>3. {old.kb, old.v} \cap ({e.kb, e.v} \ {Null}) = {}
  <2>1. RefersTo(old, old.kb) /\ (old.v # Null => RefersTo(old, old.v))
    BY DEF RefersTo
  <2> QED
    BY <2>1, OwnedBlocks DEF Books
<1>4. (own \cup ({e.kb, e.v} \ {Null})) \ {old.kb, old.v}
        = (own \ {old.kb, old.v}) \cup ({e.kb, e.v} \ {Null})
  BY <1>3
<1> QED
  BY <1>2, <1>4

\* An entry with a new value takes the place of one.
LEMMA OwnedChange ==
  ASSUME NEW E, NEW own, NEW away, Books(E, own, away), NEW old \in E, NEW e \in Entry,
         e.kb = old.kb, e.v \notin own
  PROVE  Books((E \ {old}) \cup {e}, (own \cup ({e.v} \ {Null})) \ {old.v}, away)
<1>1. Books(E \ {old}, own \ {old.kb, old.v}, away)
  BY OwnedRemove
<1>2. e.kb \notin own \ {old.kb, old.v} /\ e.v \notin own \ {old.kb, old.v}
  OBVIOUS
<1>3. Books((E \ {old}) \cup {e}, (own \ {old.kb, old.v}) \cup ({e.kb, e.v} \ {Null}), away)
  BY <1>1, <1>2, OwnedInsert
<1>4. /\ old.kb \in own /\ old.kb # old.v /\ old.kb # Null
      /\ (old.v # Null => old.v \in own) /\ Null \notin own
  <2>1. RefersTo(old, old.kb) /\ (old.v # Null => RefersTo(old, old.v))
    BY DEF RefersTo
  <2>2. old.kb \in KeyBlocks /\ old.v \in Values \cup {Null}
    BY DEF Books, Entry
  <2>3. old.kb \in own /\ (old.v # Null => old.v \in own)
    BY <2>1, OwnedBlocks DEF Books
  <2> QED
    BY <2>2, <2>3, BlockAssumption DEF Books
<1>5. (own \cup ({e.v} \ {Null})) \ {old.v}
        = (own \ {old.kb, old.v}) \cup ({e.kb, e.v} \ {Null})
  BY <1>4
<1> QED
  BY <1>3, <1>5

\* An emptied table gives everything back that is not lost.
LEMMA OwnedEmpty ==
  ASSUME NEW E, NEW own, NEW away, Books(E, own, away)
  PROVE  Books({}, own \ ({e.kb : e \in E} \cup ({e.v : e \in E} \ {Null})), away)
<1>1. own \ away = {e.kb : e \in E} \cup ({e.v : e \in E} \ {Null}) /\ away \subseteq own
      /\ own \subseteq KeyBlocks \cup Values
  BY DEF Books, Owned
<1>2. own \ (own \ away) = away
  BY <1>1
<1>3. Owned({}, away, away)
  BY DEF Owned
<1> QED
  BY <1>1, <1>2, <1>3 DEF Books
-----------------------------------------------------------------------------
(* The invariant. *)

\* The invariant of the memory, with the types it needs.
LEMMA BooksHeld ==
  ASSUME IInv
  PROVE  Books(Entries(h), owned, lost)
BY GoodTypes DEF IInv, GoodTable, OwnedInv, OtherTypes, Books

\* Every call leaves a good table that owns its memory.
LEMMA BooksKept ==
  ASSUME IInv, Next
  PROVE  GoodTable' /\ Books(Entries(h'), owned', lost')
<1>1. Books(Entries(h), owned, lost) /\ GoodTable
  BY BooksHeld DEF IInv
<1>2. ASSUME NEW k \in Keys, NEW kb \in KeyBlocks, NEW v \in Values \cup {Null},
             InsertNew(k, kb, v)
      PROVE  GoodTable' /\ Books(Entries(h'), owned', lost')
  <2>1. PICK e : e = Fields(k, kb, v)
    OBVIOUS
  <2>2. e \in Entry /\ e.kb = kb /\ e.v = v
    BY <1>1, <1>2, <2>1, InsertNewTable DEF Fields
  <2>3. e.kb \notin owned /\ e.v \notin owned /\ lost' = lost
        /\ owned' = owned \cup ({e.kb, e.v} \ {Null})
    BY <1>2, <2>2 DEF InsertNew, Fresh
  <2>4. Books(Entries(h) \cup {e}, owned \cup ({e.kb, e.v} \ {Null}), lost)
    BY <1>1, <2>2, <2>3, OwnedInsert
  <2> QED
    BY <1>1, <1>2, <2>1, <2>3, <2>4, InsertNewTable
<1>3. ASSUME NEW k \in Keys, NEW kb \in KeyBlocks, NEW v \in Values \cup {Null},
             InsertNoMemory(k, kb, v)
      PROVE  GoodTable' /\ Books(Entries(h'), owned', lost')
  <2>1. PICK X : X = {kb, v} \ {Null}
    OBVIOUS
  <2>2. owned' = owned \cup X /\ lost' = lost \cup X
    BY <1>3, <2>1 DEF InsertNoMemory
  <2>3. X \in SUBSET (KeyBlocks \cup Values) /\ X \cap owned = {}
    BY <1>3, <2>1 DEF InsertNoMemory, Fresh
  <2>4. Books(Entries(h), owned \cup X, lost \cup X)
    BY <1>1, <2>3, OwnedLost
  <2> QED
    BY <1>1, <1>3, <2>2, <2>4, InsertNoMemoryTable
<1>4. ASSUME NEW k \in Keys, NEW kb \in KeyBlocks, NEW v \in Values \cup {Null},
             InsertOld(k, kb, v)
      PROVE  GoodTable' /\ Books(Entries(h'), owned', lost')
  <2>1. PICK e : e = [Old(k) EXCEPT !.v = v]
    OBVIOUS
  <2>2. /\ Old(k) \in Entries(h) /\ Old(k) \in Entry /\ e \in Entry
        /\ Entries(h') = (Entries(h) \ {Old(k)}) \cup {e}
        /\ owned' = (owned \cup ({v} \ {Null})) \ {Old(k).v}
        /\ GoodTable'
    BY <1>1, <1>4, <2>1, InsertOldTable
  <2>3. e.kb = Old(k).kb /\ e.v = v
    BY <2>1, <2>2 DEF Entry
  <2>4. v \notin owned /\ lost' = lost
    BY <1>4 DEF InsertOld, Fresh
  <2>5. Books((Entries(h) \ {Old(k)}) \cup {e}, (owned \cup ({e.v} \ {Null})) \ {Old(k).v}, lost)
    BY <1>1, <2>2, <2>3, <2>4, OwnedChange
  <2> QED
    BY <2>2, <2>3, <2>4, <2>5
<1>5. ASSUME NEW k \in Keys, NEW kb \in KeyBlocks, NEW v \in Values \cup {Null},
             ReplaceOld(k, kb, v)
      PROVE  GoodTable' /\ Books(Entries(h'), owned', lost')
  <2>1. PICK e : e = [Old(k) EXCEPT !.v = v, !.kb = kb]
    OBVIOUS
  <2>2. /\ Old(k) \in Entries(h) /\ Old(k) \in Entry /\ e \in Entry
        /\ Entries(h') = (Entries(h) \ {Old(k)}) \cup {e}
        /\ owned' = (owned \cup ({kb, v} \ {Null})) \ {Old(k).kb, Old(k).v}
        /\ GoodTable'
    BY <1>1, <1>5, <2>1, ReplaceOldTable
  <2>3. e.kb = kb /\ e.v = v
    BY <2>1, <2>2 DEF Entry
  <2>4. kb \notin owned /\ v \notin owned /\ lost' = lost
    BY <1>5 DEF ReplaceOld, Fresh
  <2>5. Books((Entries(h) \ {Old(k)}) \cup {e},
              (owned \cup ({e.kb, e.v} \ {Null})) \ {Old(k).kb, Old(k).v}, lost)
    BY <1>1, <2>2, <2>3, <2>4, OwnedReplace
  <2> QED
    BY <2>2, <2>3, <2>4, <2>5
<1>6. ASSUME NEW k \in Keys, RemoveKey(k)
      PROVE  GoodTable' /\ Books(Entries(h'), owned', lost')
  <2>1. /\ Old(k) \in Entries(h) /\ Entries(h') = Entries(h) \ {Old(k)}
        /\ owned' = owned \ {Old(k).kb, Old(k).v} /\ GoodTable'
    BY <1>1, <1>6, RemoveKeyTable
  <2>2. lost' = lost
    BY <1>6 DEF RemoveKey
  <2>3. Books(Entries(h) \ {Old(k)}, owned \ {Old(k).kb, Old(k).v}, lost)
    BY <1>1, <2>1, OwnedRemove
  <2> QED
    BY <2>1, <2>2, <2>3
<1>7. CASE ForeachRemove \/ RemoveAll \/ Destroy
  <2>1. Entries(h') = {} /\ GoodTable' /\ owned' = owned \ Memory(h)
    BY <1>1, <1>7, EmptyTable
  <2>2. lost' = lost
    BY <1>7 DEF ForeachRemove, RemoveAll, Destroy
  <2>3. Books({}, owned \ Memory(h), lost)
    BY <1>1, OwnedEmpty DEF Memory
  <2> QED
    BY <2>1, <2>2, <2>3
<1>8. CASE UNCHANGED <<h, owned, lost>>
  <2>1. GoodTable'
    BY <1>1, <1>8 DEF GoodTable
  <2> QED
    BY <1>1, <1>8, <2>1
<1>9. (\E k \in Keys : RemoveMissing(k)) => UNCHANGED <<h, owned, lost>>
  BY DEF RemoveMissing
<1> QED
  BY <1>2, <1>3, <1>4, <1>5, <1>6, <1>7, <1>8, <1>9 DEF Next

\* The other variables keep their types.
LEMMA TypesKept ==
  ASSUME IInv, Next
  PROVE  OtherTypes'
<1>1. lost' \subseteq owned' /\ owned' \subseteq KeyBlocks \cup Values
  BY BooksKept DEF Books
<1>2. answer \in BOOLEAN
  BY DEF IInv, OtherTypes
<1>3. ASSUME NEW k \in Keys, NEW kb \in KeyBlocks, NEW v \in Values \cup {Null},
             \/ InsertNew(k, kb, v) \/ InsertNoMemory(k, kb, v)
             \/ InsertOld(k, kb, v) \/ ReplaceOld(k, kb, v)
      PROVE  answer' \in BOOLEAN
  BY <1>3 DEF InsertNew, InsertNoMemory, InsertOld, ReplaceOld
<1>4. ASSUME NEW k \in Keys, RemoveKey(k) \/ RemoveMissing(k) PROVE answer' \in BOOLEAN
  BY <1>4 DEF RemoveKey, RemoveMissing
<1>5. CASE ForeachRemove \/ RemoveAll \/ Destroy
  BY <1>1, <1>2, <1>5 DEF ForeachRemove, RemoveAll, Destroy, OtherTypes
<1> QED
  BY <1>1, <1>3, <1>4, <1>5 DEF Next, OtherTypes

\* The invariant holds at the start.
LEMMA InitInv == Init => IInv
<1> SUFFICES ASSUME Init PROVE IInv
  OBVIOUS
<1>1. Good(h, Primes[1]) /\ Entries(h) = {}
  BY CreatedGood DEF Init
<1>2. Primes[1] \in Nat
  BY Sizes, PrimesAssumption
<1>3. GoodTable
  BY <1>1, <1>2 DEF GoodTable
<1>4. OwnedInv
  BY <1>1 DEF OwnedInv, Owned, Init
<1>5. OtherTypes
  BY DEF Init, OtherTypes
<1> QED
  BY <1>3, <1>4, <1>5 DEF IInv

\* Every step keeps the invariant.
LEMMA NextInv == IInv /\ [Next]_vars => IInv'
<1> SUFFICES ASSUME IInv, [Next]_vars PROVE IInv'
  OBVIOUS
<1>1. CASE Next
  <2>1. GoodTable' /\ Books(Entries(h'), owned', lost')
    BY <1>1, BooksKept
  <2>2. OwnedInv'
    BY <2>1 DEF Books, OwnedInv
  <2>3. OtherTypes'
    BY <1>1, TypesKept
  <2> QED
    BY <2>1, <2>2, <2>3 DEF IInv
<1>2. CASE UNCHANGED vars
  BY <1>2 DEF vars, IInv, GoodTable, OwnedInv, OtherTypes
<1> QED
  BY <1>1, <1>2

\* The inductive invariant holds throughout.
LEMMA Invariant == Spec => []IInv
BY InitInv, NextInv, PTL DEF Spec
-----------------------------------------------------------------------------
(* The theorems. *)

\* The invariant says what WellFormed says.
LEMMA FitTable == IInv => WellFormed
<1> SUFFICES ASSUME IInv PROVE WellFormed
  OBVIOUS
<1>1. PICK m \in Nat : Good(h, m)
  BY DEF IInv, GoodTable
<1>2. /\ h.table \in [0 .. m - 1 -> Seq(Entry)] /\ h.size \in Nat /\ h.size > 0 /\ h.size <= m
      /\ h.primeindex \in 0 .. Len(Primes) - 1 /\ h.loadlimit \in Nat
      /\ h.entrycount \in Nat /\ h.noccupied \in Nat /\ Len(Primes) \in Nat
  BY <1>1, GoodTypes, PrimesAssumption
<1>3. TypeOK
  <2>1. h.table \in [DOMAIN h.table -> Seq(Entry)]
    BY <1>2
  <2>2. h.entrycount \in Int /\ h.primeindex \in 0 .. Len(Primes)
    BY <1>2
  <2> QED
    BY <1>2, <2>1, <2>2 DEF TypeOK, IInv, OtherTypes
<1>4. InBounds
  <2>1. h.entrycount = Cardinality(Spots(h)) /\ h.loadlimit = LoadLimit(h.size)
    BY <1>1, CountSpots DEF Good
  <2>2. \A i \in 0 .. m - 1 : i >= h.size => h.table[i] = <<>>
    BY <1>1, <1>2, SMTT(30) DEF Good
  <2>3. DOMAIN h.table = 0 .. m - 1 /\ 0 .. h.size - 1 \subseteq 0 .. m - 1
    BY <1>2, SMTT(30)
  <2>4. \A i \in DOMAIN h.table : i >= h.size => h.table[i] = <<>>
    BY <2>2, <2>3, Zenon
  <2> QED
    BY <2>1, <2>3, <2>4, Zenon DEF InBounds
<1>5. Searchable
  BY <1>1, OneSpot DEF Searchable
<1> QED
  BY <1>3, <1>4, <1>5 DEF WellFormed

(***************************************************************************)
(* The table is fit for the next call, whatever was called and whichever   *)
(* allocations failed: its types, sizes and counts are right and each key  *)
(* is in the slot where hashtable_search looks for it, also after a growth *)
(* or a resize that did not happen (hashtable_expand, hashtable_resize).   *)
(***************************************************************************)
THEOREM TableFit == Spec => []WellFormed
BY Invariant, FitTable, PTL

\* The invariant says what OwnsMemory says.
LEMMA OwningTable == IInv => OwnsMemory
<1> SUFFICES ASSUME IInv PROVE OwnsMemory
  OBVIOUS
<1>1. PICK m \in Nat : Good(h, m)
  BY DEF IInv, GoodTable
<1>2. owned \ lost = Memory(h)
  BY DEF IInv, OwnedInv, Owned, Memory
<1>3. ASSUME NEW s \in Spots(h), NEW u \in Spots(h),
             \/ At(h, s).kb = At(h, u).kb
             \/ At(h, s).v = At(h, u).v /\ At(h, s).v # Null
      PROVE  s = u
  <2>1. At(h, s) \in Entries(h) /\ At(h, u) \in Entries(h)
    BY DEF Entries
  <2>2. At(h, s) = At(h, u)
    BY <1>3, <2>1 DEF IInv, OwnedInv, Owned
  <2> QED
    BY <1>1, <2>2, OneSpot
<1> QED
  BY <1>2, <1>3 DEF OwnsMemory

(***************************************************************************)
(* The table owns its memory: g_hash_table_insert, _replace, _remove and   *)
(* the calls that empty a table free each block once, and free none that   *)
(* an entry still refers to.                                               *)
(***************************************************************************)
THEOREM MemoryOwned == Spec => []OwnsMemory
BY Invariant, OwningTable, PTL

-----------------------------------------------------------------------------
(* The table is a map. *)

\* What a search of a table for a key finds, as in the refinement mapping.
ChainIn(t, k) == t.table[indexFor(t.size, Hash[k])]
ValueIn(t, k) ==
  IF \E e \in ToSet(ChainIn(t, k)) : e.k = k
  THEN ChainIn(t, k)[SelectInSeq(ChainIn(t, k), LAMBDA e : e.k = k)].v ELSE None
MapOf(t) == [k \in Keys |-> ValueIn(t, k)]

\* The map that a set of entries is.
MapSet(entries) ==
  [k \in Keys |-> IF k \in KeysOf(entries) THEN (CHOOSE e \in entries : e.k = k).v ELSE None]

\* Sets of entries with a key each.
Keyed(entries) ==
  entries \subseteq Entry /\ \A e, f \in entries : e.k = f.k => e = f

\* In a good table a key is the key of one entry.
LEMMA GoodKeyed ==
  ASSUME NEW m \in Nat, NEW t, Good(t, m)
  PROVE  Keyed(Entries(t))
BY OneSpot, GoodTypes DEF Keyed

\* The value of a key in a set.
LEMMA SetValue ==
  ASSUME NEW E, Keyed(E), NEW e \in E
  PROVE  e.k \in Keys /\ e.v # None /\ MapSet(E)[e.k] = e.v
<1>1. e \in Entry /\ e.k \in Keys /\ e.v \in Values \cup {Null} /\ e.k \in KeysOf(E)
  BY DEF Keyed, Entry, KeysOf
<1>2. (CHOOSE f \in E : f.k = e.k) = e
  BY DEF Keyed
<1> QED
  BY <1>1, <1>2, BlockAssumption DEF MapSet

\* Searches find what the set of the entries says.
LEMMA MapIsSet ==
  ASSUME NEW m \in Nat, NEW t, Good(t, m)
  PROVE  MapOf(t) = MapSet(Entries(t))
<1> SUFFICES ASSUME NEW k \in Keys PROVE ValueIn(t, k) = MapSet(Entries(t))[k]
  BY DEF MapOf, MapSet
<1>1. PICK i : i = indexFor(t.size, Hash[k])
  OBVIOUS
<1>2. i \in 0 .. t.size - 1
  BY <1>1, HashAssumption, GoodTypes DEF indexFor
<1>3. PICK c \in Seq(Entry) : c = ChainIn(t, k) /\ Proper(c, t.size, i)
  BY <1>1, <1>2, GoodTypes DEF ChainIn
<1>4. ToSet(c) \subseteq Entries(t)
  BY <1>1, <1>2, <1>3, EntriesIn DEF ChainIn
<1>5. CASE \E e \in ToSet(c) : e.k = k
  <2>1. PICK e \in ToSet(c) : e.k = k
    BY <1>5
  <2>2. PICK p \in DOMAIN c : c[p] = e /\ {l \in 1 .. Len(c) : c[l].k = k} = {p}
    BY <1>3, <2>1, PlaceIn
  <2>3. SelectInSeq(c, LAMBDA x : x.k = k) = Min({p})
    BY <2>2 DEF SelectInSeq
  <2>4. Min({p}) = p
    BY <2>2 DEF Min
  <2>5. ValueIn(t, k) = e.v
    BY <1>3, <1>5, <2>2, <2>3, <2>4 DEF ValueIn
  <2>6. MapSet(Entries(t))[k] = e.v
    BY <1>4, <2>1, SetValue, GoodKeyed
  <2> QED
    BY <2>5, <2>6
<1>6. CASE ~\E e \in ToSet(c) : e.k = k
  <2>1. ASSUME NEW e \in Entries(t), e.k = k PROVE FALSE
    <3>1. PICK j \in 0 .. t.size - 1 : e \in ToSet(t.table[j])
      BY EntriesIn
    <3>2. i = j
      BY <1>1, <2>1, <3>1, GoodTypes, SMTT(30) DEF Proper, ToSet
    <3> QED
      BY <1>1, <1>3, <1>6, <2>1, <3>1, <3>2 DEF ChainIn
  <2>2. k \notin KeysOf(Entries(t))
    BY <2>1 DEF KeysOf
  <2>3. ValueIn(t, k) = None
    BY <1>3, <1>6 DEF ValueIn
  <2> QED
    BY <2>2, <2>3 DEF MapSet
<1> QED
  BY <1>5, <1>6

\* A set is a function on the keys, and what a change of one makes of it.
LEMMA MapFunction ==
  ASSUME NEW E, NEW F, NEW k \in Keys,
         \A l \in Keys : l # k => MapSet(F)[l] = MapSet(E)[l]
  PROVE  MapSet(F) = [MapSet(E) EXCEPT ![k] = MapSet(F)[k]]
<1>1. PICK f, g : f = MapSet(E) /\ g = MapSet(F)
  OBVIOUS
<1>2. DOMAIN f = Keys /\ f = [l \in Keys |-> f[l]] /\ g = [l \in Keys |-> g[l]]
  BY <1>1 DEF MapSet
<1> QED
  BY <1>1, <1>2

\* An entry more.
LEMMA MapAdd ==
  ASSUME NEW E, Keyed(E), NEW e \in Entry, e.k \notin KeysOf(E)
  PROVE  MapSet(E \cup {e}) = [MapSet(E) EXCEPT ![e.k] = e.v]
<1>1. Keyed(E \cup {e})
  BY DEF Keyed, KeysOf
<1>2. KeysOf(E \cup {e}) = KeysOf(E) \cup {e.k}
  BY DEF KeysOf
<1>3. ASSUME NEW k \in Keys
      PROVE  MapSet(E \cup {e})[k] = IF k = e.k THEN e.v ELSE MapSet(E)[k]
  <2>1. CASE k = e.k
    BY <1>1, <2>1, SetValue
  <2>2. CASE k # e.k /\ k \in KeysOf(E)
    <3>1. PICK f \in E : f.k = k
      BY <2>2 DEF KeysOf
    <3>2. MapSet(E)[k] = f.v /\ MapSet(E \cup {e})[k] = f.v
      BY <1>1, <3>1, SetValue
    <3> QED
      BY <2>2, <3>2
  <2>3. CASE k # e.k /\ k \notin KeysOf(E)
    BY <1>2, <2>3 DEF MapSet
  <2> QED
    BY <2>1, <2>2, <2>3
<1>4. e.k \in Keys
  BY DEF Entry
<1>5. PICK F, x, y : F = E \cup {e} /\ x = e.k /\ y = e.v
  OBVIOUS
<1>6. /\ x \in Keys /\ MapSet(F)[x] = y
      /\ \A l \in Keys : l # x => MapSet(F)[l] = MapSet(E)[l]
  BY <1>3, <1>4, <1>5
<1>7. MapSet(F) = [MapSet(E) EXCEPT ![x] = MapSet(F)[x]]
  BY <1>6, MapFunction
<1> QED
  BY <1>5, <1>6, <1>7

\* An entry less.
LEMMA MapDrop ==
  ASSUME NEW E, Keyed(E), NEW e \in E
  PROVE  /\ MapSet(E \ {e}) = [MapSet(E) EXCEPT ![e.k] = None]
         /\ Keyed(E \ {e}) /\ e.k \notin KeysOf(E \ {e})
<1>1. Keyed(E \ {e})
  BY DEF Keyed
<1>2. KeysOf(E \ {e}) = KeysOf(E) \ {e.k}
  BY DEF Keyed, KeysOf
<1>3. ASSUME NEW k \in Keys
      PROVE  MapSet(E \ {e})[k] = IF k = e.k THEN None ELSE MapSet(E)[k]
  <2>1. CASE k = e.k
    BY <1>2, <2>1 DEF MapSet
  <2>2. CASE k # e.k /\ k \in KeysOf(E)
    <3>1. PICK f \in E : f.k = k
      BY <2>2 DEF KeysOf
    <3>2. f \in E \ {e}
      BY <2>2, <3>1
    <3>3. MapSet(E)[k] = f.v /\ MapSet(E \ {e})[k] = f.v
      BY <1>1, <3>1, <3>2, SetValue
    <3> QED
      BY <2>2, <3>3
  <2>3. CASE k # e.k /\ k \notin KeysOf(E)
    BY <1>2, <2>3 DEF MapSet
  <2> QED
    BY <2>1, <2>2, <2>3
<1>4. e.k \in Keys
  BY DEF Keyed, Entry
<1>5. PICK F, x : F = E \ {e} /\ x = e.k
  OBVIOUS
<1>6. /\ x \in Keys /\ MapSet(F)[x] = None
      /\ \A l \in Keys : l # x => MapSet(F)[l] = MapSet(E)[l]
  BY <1>3, <1>4, <1>5
<1>7. MapSet(F) = [MapSet(E) EXCEPT ![x] = MapSet(F)[x]]
  BY <1>6, MapFunction
<1>8. MapSet(E \ {e}) = [MapSet(E) EXCEPT ![e.k] = None]
  BY <1>5, <1>6, <1>7
<1> QED
  BY <1>1, <1>2, <1>8

\* One entry of a key in the place of another.
LEMMA MapChange ==
  ASSUME NEW E, Keyed(E), NEW old \in E, NEW e \in Entry, e.k = old.k
  PROVE  MapSet((E \ {old}) \cup {e}) = [MapSet(E) EXCEPT ![e.k] = e.v]
<1>1. /\ MapSet(E \ {old}) = [MapSet(E) EXCEPT ![old.k] = None]
      /\ Keyed(E \ {old}) /\ e.k \notin KeysOf(E \ {old})
  BY MapDrop
<1>2. MapSet((E \ {old}) \cup {e}) = [MapSet(E \ {old}) EXCEPT ![e.k] = e.v]
  BY <1>1, MapAdd
<1>3. PICK f : f = MapSet(E)
  OBVIOUS
<1>4. DOMAIN f = Keys /\ e.k \in Keys
  BY <1>3 DEF MapSet, Entry
<1>5. [[f EXCEPT ![e.k] = None] EXCEPT ![e.k] = e.v] = [f EXCEPT ![e.k] = e.v]
  BY <1>4
<1> QED
  BY <1>1, <1>2, <1>3, <1>5

(***************************************************************************)
(* Each call is one step of the map, from f to g with this answer: an      *)
(* insertion, one without memory, a removal, one of all, or none.          *)
(***************************************************************************)
IsStep(f, g, was, now) ==
  \/ \E k \in Keys, v \in Values \cup {Null} : g = [f EXCEPT ![k] = v] /\ now = (f[k] = None)
  \/ \E k \in Keys : f[k] = None /\ now = TRUE /\ g = f
  \/ \E k \in Keys : g = [f EXCEPT ![k] = None] /\ now = (f[k] \notin {None, Null})
  \/ g = [k \in Keys |-> None] /\ now = was
  \/ g = f /\ now = was

\* What a call does to the table is a step of the map.
LEMMA MapStep ==
  ASSUME IInv, IInv', Next
  PROVE  IsStep(MapOf(h), MapOf(h'), answer, answer')
<1> USE DEF IsStep
<1>0. PICK f, g : f = MapOf(h) /\ g = MapOf(h')
  OBVIOUS
<1>1. PICK m \in Nat : Good(h, m)
  BY DEF IInv, GoodTable
<1>2. PICK n \in Nat : Good(h', n)
  BY DEF IInv, GoodTable
<1>3. PICK E, F : E = Entries(h) /\ F = Entries(h')
  OBVIOUS
<1>4. f = MapSet(E) /\ g = MapSet(F) /\ Keyed(E) /\ GoodTable
  BY <1>0, <1>1, <1>2, <1>3, MapIsSet, GoodKeyed DEF IInv
<1>5. \A k \in Keys : k \notin KeysOf(E) => f[k] = None
  BY <1>4 DEF MapSet
<1>6. ASSUME NEW k \in Keys, NEW kb \in KeyBlocks, NEW v \in Values \cup {Null},
             InsertNew(k, kb, v)
      PROVE  g = [f EXCEPT ![k] = v] /\ answer' = (f[k] = None)
  <2>1. PICK e : e = Fields(k, kb, v)
    OBVIOUS
  <2>2. k \notin KeysOf(E) /\ e \in Entry /\ F = E \cup {e} /\ e.k = k /\ e.v = v
    BY <1>3, <1>4, <1>6, <2>1, InsertNewTable DEF Fields
  <2>3. answer' = TRUE
    BY <1>6 DEF InsertNew
  <2>4. MapSet(E \cup {e}) = [MapSet(E) EXCEPT ![e.k] = e.v]
    BY <1>4, <2>2, MapAdd
  <2>5. g = [f EXCEPT ![k] = v]
    BY <1>4, <2>2, <2>4
  <2> QED
    BY <1>5, <2>2, <2>3, <2>5
<1>7. ASSUME NEW k \in Keys, NEW kb \in KeyBlocks, NEW v \in Values \cup {Null},
             InsertNoMemory(k, kb, v)
      PROVE  f[k] = None /\ answer' = TRUE /\ g = f
  <2>1. k \notin KeysOf(E) /\ F = E
    BY <1>3, <1>4, <1>7, InsertNoMemoryTable
  <2> QED
    BY <1>4, <1>5, <1>7, <2>1 DEF InsertNoMemory
<1>8. ASSUME NEW k \in Keys, NEW kb \in KeyBlocks, NEW v \in Values \cup {Null},
             InsertOld(k, kb, v)
      PROVE  g = [f EXCEPT ![k] = v] /\ answer' = (f[k] = None)
  <2>1. PICK e : e = [Old(k) EXCEPT !.v = v]
    OBVIOUS
  <2>2. Old(k) \in E /\ Old(k) \in Entry /\ Old(k).k = k /\ e \in Entry
        /\ F = (E \ {Old(k)}) \cup {e}
    BY <1>3, <1>4, <1>8, <2>1, InsertOldTable
  <2>3. e.k = k /\ e.v = v
    BY <2>1, <2>2 DEF Entry
  <2>4. f[k] # None
    BY <1>4, <2>2, SetValue
  <2>5. answer' = FALSE
    BY <1>8 DEF InsertOld
  <2>6. MapSet((E \ {Old(k)}) \cup {e}) = [MapSet(E) EXCEPT ![e.k] = e.v]
    BY <1>4, <2>2, <2>3, MapChange
  <2>7. g = [f EXCEPT ![k] = v]
    BY <1>4, <2>2, <2>3, <2>6
  <2> QED
    BY <2>4, <2>5, <2>7
<1>9. ASSUME NEW k \in Keys, NEW kb \in KeyBlocks, NEW v \in Values \cup {Null},
             ReplaceOld(k, kb, v)
      PROVE  g = [f EXCEPT ![k] = v] /\ answer' = (f[k] = None)
  <2>1. PICK e : e = [Old(k) EXCEPT !.v = v, !.kb = kb]
    OBVIOUS
  <2>2. Old(k) \in E /\ Old(k) \in Entry /\ Old(k).k = k /\ e \in Entry
        /\ F = (E \ {Old(k)}) \cup {e}
    BY <1>3, <1>4, <1>9, <2>1, ReplaceOldTable
  <2>3. e.k = k /\ e.v = v
    BY <2>1, <2>2 DEF Entry
  <2>4. f[k] # None
    BY <1>4, <2>2, SetValue
  <2>5. answer' = FALSE
    BY <1>9 DEF ReplaceOld
  <2>6. MapSet((E \ {Old(k)}) \cup {e}) = [MapSet(E) EXCEPT ![e.k] = e.v]
    BY <1>4, <2>2, <2>3, MapChange
  <2>7. g = [f EXCEPT ![k] = v]
    BY <1>4, <2>2, <2>3, <2>6
  <2> QED
    BY <2>4, <2>5, <2>7
<1>10. ASSUME NEW k \in Keys, RemoveKey(k)
       PROVE  g = [f EXCEPT ![k] = None] /\ answer' = (f[k] \notin {None, Null})
  <2>1. Old(k) \in E /\ Old(k).k = k /\ F = E \ {Old(k)} /\ answer' = (Old(k).v # Null)
    BY <1>3, <1>4, <1>10, RemoveKeyTable
  <2>2. f[k] = Old(k).v /\ f[k] # None
    BY <1>4, <2>1, SetValue
  <2>3. g = [f EXCEPT ![k] = None]
    BY <1>4, <2>1, MapDrop
  <2> QED
    BY <2>1, <2>2, <2>3
<1>11. ASSUME NEW k \in Keys, RemoveMissing(k)
       PROVE  g = [f EXCEPT ![k] = None] /\ answer' = (f[k] \notin {None, Null})
  <2>1. k \notin KeysOf(E)
    BY <1>1, <1>3, <1>11, Found DEF RemoveMissing
  <2>2. h' = h /\ answer' = FALSE
    BY <1>11 DEF RemoveMissing
  <2>3. f[k] = None /\ g = f /\ DOMAIN f = Keys /\ f = [l \in Keys |-> f[l]]
    BY <1>0, <1>4, <1>5, <2>1, <2>2 DEF MapOf, MapSet
  <2> QED
    BY <2>2, <2>3
<1>12. CASE ForeachRemove \/ RemoveAll \/ Destroy
  <2>1. F = {} /\ answer' = answer
    BY <1>3, <1>4, <1>12, EmptyTable DEF ForeachRemove, RemoveAll, Destroy
  <2>2. KeysOf(F) = {}
    BY <2>1 DEF KeysOf
  <2>3. g = [k \in Keys |-> None]
    BY <1>4, <2>2 DEF MapSet
  <2> QED
    BY <1>0, <2>1, <2>3
<1>13. CASE \E k \in Keys, kb \in KeyBlocks, v \in Values \cup {Null} :
              \/ InsertNew(k, kb, v) \/ InsertNoMemory(k, kb, v)
              \/ InsertOld(k, kb, v) \/ ReplaceOld(k, kb, v)
  <2>1. PICK k \in Keys, kb \in KeyBlocks, v \in Values \cup {Null} :
              \/ InsertNew(k, kb, v) \/ InsertNoMemory(k, kb, v)
              \/ InsertOld(k, kb, v) \/ ReplaceOld(k, kb, v)
    BY <1>13
  <2>2. \/ g = [f EXCEPT ![k] = v] /\ answer' = (f[k] = None)
        \/ f[k] = None /\ answer' = TRUE /\ g = f
    BY <1>6, <1>7, <1>8, <1>9, <2>1
  <2> QED
    BY <1>0, <2>2
<1>14. CASE \E k \in Keys : RemoveKey(k) \/ RemoveMissing(k)
  <2>1. PICK k \in Keys : RemoveKey(k) \/ RemoveMissing(k)
    BY <1>14
  <2>2. g = [f EXCEPT ![k] = None] /\ answer' = (f[k] \notin {None, Null})
    BY <1>10, <1>11, <2>1
  <2> QED
    BY <1>0, <2>2
<1> QED
  BY <1>12, <1>13, <1>14 DEF Next

\* The map of the refinement is the one of the table.
LEMMA MapIs ==
  [k \in Keys |-> IF Has(k) THEN Chain(k)[Place(k)].v ELSE None] = MapOf(h)
BY DEF MapOf, ValueIn, ChainIn, Has, Chain, Place

(***************************************************************************)
(* The hash table is a finite map: what a search finds is the last value   *)
(* inserted and not removed, through every growth and resize, and the      *)
(* answers of g_hash_table_insert and g_hash_table_remove are the map's    *)
(* (an insertion may be dropped only when there was no memory for it).     *)
(***************************************************************************)
THEOREM TableIsMap == Spec => MapSpec
<1> DEFINE f == [k \in Keys |-> IF Has(k) THEN Chain(k)[Place(k)].v ELSE None]
<1>1. Init => Map!Init
  <2> SUFFICES ASSUME Init PROVE f = [k \in Keys |-> None] /\ answer = TRUE
    BY DEF Map!Init
  <2>1. h = Created /\ answer = TRUE
    BY DEF Init
  <2>2. f = MapOf(h)
    BY MapIs
  <2>3. MapOf(h) = MapSet(Entries(h)) /\ Entries(h) = {}
    <3>1. Good(h, Primes[1]) /\ Entries(h) = {}
      BY <2>1, CreatedGood
    <3>2. Primes[1] \in Nat
      BY Sizes, PrimesAssumption
    <3> QED
      BY <3>1, <3>2, MapIsSet
  <2>4. MapSet({}) = [k \in Keys |-> None]
    BY DEF MapSet, KeysOf
  <2> QED
    BY <2>1, <2>2, <2>3, <2>4
<1>2. f = MapOf(h) /\ f' = MapOf(h')
  <2>1. f = MapOf(h)
    BY MapIs
  <2>2. f' = MapOf(h')
    BY DEF MapOf, ValueIn, ChainIn, Has, Chain, Place, SelectInSeq
  <2> QED
    BY <2>1, <2>2
<1>3. IInv /\ IInv' /\ [Next]_vars => [Map!Next]_<<f, answer>>
  <2> SUFFICES ASSUME IInv, IInv', [Next]_vars PROVE [Map!Next]_<<f, answer>>
    OBVIOUS
  <2>1. CASE UNCHANGED vars
    <3>1. h' = h /\ answer' = answer
      BY <2>1 DEF vars
    <3>2. f' = f
      BY <1>2, <3>1
    <3> QED
      BY <3>1, <3>2
  <2>2. CASE Next
    <3> HIDE DEF f
    <3>1. IsStep(f, f', answer, answer')
      BY <1>2, <2>2, MapStep
    <3>2. ASSUME NEW k \in Keys, NEW v \in Values \cup {Null},
                 f' = [f EXCEPT ![k] = v] /\ answer' = (f[k] = None)
          PROVE  Map!Next
      BY <3>2 DEF Map!Next, Map!Insert, f
    <3>3. ASSUME NEW k \in Keys, f[k] = None /\ answer' = TRUE /\ f' = f
          PROVE  Map!Next
      BY <3>3 DEF Map!Next, Map!InsertDropped, f
    <3>4. ASSUME NEW k \in Keys,
                 f' = [f EXCEPT ![k] = None] /\ answer' = (f[k] \notin {None, Null})
          PROVE  Map!Next
      BY <3>4 DEF Map!Next, Map!Remove, f
    <3>5. ASSUME f' = [k \in Keys |-> None] /\ answer' = answer
          PROVE  Map!Next
      BY <3>5 DEF Map!Next, Map!RemoveAll, f
    <3> QED
      BY <3>1, <3>2, <3>3, <3>4, <3>5 DEF IsStep
  <2> QED
    BY <2>1, <2>2
<1> QED
  BY <1>1, <1>3, Invariant, PTL DEF Spec, MapSpec, Map!Spec
=============================================================================
