------------------------------ MODULE AtsProofs ------------------------------
(***************************************************************************)
(* The registry of ATS records along both paths, for every history of the  *)
(* pallet and every walk: the tables hold what the pallet held at the      *)
(* height they have reached, and a walk shows every row once.              *)
(***************************************************************************)
EXTENDS Ats, OrderLemmas, FiniteSetTheorems, SequenceTheorems, TLAPS

\* The constants as numbers.
LEMMA Numbers ==
    /\ MaxOps \in Nat /\ Count \in Nat /\ Count >= 1 /\ FeedBuffer \in Nat
    /\ MaxLost \in Nat /\ Stride \in Nat
BY AtsAssumption

------------------------------------------------------------------------------
(***************************************************************************)
(* The pallet.                                                             *)
(***************************************************************************)

Version == [block: Nat, ext: {1, 2}]
Entry == [owner: Accounts, versions: Seq(Version)]

IsPallet(p) ==
    /\ p = [next |-> p.next, live |-> p.live]
    /\ p.next \in Nat
    /\ DOMAIN p.live \subseteq 0 .. p.next - 1
    /\ p.live \in [DOMAIN p.live -> Entry]
    /\ \A i \in DOMAIN p.live : Len(p.live[i].versions) >= 1

\* What an extrinsic of position ext in block n may be.
IsOp(p, n, ext, o) ==
    /\ o.block = n /\ o.ext = ext
    /\ \/ o.kind = "create" /\ o.id = p.next /\ o.version = 0 /\ o.signer \in Accounts
       \/ /\ o.kind = "update" /\ o.id \in DOMAIN p.live /\ o.signer \in Accounts
          /\ o.version = Len(p.live[o.id].versions)
       \/ o.kind = "revoke" /\ o.id \in DOMAIN p.live

\* What the pallet keeps of the extrinsic that made a version.
Stamp(o) == [block |-> o.block, ext |-> o.ext]

\* An extrinsic the pallet accepts creates the next id, or names a live one.
LEMMA OpForms ==
    ASSUME NEW p, NEW n, NEW ext, NEW o \in Ops(p, n, ext)
    PROVE  IsOp(p, n, ext, o)
BY DEF Ops, IsOp

\* The pallet at genesis.
LEMMA NoEntriesIsPallet == IsPallet(NoEntries) /\ DOMAIN NoEntries.live = {}
BY DEF IsPallet, NoEntries

\* What a creation, an update and a revocation do to the pallet's storage.
LEMMA Creates ==
    ASSUME NEW p, IsPallet(p), NEW n \in Nat, NEW ext \in {1, 2}, NEW o,
           IsOp(p, n, ext, o), o.kind = "create"
    PROVE  LET q == Dispatch(p, o)
           IN  /\ IsPallet(q) /\ o.id \notin DOMAIN p.live
               /\ DOMAIN q.live = DOMAIN p.live \cup {o.id}
               /\ \A i \in DOMAIN p.live : q.live[i] = p.live[i]
               /\ q.live[o.id].owner = o.signer
               /\ q.live[o.id].versions = <<Stamp(o)>>
<1> DEFINE v == Stamp(o)
           new == [owner |-> o.signer, versions |-> <<v>>]
           live == [i \in DOMAIN p.live \cup {o.id} |->
                      IF i \in DOMAIN p.live THEN p.live[i] ELSE new]
<1>1. Dispatch(p, o) = [next |-> p.next + 1, live |-> live]
    BY DEF Dispatch, IsOp, Stamp
<1>2. o.id = p.next /\ o.id \notin DOMAIN p.live /\ o.signer \in Accounts
    BY DEF IsOp, IsPallet
<1>3. <<v>> \in Seq(Version) /\ Len(<<v>>) = 1
    BY DEF Version, Stamp, IsOp
<1> HIDE DEF v
<1>4. new \in Entry
    BY <1>2, <1>3 DEF Entry
<1> HIDE DEF new
<1>5. \A i \in DOMAIN p.live : p.live[i] \in Entry
    BY DEF IsPallet
<1>6. /\ live \in [DOMAIN p.live \cup {o.id} -> Entry]
      /\ \A i \in DOMAIN p.live : live[i] = p.live[i]
      /\ live[o.id] = new
    BY <1>2, <1>4, <1>5
<1> HIDE DEF live
<1>7. IsPallet([next |-> p.next + 1, live |-> live])
    <2>1. Len(new.versions) = 1
        BY <1>3 DEF new
    <2>2. DOMAIN live = DOMAIN p.live \cup {o.id}
        BY <1>6
    <2>3. \A i \in DOMAIN live : Len(live[i].versions) >= 1
        <3>1. \A i \in DOMAIN p.live : Len(live[i].versions) >= 1
            BY <1>6 DEF IsPallet
        <3>2. Len(live[o.id].versions) >= 1
            BY <1>6, <2>1
        <3> QED
            BY <2>2, <3>1, <3>2
    <2>4. p.next + 1 \in Nat /\ DOMAIN live \subseteq 0 .. p.next
        BY <1>2, <2>2 DEF IsPallet
    <2>5. live \in [DOMAIN live -> Entry]
        BY <1>6, <2>2
    <2> QED
        BY <2>3, <2>4, <2>5 DEF IsPallet
<1> QED
    BY <1>1, <1>2, <1>6, <1>7 DEF new, v

LEMMA Updates ==
    ASSUME NEW p, IsPallet(p), NEW n \in Nat, NEW ext \in {1, 2}, NEW o,
           IsOp(p, n, ext, o), o.kind = "update"
    PROVE  LET q == Dispatch(p, o)
           IN  /\ IsPallet(q) /\ DOMAIN q.live = DOMAIN p.live
               /\ \A i \in DOMAIN p.live \ {o.id} : q.live[i] = p.live[i]
               /\ q.live[o.id].owner = p.live[o.id].owner
               /\ q.live[o.id].versions
                    = Append(p.live[o.id].versions, Stamp(o))
<1> DEFINE v == Stamp(o)
           new == [p.live[o.id] EXCEPT !.versions = Append(@, v)]
           live == [p.live EXCEPT ![o.id] = new]
<1>1. Dispatch(p, o) = [p EXCEPT !.live = live]
    BY DEF Dispatch, IsOp, Stamp
<1>2. v \in Version
    BY DEF Version, Stamp, IsOp
<1> HIDE DEF v
<1>3. o.id \in DOMAIN p.live /\ p.live[o.id] \in Entry
    BY DEF IsOp, IsPallet
<1>4. /\ new \in Entry /\ new.owner = p.live[o.id].owner
      /\ new.versions = Append(p.live[o.id].versions, v)
      /\ Len(new.versions) >= 1
    <2>1. PICK a \in Accounts, s \in Seq(Version) :
              p.live[o.id] = [owner |-> a, versions |-> s]
        BY <1>3 DEF Entry
    <2>2. Append(s, v) \in Seq(Version) /\ Len(Append(s, v)) >= 1
        BY <1>2
    <2>3. new = [owner |-> a, versions |-> Append(s, v)]
        BY <2>1
    <2>4. p.live[o.id].owner = a /\ p.live[o.id].versions = s
        BY <2>1
    <2> HIDE DEF new
    <2> QED
        BY <2>2, <2>3, <2>4 DEF Entry
<1> HIDE DEF new
<1>5. /\ live \in [DOMAIN p.live -> Entry] /\ live[o.id] = new
      /\ \A i \in DOMAIN p.live \ {o.id} : live[i] = p.live[i]
    BY <1>3, <1>4 DEF IsPallet
<1> HIDE DEF live
<1>6. [p EXCEPT !.live = live] = [next |-> p.next, live |-> live]
    BY DEF IsPallet
<1>7. IsPallet([next |-> p.next, live |-> live])
    BY <1>4, <1>5 DEF IsPallet
<1> QED
    BY <1>1, <1>4, <1>5, <1>6, <1>7 DEF v

LEMMA Revokes ==
    ASSUME NEW p, IsPallet(p), NEW n, NEW ext, NEW o,
           IsOp(p, n, ext, o), o.kind = "revoke"
    PROVE  LET q == Dispatch(p, o)
           IN  /\ IsPallet(q) /\ DOMAIN q.live = DOMAIN p.live \ {o.id}
               /\ \A i \in DOMAIN q.live : q.live[i] = p.live[i]
<1> DEFINE live == [i \in DOMAIN p.live \ {o.id} |-> p.live[i]]
<1>1. Dispatch(p, o) = [p EXCEPT !.live = live]
    BY DEF Dispatch, IsOp
<1>2. /\ live \in [DOMAIN p.live \ {o.id} -> Entry]
      /\ \A i \in DOMAIN p.live \ {o.id} : live[i] = p.live[i]
    BY DEF IsPallet
<1> HIDE DEF live
<1>3. [p EXCEPT !.live = live] = [next |-> p.next, live |-> live]
    BY DEF IsPallet
<1>4. IsPallet([next |-> p.next, live |-> live])
    BY <1>2 DEF IsPallet
<1> QED
    BY <1>1, <1>2, <1>3, <1>4

\* Every accepted extrinsic leaves a storage of the pallet.
LEMMA Dispatches ==
    ASSUME NEW p, IsPallet(p), NEW n \in Nat, NEW ext \in {1, 2}, NEW o,
           IsOp(p, n, ext, o)
    PROVE  IsPallet(Dispatch(p, o))
BY Creates, Updates, Revokes DEF IsOp

------------------------------------------------------------------------------
(***************************************************************************)
(* What the tables hold of a storage, and what one extrinsic does to it.   *)
(***************************************************************************)

RegistryOf(p) ==
    [i \in DOMAIN p.live |->
       [owner |-> p.live[i].owner, created |-> p.live[i].versions[1].block,
        count |-> Len(p.live[i].versions)]]

RowAt(p, i, k) ==
    [ats |-> i, version |-> k - 1, block |-> p.live[i].versions[k].block,
     ext |-> p.live[i].versions[k].ext]

RowsOf(p) == {RowAt(p, v[1], v[2]) : v \in LiveVersions(p)}

RowOf(o) == [ats |-> o.id, version |-> o.version, block |-> o.block, ext |-> o.ext]

\* The versions of a storage and their rows, by id and position.
LEMMA VersionsListed ==
    ASSUME NEW p
    PROVE  \A v : v \in LiveVersions(p) <=>
              \E i \in DOMAIN p.live : \E k \in DOMAIN p.live[i].versions : v = <<i, k>>
<1>1. \A v : v \in LiveVersions(p) <=>
         \E i \in DOMAIN p.live : v \in {i} \X DOMAIN p.live[i].versions
    BY DEF LiveVersions
<1> QED
    BY <1>1

LEMMA RowsListed ==
    ASSUME NEW p, IsPallet(p)
    PROVE  \A r : r \in RowsOf(p) <=>
              \E i \in DOMAIN p.live : \E k \in 1 .. Len(p.live[i].versions) :
                  r = RowAt(p, i, k)
<1>1. \A i \in DOMAIN p.live : /\ p.live[i].versions \in Seq(Version)
                               /\ DOMAIN p.live[i].versions = 1 .. Len(p.live[i].versions)
    BY DEF IsPallet, Entry
<1>2. \A v : v \in LiveVersions(p) <=>
         \E i \in DOMAIN p.live : \E k \in 1 .. Len(p.live[i].versions) : v = <<i, k>>
    BY <1>1, VersionsListed
<1>3. ASSUME NEW r, r \in RowsOf(p)
      PROVE  \E i \in DOMAIN p.live : \E k \in 1 .. Len(p.live[i].versions) :
                 r = RowAt(p, i, k)
    <2>1. PICK v \in LiveVersions(p) : r = RowAt(p, v[1], v[2])
        BY <1>3 DEF RowsOf
    <2>2. PICK i \in DOMAIN p.live : \E k \in 1 .. Len(p.live[i].versions) : v = <<i, k>>
        BY <1>2, <2>1
    <2>2a. PICK k \in 1 .. Len(p.live[i].versions) : v = <<i, k>>
        BY <2>2
    <2>3. v[1] = i /\ v[2] = k
        BY <2>2a
    <2> QED
        BY <2>1, <2>3
<1>4. ASSUME NEW i \in DOMAIN p.live, NEW k \in 1 .. Len(p.live[i].versions)
      PROVE  RowAt(p, i, k) \in RowsOf(p)
    <2>1. <<i, k>> \in LiveVersions(p)
        BY <1>2
    <2>2. <<i, k>>[1] = i /\ <<i, k>>[2] = k
        OBVIOUS
    <2>3. RowAt(p, <<i, k>>[1], <<i, k>>[2]) \in RowsOf(p)
        BY <2>1, Zenon DEF RowsOf
    <2> QED
        BY <2>2, <2>3
<1> QED
    BY <1>3, <1>4

RegistryEntry == [owner: Accounts, created: Nat, count: Nat \ {0}]
VersionRow == [ats: Nat, version: Nat, block: Nat, ext: {1, 2}]

\* The two tables fit each other.
Fit(reg, rows) ==
    /\ DOMAIN reg \in SUBSET Nat /\ reg \in [DOMAIN reg -> RegistryEntry]
    /\ rows \in SUBSET VersionRow
    /\ \A r \in rows : r.ats \in DOMAIN reg /\ r.version < reg[r.ats].count

\* The tables of a storage fit each other.
LEMMA TablesFit ==
    ASSUME NEW p, IsPallet(p)
    PROVE  Fit(RegistryOf(p), RowsOf(p))
<1> DEFINE reg == RegistryOf(p)
<1>1. \A i \in DOMAIN p.live :
         /\ i \in Nat /\ p.live[i].owner \in Accounts
         /\ p.live[i].versions \in Seq(Version)
         /\ Len(p.live[i].versions) \in Nat \ {0}
    BY DEF IsPallet, Entry
<1>2. \A i \in DOMAIN p.live : \A k \in 1 .. Len(p.live[i].versions) :
         p.live[i].versions[k] \in Version
    BY <1>1
<1>3. \A i \in DOMAIN p.live : p.live[i].versions[1] \in Version
    BY <1>1, <1>2
<1>4. /\ DOMAIN reg = DOMAIN p.live
      /\ \A i \in DOMAIN reg :
           reg[i] = [owner |-> p.live[i].owner, created |-> p.live[i].versions[1].block,
                     count |-> Len(p.live[i].versions)]
    BY DEF RegistryOf
<1>4a. reg = [i \in DOMAIN reg |-> reg[i]]
    BY DEF RegistryOf
<1> HIDE DEF reg
<1>5. \A i \in DOMAIN reg : reg[i] \in RegistryEntry
    <2> SUFFICES ASSUME NEW i \in DOMAIN reg
                 PROVE  reg[i] \in RegistryEntry
        OBVIOUS
    <2>1. p.live[i].versions[1].block \in Nat
        BY <1>3, <1>4 DEF Version
    <2>2. p.live[i].owner \in Accounts /\ Len(p.live[i].versions) \in Nat \ {0}
        BY <1>1, <1>4
    <2> DEFINE e == p.live[i]
               c == e.versions[1].block
    <2>3. reg[i] = [owner |-> e.owner, created |-> c, count |-> Len(e.versions)]
        BY <1>4
    <2> HIDE DEF e, c
    <2>4. e.owner \in Accounts /\ Len(e.versions) \in Nat \ {0} /\ c \in Nat
        BY <2>1, <2>2 DEF e, c
    <2> QED
        BY <2>3, <2>4 DEF RegistryEntry
<1>6. ASSUME NEW r \in RowsOf(p)
      PROVE  r \in VersionRow /\ r.ats \in DOMAIN reg /\ r.version < reg[r.ats].count
    <2>1. PICK i \in DOMAIN p.live : \E k \in 1 .. Len(p.live[i].versions) :
              r = RowAt(p, i, k)
        BY RowsListed
    <2>2. PICK k \in 1 .. Len(p.live[i].versions) : r = RowAt(p, i, k)
        BY <2>1
    <2> DEFINE v == p.live[i].versions[k]
    <2>3. r = [ats |-> i, version |-> k - 1, block |-> v.block, ext |-> v.ext]
        BY <2>2 DEF RowAt
    <2>4. /\ v.block \in Nat /\ v.ext \in {1, 2} /\ i \in Nat
          /\ Len(p.live[i].versions) \in Nat
        <3>1. v \in Version
            BY <1>2
        <3> HIDE DEF v
        <3> QED
            BY <1>1, <3>1 DEF Version
    <2> HIDE DEF v
    <2>5. reg[i].count = Len(p.live[i].versions)
        <3>1. reg[i] = [owner |-> p.live[i].owner,
                        created |-> p.live[i].versions[1].block,
                        count |-> Len(p.live[i].versions)]
            BY <1>4, Zenon
        <3> QED
            BY <3>1
    <2>6. r \in VersionRow /\ r.ats = i /\ r.version = k - 1
        BY <2>3, <2>4 DEF VersionRow
    <2>7. k - 1 < reg[i].count
        BY <2>4, <2>5
    <2> QED
        BY <1>4, <2>6, <2>7
<1>7. DOMAIN reg \in SUBSET Nat
    BY <1>1, <1>4
<1> QED
    BY <1>4a, <1>5, <1>6, <1>7 DEF Fit, reg

\* What one extrinsic changes in the tables.
Changes(reg, rows, o, reg2, rows2) ==
    \/ /\ o.kind = "create" /\ o.id \notin DOMAIN reg /\ o.version = 0
       /\ DOMAIN reg2 = DOMAIN reg \cup {o.id}
       /\ \A i \in DOMAIN reg : reg2[i] = reg[i]
       /\ reg2[o.id].owner = o.signer /\ reg2[o.id].created = o.block
       /\ reg2[o.id].count = 1
       /\ rows2 = rows \cup {RowOf(o)}
    \/ /\ o.kind = "update" /\ o.id \in DOMAIN reg /\ o.version = reg[o.id].count
       /\ DOMAIN reg2 = DOMAIN reg
       /\ \A i \in DOMAIN reg \ {o.id} : reg2[i] = reg[i]
       /\ reg2[o.id].owner = reg[o.id].owner /\ reg2[o.id].created = reg[o.id].created
       /\ reg2[o.id].count = o.version + 1
       /\ rows2 = rows \cup {RowOf(o)}
    \/ /\ o.kind = "revoke" /\ o.id \in DOMAIN reg
       /\ DOMAIN reg2 = DOMAIN reg \ {o.id}
       /\ \A i \in DOMAIN reg2 : reg2[i] = reg[i]
       /\ rows2 = {r \in rows : r.ats # o.id}

\* An id whose entry an extrinsic leaves alone keeps its rows.
LEMMA SameEntrySameRows ==
    ASSUME NEW p, NEW q, NEW i, i \in DOMAIN p.live, i \in DOMAIN q.live,
           q.live[i] = p.live[i]
    PROVE  /\ RegistryOf(q)[i] = RegistryOf(p)[i]
           /\ \A k : RowAt(q, i, k) = RowAt(p, i, k)
BY DEF RegistryOf, RowAt

\* Each kind of extrinsic changes the two tables as it says.
LEMMA CreateChanges ==
    ASSUME NEW p, IsPallet(p), NEW n \in Nat, NEW ext \in {1, 2}, NEW o,
           IsOp(p, n, ext, o), o.kind = "create"
    PROVE  Changes(RegistryOf(p), RowsOf(p), o, RegistryOf(Dispatch(p, o)),
                   RowsOf(Dispatch(p, o)))
<1> DEFINE q == Dispatch(p, o)
           v == Stamp(o)
<1>1. /\ IsPallet(q) /\ o.id \notin DOMAIN p.live
      /\ DOMAIN q.live = DOMAIN p.live \cup {o.id}
      /\ \A i \in DOMAIN p.live : q.live[i] = p.live[i]
      /\ q.live[o.id].owner = o.signer /\ q.live[o.id].versions = <<v>>
    BY Creates
<1> HIDE DEF q
<1>2. o.block = n /\ o.ext = ext /\ o.version = 0
    BY DEF IsOp
<1>v. v.block = n /\ v.ext = ext
    BY <1>2 DEF Stamp
<1> HIDE DEF v
<1>3. DOMAIN RegistryOf(p) = DOMAIN p.live /\ DOMAIN RegistryOf(q) = DOMAIN q.live
    BY DEF RegistryOf
<1>4. RegistryOf(q)[o.id] = [owner |-> o.signer, created |-> o.block, count |-> 1]
    <2>1. <<v>>[1].block = n /\ Len(<<v>>) = 1
        BY <1>v
    <2>2. RegistryOf(q)[o.id] = [owner |-> q.live[o.id].owner,
                                 created |-> q.live[o.id].versions[1].block,
                                 count |-> Len(q.live[o.id].versions)]
        BY <1>1 DEF RegistryOf
    <2> QED
        BY <1>1, <1>2, <2>1, <2>2
<1>5. RowAt(q, o.id, 1) = RowOf(o) /\ Len(q.live[o.id].versions) = 1
    <2>1. <<v>>[1] = v /\ Len(<<v>>) = 1
        OBVIOUS
    <2>2. q.live[o.id].versions[1] = v
        BY <1>1, <2>1
    <2>3. RowAt(q, o.id, 1) = RowOf(o)
        BY <1>2, <1>v, <2>2 DEF RowAt, RowOf
    <2> QED
        BY <1>1, <2>1, <2>3
<1>6. \A i \in DOMAIN p.live : /\ RegistryOf(q)[i] = RegistryOf(p)[i]
                               /\ \A k : RowAt(q, i, k) = RowAt(p, i, k)
                               /\ q.live[i] = p.live[i]
    BY <1>1, SameEntrySameRows
<1>7. RowsOf(q) = RowsOf(p) \cup {RowOf(o)}
    <2>1. \A r : r \in RowsOf(q) <=>
             \E i \in DOMAIN q.live : \E k \in 1 .. Len(q.live[i].versions) :
                 r = RowAt(q, i, k)
        BY <1>1, RowsListed
    <2>2. \A r : r \in RowsOf(p) <=>
             \E i \in DOMAIN p.live : \E k \in 1 .. Len(p.live[i].versions) :
                 r = RowAt(p, i, k)
        BY RowsListed
    <2>3. ASSUME NEW r \in RowsOf(q)
          PROVE  r \in RowsOf(p) \cup {RowOf(o)}
        <3>1. PICK i \in DOMAIN q.live : \E k \in 1 .. Len(q.live[i].versions) :
                  r = RowAt(q, i, k)
            BY <2>1
        <3>2. CASE i \in DOMAIN p.live
            BY <1>6, <2>2, <3>1, <3>2
        <3>3. CASE i = o.id
            BY <1>5, <3>1, <3>3
        <3> QED
            BY <1>1, <3>2, <3>3
    <2>4. ASSUME NEW r \in RowsOf(p)
          PROVE  r \in RowsOf(q)
        BY <1>1, <1>6, <2>1, <2>2
    <2>5. RowOf(o) \in RowsOf(q)
        <3>1. o.id \in DOMAIN q.live /\ 1 \in 1 .. Len(q.live[o.id].versions)
            BY <1>1, <1>5
        <3> QED
            BY <1>5, <2>1, <3>1
    <2> QED
        BY <2>3, <2>4, <2>5
<1> QED
    BY <1>1, <1>2, <1>3, <1>4, <1>6, <1>7 DEF Changes, q

LEMMA UpdateChanges ==
    ASSUME NEW p, IsPallet(p), NEW n \in Nat, NEW ext \in {1, 2}, NEW o,
           IsOp(p, n, ext, o), o.kind = "update"
    PROVE  Changes(RegistryOf(p), RowsOf(p), o, RegistryOf(Dispatch(p, o)),
                   RowsOf(Dispatch(p, o)))
<1> DEFINE q == Dispatch(p, o)
           v == Stamp(o)
           s == p.live[o.id].versions
<1>1. /\ IsPallet(q) /\ DOMAIN q.live = DOMAIN p.live
      /\ \A i \in DOMAIN p.live \ {o.id} : q.live[i] = p.live[i]
      /\ q.live[o.id].owner = p.live[o.id].owner
      /\ q.live[o.id].versions = Append(s, v)
    BY Updates, SMTT(60)
<1> HIDE DEF q
<1>2. o.block = n /\ o.ext = ext /\ o.version = Len(s) /\ o.id \in DOMAIN p.live
    BY DEF IsOp
<1>v. v.block = n /\ v.ext = ext /\ v \in Version
    BY <1>2 DEF Stamp, Version
<1> HIDE DEF v
<1>3. s \in Seq(Version) /\ Len(s) \in Nat /\ Len(s) >= 1
    BY <1>2 DEF IsPallet, Entry
<1>s. /\ Len(Append(s, v)) = Len(s) + 1 /\ Append(s, v)[Len(s) + 1] = v
      /\ \A k \in 1 .. Len(s) : Append(s, v)[k] = s[k]
    <2> HIDE DEF s
    <2> QED
        BY <1>v, <1>3
<1>4. DOMAIN RegistryOf(p) = DOMAIN p.live /\ DOMAIN RegistryOf(q) = DOMAIN q.live
    BY DEF RegistryOf
<1>5. /\ RegistryOf(p)[o.id] = [owner |-> p.live[o.id].owner,
                                created |-> s[1].block, count |-> Len(s)]
      /\ RegistryOf(q)[o.id] = [owner |-> p.live[o.id].owner,
                                created |-> Append(s, v)[1].block,
                                count |-> Len(Append(s, v))]
    BY <1>1, <1>2 DEF RegistryOf
<1> HIDE DEF s
<1>6. /\ RegistryOf(q)[o.id] = [owner |-> RegistryOf(p)[o.id].owner,
                                created |-> RegistryOf(p)[o.id].created,
                                count |-> o.version + 1]
      /\ o.version = RegistryOf(p)[o.id].count
    <2>1. Append(s, v)[1] = s[1]
        BY <1>3, <1>s
    <2> QED
        BY <1>2, <1>5, <1>s, <2>1
<1>7. \A i \in DOMAIN p.live \ {o.id} : /\ RegistryOf(q)[i] = RegistryOf(p)[i]
                                        /\ \A k : RowAt(q, i, k) = RowAt(p, i, k)
                                        /\ q.live[i] = p.live[i]
    <2> SUFFICES ASSUME NEW i \in DOMAIN p.live \ {o.id}
                 PROVE  /\ RegistryOf(q)[i] = RegistryOf(p)[i]
                        /\ \A k : RowAt(q, i, k) = RowAt(p, i, k)
                        /\ q.live[i] = p.live[i]
        OBVIOUS
    <2>1. i \in DOMAIN p.live /\ i \in DOMAIN q.live /\ q.live[i] = p.live[i]
        BY <1>1
    <2> QED
        BY <2>1, SameEntrySameRows
<1>8. /\ RowAt(q, o.id, Len(s) + 1) = RowOf(o)
      /\ \A k \in 1 .. Len(s) : RowAt(q, o.id, k) = RowAt(p, o.id, k)
    <2>1. q.live[o.id].versions[Len(s) + 1] = v
        BY <1>1, <1>s
    <2>2. \A k \in 1 .. Len(s) :
             q.live[o.id].versions[k] = p.live[o.id].versions[k]
        BY <1>1, <1>s DEF s
    <2>3. Len(s) + 1 - 1 = o.version
        BY <1>2, <1>3
    <2>4. RowAt(q, o.id, Len(s) + 1) = RowOf(o)
        BY <1>2, <1>v, <2>1, <2>3 DEF RowAt, RowOf
    <2>5. \A k \in 1 .. Len(s) : RowAt(q, o.id, k) = RowAt(p, o.id, k)
        BY <2>2 DEF RowAt
    <2> QED
        BY <2>4, <2>5
<1>9. RowsOf(q) = RowsOf(p) \cup {RowOf(o)}
    <2>1. \A r : r \in RowsOf(q) <=>
             \E i \in DOMAIN q.live : \E k \in 1 .. Len(q.live[i].versions) :
                 r = RowAt(q, i, k)
        BY <1>1, RowsListed
    <2>2. \A r : r \in RowsOf(p) <=>
             \E i \in DOMAIN p.live : \E k \in 1 .. Len(p.live[i].versions) :
                 r = RowAt(p, i, k)
        BY RowsListed
    <2>6. Len(q.live[o.id].versions) = Len(s) + 1
        BY <1>1, <1>s
    <2>3. ASSUME NEW r \in RowsOf(q)
          PROVE  r \in RowsOf(p) \cup {RowOf(o)}
        <3>1. PICK i \in DOMAIN q.live : \E k \in 1 .. Len(q.live[i].versions) :
                  r = RowAt(q, i, k)
            BY <2>1
        <3>2. CASE i # o.id
            BY <1>1, <1>7, <2>2, <3>1, <3>2
        <3>3. CASE i = o.id
            <4>1. PICK k \in 1 .. Len(s) + 1 : r = RowAt(q, o.id, k)
                BY <2>6, <3>1, <3>3
            <4>2. CASE k = Len(s) + 1
                BY <1>8, <4>1, <4>2
            <4>3. CASE k \in 1 .. Len(s)
                <5>1. r = RowAt(p, o.id, k)
                    BY <1>8, <4>1, <4>3
                <5>2. k \in 1 .. Len(p.live[o.id].versions)
                    BY <4>3 DEF s
                <5> QED
                    BY <1>2, <2>2, <5>1, <5>2
            <4> QED
                BY <1>3, <4>2, <4>3
        <3> QED
            BY <3>2, <3>3
    <2>4. ASSUME NEW r \in RowsOf(p)
          PROVE  r \in RowsOf(q)
        <3>1. PICK i \in DOMAIN p.live : \E k \in 1 .. Len(p.live[i].versions) :
                  r = RowAt(p, i, k)
            BY <2>2
        <3>2. CASE i # o.id
            BY <1>1, <1>7, <2>1, <3>1, <3>2
        <3>3. CASE i = o.id
            <4>1. PICK k \in 1 .. Len(s) : r = RowAt(p, o.id, k)
                BY <3>1, <3>3 DEF s
            <4>2. k \in 1 .. Len(q.live[o.id].versions) /\ r = RowAt(q, o.id, k)
                BY <1>3, <1>8, <2>6, <4>1
            <4> QED
                BY <1>1, <1>2, <2>1, <4>2
        <3> QED
            BY <3>2, <3>3
    <2>5. RowOf(o) \in RowsOf(q)
        <3>1. Len(s) + 1 \in 1 .. Len(q.live[o.id].versions)
            BY <1>3, <2>6
        <3> QED
            BY <1>1, <1>2, <1>8, <2>1, <3>1
    <2> QED
        BY <2>3, <2>4, <2>5
<1> QED
    BY <1>1, <1>2, <1>4, <1>6, <1>7, <1>9 DEF Changes, q

LEMMA RevokeChanges ==
    ASSUME NEW p, IsPallet(p), NEW n \in Nat, NEW ext \in {1, 2}, NEW o,
           IsOp(p, n, ext, o), o.kind = "revoke"
    PROVE  Changes(RegistryOf(p), RowsOf(p), o, RegistryOf(Dispatch(p, o)),
                   RowsOf(Dispatch(p, o)))
<1> DEFINE q == Dispatch(p, o)
<1>1. /\ IsPallet(q) /\ DOMAIN q.live = DOMAIN p.live \ {o.id}
      /\ \A i \in DOMAIN q.live : q.live[i] = p.live[i]
    BY Revokes
<1> HIDE DEF q
<1>2. o.id \in DOMAIN p.live
    BY DEF IsOp
<1>3. DOMAIN RegistryOf(p) = DOMAIN p.live /\ DOMAIN RegistryOf(q) = DOMAIN q.live
    BY DEF RegistryOf
<1>4. \A i \in DOMAIN q.live : /\ RegistryOf(q)[i] = RegistryOf(p)[i]
                               /\ \A k : RowAt(q, i, k) = RowAt(p, i, k)
                               /\ q.live[i] = p.live[i]
    BY <1>1, SameEntrySameRows
<1>5. \A i, k : RowAt(p, i, k).ats = i
    BY DEF RowAt
<1>6. RowsOf(q) = {r \in RowsOf(p) : r.ats # o.id}
    <2>1. \A r : r \in RowsOf(q) <=>
             \E i \in DOMAIN q.live : \E k \in 1 .. Len(q.live[i].versions) :
                 r = RowAt(q, i, k)
        BY <1>1, RowsListed
    <2>2. \A r : r \in RowsOf(p) <=>
             \E i \in DOMAIN p.live : \E k \in 1 .. Len(p.live[i].versions) :
                 r = RowAt(p, i, k)
        BY RowsListed
    <2>3. ASSUME NEW r \in RowsOf(q)
          PROVE  r \in RowsOf(p) /\ r.ats # o.id
        BY <1>1, <1>4, <1>5, <2>1, <2>2
    <2>4. ASSUME NEW r \in RowsOf(p), r.ats # o.id
          PROVE  r \in RowsOf(q)
        BY <1>1, <1>4, <1>5, <2>1, <2>2, <2>4
    <2> QED
        BY <2>3, <2>4
<1> QED
    BY <1>1, <1>2, <1>3, <1>4, <1>6 DEF Changes, q

\* Every accepted extrinsic changes the tables in one of the three ways.
LEMMA OpChanges ==
    ASSUME NEW p, IsPallet(p), NEW n \in Nat, NEW ext \in {1, 2}, NEW o,
           IsOp(p, n, ext, o)
    PROVE  Changes(RegistryOf(p), RowsOf(p), o, RegistryOf(Dispatch(p, o)),
                   RowsOf(Dispatch(p, o)))
<1>1. o.kind \in {"create", "update", "revoke"}
    BY DEF IsOp
<1> QED
    BY <1>1, CreateChanges, UpdateChanges, RevokeChanges

(***************************************************************************)
(* The same extrinsics grouped by effect, as the indexer stores them.      *)
(***************************************************************************)

Made(S, i) == \E x \in S : x.kind = "create" /\ x.id = i
Gone(S, i) == \E x \in S : x.kind = "revoke" /\ x.id = i
BumpedTo(S, i, c) == \E x \in S : x.kind = "update" /\ x.id = i /\ c = x.version + 1

\* What the extrinsics S of one block change in the tables, whatever their order.
Grouped(S, reg, rows, reg2, rows2) ==
    /\ \A x \in S : x.kind = "create" =>
         /\ x.id \notin DOMAIN reg
         /\ \A y \in S : y.kind = "create" /\ y.id = x.id => y = x
    /\ \A x \in S : x.kind = "update" => x.id \in DOMAIN reg \/ Made(S, x.id)
    /\ \A x \in S : x.kind # "revoke" =>
         \A r \in rows : r.ats # x.id \/ r.version # x.version
    /\ \A i : i \in DOMAIN reg2 <=> (i \in DOMAIN reg \/ Made(S, i)) /\ ~Gone(S, i)
    /\ \A r : r \in rows2 <=>
         /\ r \in rows \/ \E x \in S : x.kind # "revoke" /\ r = RowOf(x)
         /\ ~Gone(S, r.ats)
    /\ \A i \in DOMAIN reg2 : \A c : BumpedTo(S, i, c) => c \in Nat /\ c <= reg2[i].count
    /\ \A i \in DOMAIN reg2 : i \in DOMAIN reg =>
         /\ reg2[i].owner = reg[i].owner /\ reg2[i].created = reg[i].created
         /\ reg2[i].count >= reg[i].count
         /\ reg2[i].count = reg[i].count \/ BumpedTo(S, i, reg2[i].count)
    /\ \A i \in DOMAIN reg2, x \in S : x.kind = "create" /\ x.id = i =>
         /\ reg2[i].owner = x.signer /\ reg2[i].created = x.block
         /\ reg2[i].count = 1 \/ BumpedTo(S, i, reg2[i].count)

\* The operations of a block, grouped by effect: a block of one, and a block of two in
\* every combination of kinds, the same id or different ones.
LEMMA OneGrouped ==
    ASSUME NEW reg, NEW rows, NEW o, NEW reg2, NEW rows2,
           Fit(reg, rows), Fit(reg2, rows2), Changes(reg, rows, o, reg2, rows2)
    PROVE  Grouped({o}, reg, rows, reg2, rows2)
<1> DEFINE S == {o}
<1>1. /\ \A i \in DOMAIN reg : reg[i].count \in Nat \ {0}
      /\ \A i \in DOMAIN reg2 : reg2[i].count \in Nat \ {0}
      /\ \A r \in rows : /\ r.ats \in DOMAIN reg /\ r.version \in Nat
                         /\ r.version < reg[r.ats].count
    BY DEF Fit, RegistryEntry, VersionRow
<1>2. RowOf(o).ats = o.id
    BY DEF RowOf
<1>3. \A i : /\ Made(S, i) <=> o.kind = "create" /\ o.id = i
             /\ Gone(S, i) <=> o.kind = "revoke" /\ o.id = i
             /\ \A c : BumpedTo(S, i, c) <=>
                          o.kind = "update" /\ o.id = i /\ c = o.version + 1
    BY DEF Made, Gone, BumpedTo
<1>o. o.kind \in {"create", "update", "revoke"}
    BY DEF Changes
<1> HIDE DEF S
<1>S. \A x : x \in S <=> x = o
    BY DEF S
<1>4. \A x \in S : x.kind = "create" =>
         /\ x.id \notin DOMAIN reg
         /\ \A y \in S : y.kind = "create" /\ y.id = x.id => y = x
    BY <1>1, <1>S DEF Changes
<1>5. \A x \in S : x.kind = "update" => x.id \in DOMAIN reg \/ Made(S, x.id)
    BY <1>3, <1>S DEF Changes
<1>6. \A x \in S : x.kind # "revoke" =>
         \A r \in rows : r.ats # x.id \/ r.version # x.version
    BY <1>1, <1>S DEF Changes
<1>7. \A i : i \in DOMAIN reg2 <=> (i \in DOMAIN reg \/ Made(S, i)) /\ ~Gone(S, i)
    BY <1>3 DEF Changes
<1>8. \A r : r \in rows2 <=>
         /\ r \in rows \/ \E x \in S : x.kind # "revoke" /\ r = RowOf(x)
         /\ ~Gone(S, r.ats)
    BY <1>1, <1>2, <1>3, <1>S DEF Changes
<1>9. \A i \in DOMAIN reg2 : \A c : BumpedTo(S, i, c) => c \in Nat /\ c <= reg2[i].count
    <2>1. o.kind = "update" => o.version \in Nat /\ reg2[o.id].count = o.version + 1
        BY <1>1 DEF Changes
    <2> SUFFICES ASSUME NEW i \in DOMAIN reg2, NEW c, BumpedTo(S, i, c)
                 PROVE  c \in Nat /\ c <= reg2[i].count
        OBVIOUS
    <2>2. o.kind = "update" /\ o.id = i /\ c = o.version + 1
        BY <1>3
    <2> QED
        BY <2>1, <2>2
<1>10. \A i \in DOMAIN reg2 : i \in DOMAIN reg =>
         /\ reg2[i].owner = reg[i].owner /\ reg2[i].created = reg[i].created
         /\ reg2[i].count >= reg[i].count
         /\ reg2[i].count = reg[i].count \/ BumpedTo(S, i, reg2[i].count)
    BY <1>1, <1>3 DEF Changes
<1>11. \A i \in DOMAIN reg2, x \in S : x.kind = "create" /\ x.id = i =>
         /\ reg2[i].owner = x.signer /\ reg2[i].created = x.block
         /\ reg2[i].count = 1 \/ BumpedTo(S, i, reg2[i].count)
    BY <1>1, <1>3, <1>S DEF Changes
<1> QED
    BY <1>4, <1>5, <1>6, <1>7, <1>8, <1>9, <1>10, <1>11 DEF Grouped, S

LEMMA TwoGrouped ==
    ASSUME NEW reg, NEW rows, NEW o, NEW reg1, NEW rows1, NEW p, NEW reg2, NEW rows2,
           Fit(reg, rows), Fit(reg1, rows1), Fit(reg2, rows2),
           Changes(reg, rows, o, reg1, rows1), Changes(reg1, rows1, p, reg2, rows2),
           p.kind = "create" => p.id # o.id
    PROVE  Grouped({o, p}, reg, rows, reg2, rows2)
<1> DEFINE S == {o, p}
<1>1. /\ \A i \in DOMAIN reg : reg[i].count \in Nat \ {0}
      /\ \A i \in DOMAIN reg1 : reg1[i].count \in Nat \ {0}
      /\ \A i \in DOMAIN reg2 : reg2[i].count \in Nat \ {0}
      /\ \A r \in rows : /\ r.ats \in DOMAIN reg /\ r.version \in Nat
                         /\ r.version < reg[r.ats].count
    BY DEF Fit, RegistryEntry, VersionRow
<1>2. RowOf(o).ats = o.id /\ RowOf(p).ats = p.id
    BY DEF RowOf
<1>3. \A i : /\ Made(S, i) <=> \/ o.kind = "create" /\ o.id = i
                               \/ p.kind = "create" /\ p.id = i
             /\ Gone(S, i) <=> \/ o.kind = "revoke" /\ o.id = i
                               \/ p.kind = "revoke" /\ p.id = i
             /\ \A c : BumpedTo(S, i, c) <=>
                          \/ o.kind = "update" /\ o.id = i /\ c = o.version + 1
                          \/ p.kind = "update" /\ p.id = i /\ c = p.version + 1
    BY DEF Made, Gone, BumpedTo
<1>o. o.kind \in {"create", "update", "revoke"} /\ p.kind \in {"create", "update", "revoke"}
    BY DEF Changes
<1> HIDE DEF S
<1>S. \A x : x \in S <=> x = o \/ x = p
    BY DEF S
<1>4. \A x \in S : x.kind = "create" =>
         /\ x.id \notin DOMAIN reg
         /\ \A y \in S : y.kind = "create" /\ y.id = x.id => y = x
    BY <1>1, <1>S DEF Changes
<1>5. \A x \in S : x.kind = "update" => x.id \in DOMAIN reg \/ Made(S, x.id)
    BY <1>3, <1>S DEF Changes
<1>6. \A x \in S : x.kind # "revoke" =>
         \A r \in rows : r.ats # x.id \/ r.version # x.version
    BY <1>1, <1>S DEF Changes
<1>7. \A i : i \in DOMAIN reg2 <=> (i \in DOMAIN reg \/ Made(S, i)) /\ ~Gone(S, i)
    BY <1>3 DEF Changes
<1>8. \A r : r \in rows2 <=>
         /\ r \in rows \/ \E x \in S : x.kind # "revoke" /\ r = RowOf(x)
         /\ ~Gone(S, r.ats)
    BY <1>1, <1>2, <1>3, <1>S DEF Changes
<1>9. \A i \in DOMAIN reg2 : \A c : BumpedTo(S, i, c) => c \in Nat /\ c <= reg2[i].count
    <2>1. o.kind = "update" =>
              /\ o.version \in Nat /\ reg1[o.id].count = o.version + 1
              /\ o.id \in DOMAIN reg2 =>
                   \/ reg2[o.id].count = reg1[o.id].count
                   \/ p.version = reg1[o.id].count /\ reg2[o.id].count = p.version + 1
        BY <1>1 DEF Changes
    <2>2. p.kind = "update" => p.version \in Nat /\ reg2[p.id].count = p.version + 1
        BY <1>1 DEF Changes
    <2> SUFFICES ASSUME NEW i \in DOMAIN reg2, NEW c, BumpedTo(S, i, c)
                 PROVE  c \in Nat /\ c <= reg2[i].count
        OBVIOUS
    <2>3. \/ o.kind = "update" /\ o.id = i /\ c = o.version + 1
          \/ p.kind = "update" /\ p.id = i /\ c = p.version + 1
        BY <1>3
    <2> QED
        BY <2>1, <2>2, <2>3
<1>10. \A i \in DOMAIN reg2 : i \in DOMAIN reg =>
         /\ reg2[i].owner = reg[i].owner /\ reg2[i].created = reg[i].created
         /\ reg2[i].count >= reg[i].count
         /\ reg2[i].count = reg[i].count \/ BumpedTo(S, i, reg2[i].count)
    <2> SUFFICES ASSUME NEW i \in DOMAIN reg2, i \in DOMAIN reg
                 PROVE  /\ reg2[i].owner = reg[i].owner
                        /\ reg2[i].created = reg[i].created
                        /\ reg2[i].count >= reg[i].count
                        /\ \/ reg2[i].count = reg[i].count
                           \/ BumpedTo(S, i, reg2[i].count)
        OBVIOUS
    <2>1. /\ i \in DOMAIN reg1
          /\ reg1[i].owner = reg[i].owner /\ reg1[i].created = reg[i].created
          /\ \/ reg1[i].count = reg[i].count
             \/ /\ o.kind = "update" /\ o.id = i /\ o.version = reg[i].count
                /\ reg1[i].count = o.version + 1
        BY DEF Changes
    <2>2. /\ reg2[i].owner = reg1[i].owner /\ reg2[i].created = reg1[i].created
          /\ \/ reg2[i].count = reg1[i].count
             \/ /\ p.kind = "update" /\ p.id = i /\ p.version = reg1[i].count
                /\ reg2[i].count = p.version + 1
        BY <2>1 DEF Changes
    <2>3. reg[i].count \in Nat /\ reg1[i].count \in Nat /\ reg2[i].count \in Nat
        BY <1>1, <2>1
    <2> QED
        BY <1>3, <2>1, <2>2, <2>3
<1>11. \A i \in DOMAIN reg2, x \in S : x.kind = "create" /\ x.id = i =>
         /\ reg2[i].owner = x.signer /\ reg2[i].created = x.block
         /\ reg2[i].count = 1 \/ BumpedTo(S, i, reg2[i].count)
    <2> SUFFICES ASSUME NEW i \in DOMAIN reg2, NEW x \in S, x.kind = "create", x.id = i
                 PROVE  /\ reg2[i].owner = x.signer /\ reg2[i].created = x.block
                        /\ reg2[i].count = 1 \/ BumpedTo(S, i, reg2[i].count)
        OBVIOUS
    <2>1. CASE x = o
        <3>1. /\ i \in DOMAIN reg1 /\ reg1[i].owner = x.signer
              /\ reg1[i].created = x.block /\ reg1[i].count = 1
            BY <2>1 DEF Changes
        <3>2. /\ reg2[i].owner = reg1[i].owner /\ reg2[i].created = reg1[i].created
              /\ \/ reg2[i].count = reg1[i].count
                 \/ /\ p.kind = "update" /\ p.id = i
                    /\ reg2[i].count = p.version + 1
            BY <3>1 DEF Changes
        <3> QED
            BY <1>3, <3>1, <3>2
    <2>2. CASE x = p
        BY <2>2 DEF Changes
    <2> QED
        BY <1>S, <2>1, <2>2
<1> QED
    BY <1>4, <1>5, <1>6, <1>7, <1>8, <1>9, <1>10, <1>11 DEF Grouped, S


\* GREATEST in the upsert of a count.
LEMMA MaxIsGreatest ==
    ASSUME NEW T \in SUBSET Nat, NEW m \in T, \A x \in T : x <= m
    PROVE  Max(T) = m
<1>1. \A x \in T : (\A y \in T : x >= y) <=> x = m
    <2> SUFFICES ASSUME NEW x \in T
                 PROVE  (\A y \in T : x >= y) <=> x = m
        OBVIOUS
    <2>1. x \in Nat /\ m \in Nat
        OBVIOUS
    <2>2. (\A y \in T : x >= y) => x = m
        BY <2>1
    <2>3. x = m => \A y \in T : x >= y
        OBVIOUS
    <2> QED
        BY <2>2, <2>3
<1> QED
    BY <1>1 DEF Max

\* A row of the registry whose count is raised to the greatest one named.
LEMMA RaisedEntry ==
    ASSUME NEW e \in RegistryEntry, NEW B \in SUBSET Nat, NEW f \in RegistryEntry,
           f.owner = e.owner, f.created = e.created, f.count \in {e.count} \cup B,
           \A x \in {e.count} \cup B : x <= f.count
    PROVE  [e EXCEPT !.count = Max({@} \cup B)] = f
<1>1. {e.count} \cup B \in SUBSET Nat
    BY DEF RegistryEntry
<1>2. Max({e.count} \cup B) = f.count
    BY <1>1, MaxIsGreatest
<1>3. [e EXCEPT !.count = Max({@} \cup B)]
        = [owner |-> e.owner, created |-> e.created, count |-> Max({e.count} \cup B)]
    BY DEF RegistryEntry
<1> QED
    BY <1>2, <1>3 DEF RegistryEntry

\* The row a creation inserts.
Creation(x) == [id |-> x.id, owner |-> x.signer, created |-> x.block]

\* The four groups of Project.
LEMMA Projected ==
    ASSUME NEW block, NEW S, S = Range(block), NEW ops, ops = Project(block),
           \A x \in S : x.kind \in {"create", "update", "revoke"}
    PROVE  /\ \A r : r \in ops.registry_inserts <=>
                \E x \in S : x.kind = "create" /\ r = Creation(x)
           /\ \A r : r \in ops.version_inserts <=>
                \E x \in S : x.kind # "revoke" /\ r = RowOf(x)
           /\ \A b : b \in ops.version_count_bumps <=>
                \E x \in S : /\ x.kind = "update"
                             /\ b = [id |-> x.id, count |-> x.version + 1]
           /\ \A i : i \in ops.revocations <=> Gone(S, i)
<1> DEFINE of(kind) == {x \in S : x.kind = kind}
           row(x) == [ats |-> x.id, version |-> x.version, block |-> x.block,
                      ext |-> x.ext]
<1>1. /\ ops.registry_inserts
           = {[id |-> x.id, owner |-> x.signer, created |-> x.block] : x \in of("create")}
      /\ ops.version_inserts = {row(x) : x \in of("create") \cup of("update")}
      /\ ops.version_count_bumps
           = {[id |-> x.id, count |-> x.version + 1] : x \in of("update")}
      /\ ops.revocations = {x.id : x \in of("revoke")}
    BY DEF Project
<1>2. \A k, x : x \in of(k) <=> x \in S /\ x.kind = k
    OBVIOUS
<1>3. \A x \in S : x \in of("create") \cup of("update") <=> x.kind # "revoke"
    OBVIOUS
<1>4. \A x : row(x) = RowOf(x)
    BY DEF RowOf
<1>5. \A x \in of("create") \cup of("update") : x \in S
    OBVIOUS
<1> HIDE DEF of, row
<1>6. \A r : r \in ops.version_inserts <=>
         \E x \in S : x.kind # "revoke" /\ r = RowOf(x)
    <2>1. \A r : r \in ops.version_inserts <=>
             \E x \in of("create") \cup of("update") : r = row(x)
        BY <1>1
    <2> QED
        BY <1>3, <1>4, <1>5, <2>1
<1>7. \A i : i \in ops.revocations <=> Gone(S, i)
    BY <1>1, <1>2 DEF Gone
<1>8. \A b : b \in ops.version_count_bumps <=>
         \E x \in S : /\ x.kind = "update"
                      /\ b = [id |-> x.id, count |-> x.version + 1]
    BY <1>1, <1>2
<1>9. \A r : r \in ops.registry_inserts <=>
         \E x \in S : x.kind = "create" /\ r = Creation(x)
    BY <1>1, <1>2 DEF Creation
<1> QED
    BY <1>6, <1>7, <1>8, <1>9

\* The one row an insertion finds for a new id.
LEMMA InsertedEntry ==
    ASSUME NEW reg, NEW inserts, NEW S, NEW x \in S, x.kind = "create",
           x.id \notin DOMAIN reg, \A y \in S : y.kind = "create" /\ y.id = x.id => y = x,
           \A r : r \in inserts <=>
                \E y \in S : y.kind = "create" /\ r = Creation(y)
    PROVE  /\ x.id \in DOMAIN InsertRegistry(reg, inserts)
           /\ InsertRegistry(reg, inserts)[x.id]
                = [owner |-> x.signer, created |-> x.block, count |-> 1]
<1> DEFINE mine == Creation(x)
           pick == CHOOSE r \in inserts : r.id = x.id
<1>1. mine \in inserts /\ mine.id = x.id
    BY DEF Creation
<1>2. \A r \in inserts : r.id = x.id => r = mine
    BY DEF Creation
<1>3. pick = mine
    <2> HIDE DEF mine
    <2> QED
        BY <1>1, <1>2
<1>4. mine.owner = x.signer /\ mine.created = x.block
    BY DEF Creation
<1>5. x.id \in {r.id : r \in inserts}
    BY <1>1
<1>6. /\ x.id \in DOMAIN InsertRegistry(reg, inserts)
      /\ InsertRegistry(reg, inserts)[x.id]
           = [owner |-> pick.owner, created |-> pick.created, count |-> 1]
    <2> HIDE DEF mine
    <2> QED
        BY <1>5 DEF InsertRegistry
<1> HIDE DEF mine, pick
<1> QED
    BY <1>3, <1>4, <1>6


\* apply_ats brings the tables to the storage the block left.
LEMMA GroupsApply ==
    ASSUME NEW block, NEW reg, NEW rows, NEW reg2, NEW rows2, NEW S, S = Range(block),
           \A x \in S : x.kind \in {"create", "update", "revoke"},
           Fit(reg, rows), Fit(reg2, rows2), Grouped(S, reg, rows, reg2, rows2),
           NEW ops, ops = Project(block),
           NEW inserted, inserted = InsertRegistry(reg, ops.registry_inserts),
           NEW bumped, bumped = BumpCounts(inserted, ops.version_count_bumps)
    PROVE  /\ ForeignKeyHolds(inserted, ops.version_inserts)
           /\ reg2 = [i \in DOMAIN bumped \ ops.revocations |-> bumped[i]]
           /\ rows2 = Revoke(InsertVersions(rows, ops.version_inserts), ops.revocations)
<1>1. /\ \A r : r \in ops.registry_inserts <=>
              \E x \in S : x.kind = "create" /\ r = Creation(x)
      /\ \A r : r \in ops.version_inserts <=>
              \E x \in S : x.kind # "revoke" /\ r = RowOf(x)
      /\ \A b : b \in ops.version_count_bumps <=>
              \E x \in S : /\ x.kind = "update"
                           /\ b = [id |-> x.id, count |-> x.version + 1]
      /\ \A i : i \in ops.revocations <=> Gone(S, i)
    BY Projected
<1> DEFINE inserts == ops.registry_inserts
           rowset == ops.version_inserts
           bumps == ops.version_count_bumps
<1>2. DOMAIN bumped = DOMAIN inserted
    BY DEF BumpCounts
<1>3. \A i : i \in DOMAIN inserted <=> i \in DOMAIN reg \/ Made(S, i)
    <2>1. DOMAIN inserted = DOMAIN reg \cup {r.id : r \in inserts}
        BY DEF InsertRegistry
    <2>2. \A i : i \in {r.id : r \in inserts} <=> Made(S, i)
        <3>1. ASSUME NEW i, i \in {r.id : r \in inserts}
              PROVE  Made(S, i)
            <4>1. PICK r \in inserts : i = r.id
                BY <3>1
            <4>2. PICK x \in S : x.kind = "create" /\ r = Creation(x)
                BY <1>1, <4>1
            <4> QED
                BY <4>1, <4>2 DEF Made, Creation
        <3>2. ASSUME NEW i, Made(S, i)
              PROVE  i \in {r.id : r \in inserts}
            <4>1. PICK x \in S : x.kind = "create" /\ x.id = i
                BY <3>2 DEF Made
            <4> DEFINE r == Creation(x)
            <4>2. r \in inserts /\ r.id = i
                BY <1>1, <4>1 DEF Creation
            <4> HIDE DEF r
            <4> QED
                BY <4>2
        <3> QED
            BY <3>1, <3>2
    <2> QED
        BY <2>1, <2>2
<1>4. ForeignKeyHolds(inserted, rowset)
    <2> SUFFICES ASSUME NEW v \in rowset
                 PROVE  v.ats \in DOMAIN inserted
        BY DEF ForeignKeyHolds
    <2>1. PICK x \in S : x.kind # "revoke" /\ v = RowOf(x)
        BY <1>1
    <2>2. v.ats = x.id
        BY <2>1 DEF RowOf
    <2>3. x.kind = "create" => Made(S, x.id)
        BY DEF Made
    <2>4. x.kind = "update" => x.id \in DOMAIN reg \/ Made(S, x.id)
        BY DEF Grouped
    <2> QED
        BY <1>3, <2>1, <2>2, <2>3, <2>4
<1>5. rows2 = Revoke(InsertVersions(rows, rowset), ops.revocations)
    <2>1. \A v \in rowset : \A r \in rows : <<r.ats, r.version>> # <<v.ats, v.version>>
        <3> SUFFICES ASSUME NEW v \in rowset, NEW r \in rows
                     PROVE  r.ats # v.ats \/ r.version # v.version
            OBVIOUS
        <3>1. PICK x \in S : x.kind # "revoke" /\ v = RowOf(x)
            BY <1>1
        <3>2. v.ats = x.id /\ v.version = x.version
            BY <3>1 DEF RowOf
        <3> QED
            BY <3>1, <3>2 DEF Grouped
    <2>2. InsertVersions(rows, rowset) = rows \cup rowset
        BY <2>1 DEF InsertVersions
    <2>3. \A r : r \in rows2 <=> r \in rows \cup rowset /\ r.ats \notin ops.revocations
        BY <1>1 DEF Grouped
    <2> QED
        BY <2>2, <2>3 DEF Revoke
<1>6. \A i : i \in DOMAIN reg2 <=> i \in DOMAIN bumped \ ops.revocations
    BY <1>1, <1>2, <1>3 DEF Grouped
<1>7. ASSUME NEW i \in DOMAIN reg2
      PROVE  bumped[i] = reg2[i]
    <2> DEFINE B == {b.count : b \in {c \in bumps : c.id = i}}
               e == inserted[i]
    <2>1. i \in DOMAIN inserted
        BY <1>2, <1>6
    <2>2. bumped[i] = [e EXCEPT !.count = Max({@} \cup B)]
        BY <2>1 DEF BumpCounts
    <2>3. \A c : c \in B <=> BumpedTo(S, i, c)
        <3>1. ASSUME NEW c, c \in B
              PROVE  BumpedTo(S, i, c)
            <4>1. PICK b \in bumps : b.id = i /\ c = b.count
                BY <3>1
            <4>2. PICK x \in S : /\ x.kind = "update"
                                 /\ b = [id |-> x.id, count |-> x.version + 1]
                BY <1>1, <4>1
            <4> QED
                BY <4>1, <4>2 DEF BumpedTo
        <3>2. ASSUME NEW c, BumpedTo(S, i, c)
              PROVE  c \in B
            <4>1. PICK x \in S : x.kind = "update" /\ x.id = i /\ c = x.version + 1
                BY <3>2 DEF BumpedTo
            <4> DEFINE b == [id |-> x.id, count |-> x.version + 1]
            <4>2. b \in bumps /\ b.id = i /\ b.count = c
                BY <1>1, <4>1
            <4> HIDE DEF b
            <4> QED
                BY <4>2
        <3> QED
            BY <3>1, <3>2
    <2> HIDE DEF B
    <2>4. reg2[i] \in RegistryEntry
        BY DEF Fit
    <2>5. \A c \in B : c \in Nat /\ c <= reg2[i].count
        BY <2>3 DEF Grouped
    <2>6. CASE i \in DOMAIN reg
        <3>1. e = reg[i] /\ e \in RegistryEntry
            BY <2>6 DEF InsertRegistry, Fit
        <3>2. /\ reg2[i].owner = reg[i].owner /\ reg2[i].created = reg[i].created
              /\ reg2[i].count >= reg[i].count
              /\ reg2[i].count = reg[i].count \/ BumpedTo(S, i, reg2[i].count)
            BY <2>6 DEF Grouped
        <3> HIDE DEF e
        <3>3. /\ reg2[i].owner = e.owner /\ reg2[i].created = e.created
              /\ reg2[i].count \in {e.count} \cup B /\ B \in SUBSET Nat
              /\ \A x \in {e.count} \cup B : x <= reg2[i].count
            BY <2>3, <2>5, <3>1, <3>2
        <3> QED
            BY <2>2, <2>4, <3>1, <3>3, RaisedEntry
    <2>7. CASE i \notin DOMAIN reg
        <3>1. PICK x \in S : x.kind = "create" /\ x.id = i
            BY <1>3, <2>1, <2>7 DEF Made
        <3>2. e = [owner |-> x.signer, created |-> x.block, count |-> 1]
            <4>1. \A y \in S : y.kind = "create" /\ y.id = x.id => y = x
                BY <3>1 DEF Grouped
            <4>2. \A r : r \in inserts <=>
                     \E y \in S : y.kind = "create" /\ r = Creation(y)
                BY <1>1
            <4>3. x.id \notin DOMAIN reg
                BY <2>7, <3>1
            <4> HIDE DEF inserts
            <4>4. InsertRegistry(reg, inserts)[x.id]
                    = [owner |-> x.signer, created |-> x.block, count |-> 1]
                BY <3>1, <4>1, <4>2, <4>3, InsertedEntry
            <4>5. inserted = InsertRegistry(reg, inserts) /\ i = x.id
                BY <3>1 DEF inserts
            <4> QED
                BY <4>4, <4>5
        <3>3. /\ reg2[i].owner = x.signer /\ reg2[i].created = x.block
              /\ reg2[i].count = 1 \/ BumpedTo(S, i, reg2[i].count)
            BY <3>1 DEF Grouped
        <3> HIDE DEF e
        <3>4. reg2[i].owner \in Accounts /\ reg2[i].created \in Nat
              /\ reg2[i].count \in Nat \ {0}
            BY <2>4 DEF RegistryEntry
        <3>5. e.owner = x.signer /\ e.created = x.block /\ e.count = 1
            BY <3>2
        <3>6. e \in RegistryEntry
            BY <3>2, <3>3, <3>4 DEF RegistryEntry
        <3>7. /\ reg2[i].owner = e.owner /\ reg2[i].created = e.created
              /\ reg2[i].count \in {e.count} \cup B /\ B \in SUBSET Nat
              /\ \A y \in {e.count} \cup B : y <= reg2[i].count
            BY <2>3, <2>5, <3>3, <3>4, <3>5
        <3> QED
            BY <2>2, <2>4, <3>6, <3>7, RaisedEntry
    <2> QED
        BY <2>6, <2>7
<1>8. reg2 = [i \in DOMAIN bumped \ ops.revocations |-> bumped[i]]
    <2>1. reg2 = [i \in DOMAIN reg2 |-> reg2[i]]
        BY DEF Fit
    <2>2. DOMAIN reg2 = DOMAIN bumped \ ops.revocations
        BY <1>6
    <2> QED
        BY <1>7, <2>1, <2>2
<1> QED
    BY <1>4, <1>5, <1>8

(***************************************************************************)
(* What one block does.                                                    *)
(***************************************************************************)

Operation ==
    [kind: {"create", "update", "revoke"}, id: Nat, version: Nat, signer: Accounts,
     block: Nat, ext: {1, 2}]

\* Block n took the storage from `before` to `after`.
BlockStep(before, after, n, block) ==
    \/ /\ block = <<block[1]>> /\ IsOp(before, n, 1, block[1])
       /\ after = Dispatch(before, block[1])
    \/ /\ block = <<block[1], block[2]>> /\ IsOp(before, n, 1, block[1])
       /\ IsOp(Dispatch(before, block[1]), n, 2, block[2])
       /\ after = Dispatch(Dispatch(before, block[1]), block[2])

\* Of the extrinsics of a block, the row's own is the one that made its version.
Singled(block, r) ==
    /\ r.ext \in DOMAIN block /\ block[r.ext].ext = r.ext
    /\ \A e \in DOMAIN block : Matches(block[e], r.ats, r.version) <=> e = r.ext

\* Extrinsics are operations, and only a creation uses an id up.
LEMMA OpsTyped ==
    ASSUME NEW p, IsPallet(p), NEW n \in Nat, NEW ext \in {1, 2}, NEW o \in Ops(p, n, ext)
    PROVE  o \in Operation
<1>1. \A i \in DOMAIN p.live : /\ i \in Nat /\ p.live[i].owner \in Accounts
                               /\ Len(p.live[i].versions) \in Nat
    BY DEF IsPallet, Entry
<1>2. p.next \in Nat
    BY DEF IsPallet
<1> DEFINE op(kind, id, version, signer) ==
               [kind |-> kind, id |-> id, version |-> version, signer |-> signer,
                block |-> n, ext |-> ext]
<1>3. \A kind \in {"create", "update", "revoke"}, id \in Nat, version \in Nat,
         signer \in Accounts : op(kind, id, version, signer) \in Operation
    BY DEF Operation
<1>4. \/ \E a \in Accounts : o = op("create", p.next, 0, a)
      \/ \E i \in DOMAIN p.live, a \in Accounts :
            o = op("update", i, Len(p.live[i].versions), a)
      \/ \E i \in DOMAIN p.live : o = op("revoke", i, 0, p.live[i].owner)
    BY DEF Ops
<1> HIDE DEF op
<1> QED
    BY <1>1, <1>2, <1>3, <1>4

LEMMA NextGrows ==
    ASSUME NEW p, IsPallet(p), NEW n \in Nat, NEW ext \in {1, 2}, NEW o,
           IsOp(p, n, ext, o)
    PROVE  /\ Dispatch(p, o).next \in Nat /\ p.next \in Nat
           /\ Dispatch(p, o).next = IF o.kind = "create" THEN p.next + 1 ELSE p.next
<1>1. p = [next |-> p.next, live |-> p.live] /\ p.next \in Nat
    BY DEF IsPallet
<1>2. CASE o.kind = "create"
    <2>1. Dispatch(p, o).next = p.next + 1
        BY <1>2 DEF Dispatch
    <2> QED
        BY <1>1, <1>2, <2>1
<1>3. CASE o.kind = "update"
    <2> DEFINE live == [p.live EXCEPT ![o.id].versions = Append(@, Stamp(o))]
    <2>1. Dispatch(p, o) = [p EXCEPT !.live = live]
        BY <1>3 DEF Dispatch, Stamp
    <2> HIDE DEF live
    <2>2. Dispatch(p, o).next = p.next
        BY <1>1, <2>1
    <2> QED
        BY <1>1, <1>3, <2>2
<1>4. CASE o.kind = "revoke"
    <2> DEFINE live == [i \in DOMAIN p.live \ {o.id} |-> p.live[i]]
    <2>1. Dispatch(p, o) = [p EXCEPT !.live = live]
        BY <1>4 DEF Dispatch
    <2> HIDE DEF live
    <2>2. Dispatch(p, o).next = p.next
        BY <1>1, <2>1
    <2> QED
        BY <1>1, <1>4, <2>2
<1> QED
    BY <1>2, <1>3, <1>4 DEF IsOp

\* A version is made by the extrinsic that names it.
LEMMA OwnMatch ==
    ASSUME NEW p, IsPallet(p), NEW n \in Nat, NEW ext \in {1, 2}, NEW o,
           IsOp(p, n, ext, o)
    PROVE  /\ o.version \in Nat \/ o.kind = "revoke"
           /\ o.kind # "revoke" => Matches(o, o.id, o.version)
           /\ o.kind = "update" => o.version > 0
           /\ \A id, v : Matches(o, id, v) =>
                o.kind # "revoke" /\ id = o.id /\ v = o.version
<1>1. o.kind = "update" => o.version \in Nat /\ o.version > 0
    BY DEF IsOp, IsPallet, Entry
<1> QED
    BY <1>1 DEF IsOp, Matches

\* What a block does to the tables, and the rows it adds, each made by one extrinsic of it.
LEMMA BlockEffect ==
    ASSUME NEW before, IsPallet(before), NEW n \in Nat, NEW block, NEW after,
           BlockStep(before, after, n, block)
    PROVE  /\ IsPallet(after)
           /\ \A x \in Range(block) : x.kind \in {"create", "update", "revoke"}
           /\ Grouped(Range(block), RegistryOf(before), RowsOf(before),
                      RegistryOf(after), RowsOf(after))
           /\ \A r \in RowsOf(after) : \/ r \in RowsOf(before)
                                       \/ r.block = n /\ Singled(block, r)
           /\ Len(block) \in {1, 2}
           /\ \A i \in DOMAIN RegistryOf(after) :
                \/ RegistryOf(after)[i].count <= Len(block)
                \/ /\ i \in DOMAIN RegistryOf(before)
                   /\ RegistryOf(after)[i].count <= RegistryOf(before)[i].count + Len(block)
<1> DEFINE o == block[1]
           p == block[2]
           mid == Dispatch(before, o)
           reg == RegistryOf(before)
           rows == RowsOf(before)
           reg1 == RegistryOf(mid)
           rows1 == RowsOf(mid)
           reg2 == RegistryOf(after)
           rows2 == RowsOf(after)
<1>1. IsOp(before, n, 1, o)
    BY DEF BlockStep
<1>2. /\ IsPallet(mid) /\ Fit(reg, rows) /\ Fit(reg1, rows1)
      /\ Changes(reg, rows, o, reg1, rows1)
    BY <1>1, Dispatches, OpChanges, TablesFit
<1>3. o.kind \in {"create", "update", "revoke"} /\ o.block = n /\ o.ext = 1
    BY <1>1 DEF IsOp
<1>c. /\ \A i \in DOMAIN reg : reg[i].count \in Nat
      /\ \A i \in DOMAIN reg1 : reg1[i].count \in Nat
    BY <1>2 DEF Fit, RegistryEntry
<1>4. CASE block = <<o>> /\ after = mid
    <2>1. /\ Range(block) = {o} /\ Len(block) = 1 /\ DOMAIN block = {1} /\ block[1] = o
        <3>1. \A x : Len(<<x>>) = 1 /\ DOMAIN <<x>> = {1} /\ <<x>>[1] = x
            OBVIOUS
        <3> HIDE DEF o
        <3>2. Len(block) = 1 /\ DOMAIN block = {1} /\ block[1] = o
            BY <1>4, <3>1
        <3> QED
            BY <3>2 DEF Range
    <2> HIDE DEF o, mid, reg, rows, reg1, rows1
    <2>2. Grouped({o}, reg, rows, reg1, rows1)
        BY <1>2, OneGrouped
    <2>3. \A r \in rows1 : r \in rows \/ (o.kind # "revoke" /\ r = RowOf(o))
        BY <1>2 DEF Changes
    <2>4. ASSUME o.kind # "revoke"
          PROVE  RowOf(o).block = n /\ Singled(block, RowOf(o))
        <3>1. /\ RowOf(o).block = n /\ RowOf(o).ext = 1 /\ RowOf(o).ats = o.id
              /\ RowOf(o).version = o.version
            BY <1>3 DEF RowOf
        <3>2. Matches(o, o.id, o.version)
            BY <1>1, <2>4, OwnMatch
        <3> QED
            BY <1>3, <2>1, <3>1, <3>2 DEF Singled
    <2>5. \A i \in DOMAIN reg1 :
             reg1[i].count <= 1 \/ (i \in DOMAIN reg /\ reg1[i].count <= reg[i].count + 1)
        BY <1>2, <1>c DEF Changes
    <2>6. \A r \in rows1 : r \in rows \/ (r.block = n /\ Singled(block, r))
        BY <2>3, <2>4
    <2>7. reg2 = reg1 /\ rows2 = rows1 /\ IsPallet(after)
        BY <1>2, <1>4 DEF reg1, rows1
    <2>8. \A i \in DOMAIN reg2 :
             \/ reg2[i].count <= Len(block)
             \/ i \in DOMAIN reg /\ reg2[i].count <= reg[i].count + Len(block)
        BY <2>1, <2>5, <2>7
    <2>9. \A x \in Range(block) : x.kind \in {"create", "update", "revoke"}
        BY <1>3, <2>1
    <2>10. Len(block) \in {1, 2} /\ Grouped(Range(block), reg, rows, reg2, rows2)
        BY <2>1, <2>2, <2>7
    <2>11. \A r \in rows2 : r \in rows \/ (r.block = n /\ Singled(block, r))
        BY <2>6, <2>7
    <2> HIDE DEF reg2, rows2
    <2> QED
        BY <2>7, <2>8, <2>9, <2>10, <2>11 DEF reg, rows, reg2, rows2
<1>5. CASE block = <<o, p>> /\ IsOp(mid, n, 2, p) /\ after = Dispatch(mid, p)
    <2>1. /\ Range(block) = {o, p} /\ Len(block) = 2 /\ DOMAIN block = {1, 2}
          /\ block[1] = o /\ block[2] = p
        <3>1. \A x, y : /\ Len(<<x, y>>) = 2 /\ DOMAIN <<x, y>> = {1, 2}
                        /\ <<x, y>>[1] = x /\ <<x, y>>[2] = y
            OBVIOUS
        <3> HIDE DEF o, p
        <3>2. Len(block) = 2 /\ DOMAIN block = {1, 2} /\ block[1] = o /\ block[2] = p
            BY <1>5, <3>1
        <3> QED
            BY <3>2 DEF Range
    <2>p. p.kind = "create" => o.id # p.id
        <3> HIDE DEF o, p, mid
        <3>1. p.kind = "create" => p.id = mid.next
            BY <1>5 DEF IsOp
        <3>2. /\ before.next \in Nat /\ mid.next \in Nat
              /\ mid.next = IF o.kind = "create" THEN before.next + 1 ELSE before.next
            BY <1>1, NextGrows DEF mid
        <3>3. \/ o.kind = "create" /\ o.id = before.next
              \/ o.kind # "create" /\ o.id \in 0 .. before.next - 1
            BY <1>1 DEF IsOp, IsPallet
        <3> QED
            BY <3>1, <3>2, <3>3
    <2>m. IsPallet(after) /\ Fit(reg2, rows2) /\ Changes(reg1, rows1, p, reg2, rows2)
        <3> HIDE DEF o, p, mid
        <3> QED
            BY <1>2, <1>5, Dispatches, OpChanges, TablesFit
    <2>k. p.kind \in {"create", "update", "revoke"} /\ p.block = n /\ p.ext = 2
        BY <1>5 DEF IsOp
    <2>o. /\ o.version \in Nat \/ o.kind = "revoke"
          /\ o.kind # "revoke" => Matches(o, o.id, o.version)
          /\ o.kind = "update" => o.version > 0
          /\ \A id, v : Matches(o, id, v) =>
               o.kind # "revoke" /\ id = o.id /\ v = o.version
        <3> HIDE DEF o
        <3> QED
            BY <1>1, OwnMatch
    <2>q. /\ p.version \in Nat \/ p.kind = "revoke"
          /\ p.kind # "revoke" => Matches(p, p.id, p.version)
          /\ p.kind = "update" => p.version > 0
          /\ \A id, v : Matches(p, id, v) =>
               p.kind # "revoke" /\ id = p.id /\ v = p.version
        <3> HIDE DEF p, mid
        <3> QED
            BY <1>2, <1>5, OwnMatch
    <2> HIDE DEF o, p, mid, reg, rows, reg1, rows1, reg2, rows2
    <2>2. Grouped({o, p}, reg, rows, reg2, rows2)
        BY <1>2, <2>p, <2>m, TwoGrouped
    <2>3. \A r \in rows2 : \/ r \in rows
                           \/ o.kind # "revoke" /\ r = RowOf(o)
                           \/ p.kind # "revoke" /\ r = RowOf(p)
        BY <1>2, <2>m DEF Changes
    <2>a. o.kind # "revoke" /\ p.kind # "revoke" => o.id # p.id \/ o.version # p.version
        BY <1>2, <1>c, <2>m, <2>o, <2>q DEF Changes
    <2>4. ASSUME o.kind # "revoke"
          PROVE  RowOf(o).block = n /\ Singled(block, RowOf(o))
        <3>1. /\ RowOf(o).block = n /\ RowOf(o).ext = 1 /\ RowOf(o).ats = o.id
              /\ RowOf(o).version = o.version
            BY <1>3 DEF RowOf
        <3>2. Matches(o, o.id, o.version) /\ ~Matches(p, o.id, o.version)
            BY <2>4, <2>o, <2>q, <2>a
        <3> QED
            BY <1>3, <2>1, <3>1, <3>2 DEF Singled
    <2>5. ASSUME p.kind # "revoke"
          PROVE  RowOf(p).block = n /\ Singled(block, RowOf(p))
        <3>1. /\ RowOf(p).block = n /\ RowOf(p).ext = 2 /\ RowOf(p).ats = p.id
              /\ RowOf(p).version = p.version
            BY <2>k DEF RowOf
        <3>2. Matches(p, p.id, p.version) /\ ~Matches(o, p.id, p.version)
            BY <2>5, <2>o, <2>q, <2>a
        <3> QED
            BY <2>k, <2>1, <3>1, <3>2 DEF Singled
    <2>6. \A i \in DOMAIN reg1 :
             reg1[i].count <= 1 \/ (i \in DOMAIN reg /\ reg1[i].count <= reg[i].count + 1)
        BY <1>2, <1>c DEF Changes
    <2>7. \A i \in DOMAIN reg2 :
             \/ reg2[i].count <= 1
             \/ i \in DOMAIN reg1 /\ reg2[i].count <= reg1[i].count + 1
        <3>1. \A i \in DOMAIN reg2 : reg2[i].count \in Nat
            BY <2>m DEF Fit, RegistryEntry
        <3> QED
            BY <1>c, <2>m, <3>1 DEF Changes
    <2>8. \A i \in DOMAIN reg2 :
             \/ reg2[i].count <= 2
             \/ i \in DOMAIN reg /\ reg2[i].count <= reg[i].count + 2
        <3>1. \A i \in DOMAIN reg2 : reg2[i].count \in Nat
            BY <2>m DEF Fit, RegistryEntry
        <3> QED
            BY <1>c, <2>6, <2>7, <3>1
    <2>9. \A r \in rows2 : r \in rows \/ (r.block = n /\ Singled(block, r))
        BY <2>3, <2>4, <2>5
    <2>10. \A x \in Range(block) : x.kind \in {"create", "update", "revoke"}
        BY <1>3, <2>1, <2>k
    <2>11. Len(block) \in {1, 2} /\ Grouped(Range(block), reg, rows, reg2, rows2)
        BY <2>1, <2>2
    <2>12. \A i \in DOMAIN reg2 :
             \/ reg2[i].count <= Len(block)
             \/ i \in DOMAIN reg /\ reg2[i].count <= reg[i].count + Len(block)
        BY <2>1, <2>8
    <2> QED
        BY <2>m, <2>9, <2>10, <2>11, <2>12 DEF reg, rows, reg2, rows2
<1> QED
    BY <1>4, <1>5 DEF BlockStep

(***************************************************************************)
(* The inductive invariant of the chain and of the tables.                 *)
(***************************************************************************)

\* The block a row names holds, where the row says, the one extrinsic that made it.
Traced(chain, n, r) == r.block \in 1 .. n /\ Singled(chain[r.block], r)

ChainInv ==
    /\ blocks \in Seq(Seq(Operation)) /\ DOMAIN pallets = 0 .. Tip
    /\ \A n \in 0 .. Tip : IsPallet(pallets[n])
    /\ \A n \in 1 .. Tip : BlockStep(pallets[n - 1], pallets[n], n, blocks[n])
    /\ \A n \in 0 .. Tip : \A r \in RowsOf(pallets[n]) : Traced(blocks, n, r)
    /\ \A n \in 0 .. Tip : \A i \in DOMAIN RegistryOf(pallets[n]) :
         RegistryOf(pallets[n])[i].count <= Cardinality(Extrinsics)
    /\ IsFiniteSet(Extrinsics) /\ Cardinality(Extrinsics) <= MaxOps

TablesInv ==
    /\ stored \in 0 .. Tip
    /\ registry = RegistryOf(pallets[stored])
    /\ versions = RowsOf(pallets[stored])

\* The empty chain and the empty tables.
LEMMA ChainStart == Init => ChainInv /\ TablesInv
<1> SUFFICES ASSUME Init
             PROVE  ChainInv /\ TablesInv
    OBVIOUS
<1>1. blocks = << >> /\ Tip = 0 /\ blocks \in Seq(Seq(Operation))
    BY DEF Init, Tip
<1>2. /\ DOMAIN pallets = {0} /\ pallets[0] = NoEntries
      /\ stored = 0 /\ registry = [i \in {} |-> None] /\ versions = {}
    BY DEF Init
<1>3. IsPallet(NoEntries) /\ DOMAIN NoEntries.live = {}
    BY NoEntriesIsPallet
<1>4. RegistryOf(NoEntries) = [i \in {} |-> None] /\ DOMAIN RegistryOf(NoEntries) = {}
    BY <1>3 DEF RegistryOf
<1>5. RowsOf(NoEntries) = {}
    BY <1>3, RowsListed
<1>6. Extrinsics = {}
    BY <1>1 DEF Extrinsics
<1>7. IsFiniteSet(Extrinsics) /\ Cardinality(Extrinsics) <= MaxOps
    <2>1. IsFiniteSet({}) /\ Cardinality({}) = 0
        BY FS_EmptySet
    <2> QED
        BY <1>6, <2>1, Numbers
<1>8. \A n : n \in 0 .. Tip <=> n = 0
    BY <1>1
<1>9. \A n : n \notin 1 .. Tip
    BY <1>1
<1>10. ChainInv
    BY <1>1, <1>2, <1>3, <1>4, <1>5, <1>7, <1>8, <1>9 DEF ChainInv
<1>11. TablesInv
    BY <1>1, <1>2, <1>4, <1>5 DEF TablesInv
<1> QED
    BY <1>10, <1>11

\* What Finalize appends.
LEMMA FinalizedBlock ==
    ASSUME ChainInv, Finalize
    PROVE  \E block, pallet :
             /\ block \in Seq(Operation) /\ Len(block) \in {1, 2}
             /\ Import(block, pallet)
             /\ BlockStep(AtTip, pallet, Tip + 1, block)
             /\ Cardinality(Extrinsics) + Len(block) <= MaxOps
<1>0. Tip \in Nat /\ IsPallet(AtTip) /\ Cardinality(Extrinsics) \in Nat
    BY FS_CardinalityType DEF ChainInv, AtTip, Tip
<1>1. PICK o \in Ops(AtTip, Tip + 1, 1) :
         \/ Cardinality(Extrinsics) < MaxOps /\ Import(<<o>>, Dispatch(AtTip, o))
         \/ /\ Cardinality(Extrinsics) + 1 < MaxOps
            /\ \E p \in Ops(Dispatch(AtTip, o), Tip + 1, 2) :
                 Import(<<o, p>>, Dispatch(Dispatch(AtTip, o), p))
    BY DEF Finalize
<1>2. o \in Operation /\ IsOp(AtTip, Tip + 1, 1, o)
    BY <1>0, OpsTyped, OpForms
<1>m. MaxOps \in Nat
    BY Numbers
<1>3. CASE Cardinality(Extrinsics) < MaxOps /\ Import(<<o>>, Dispatch(AtTip, o))
    <2> DEFINE block == <<o>>
    <2>1. block \in Seq(Operation) /\ Len(block) = 1 /\ block = <<block[1]>> /\ block[1] = o
        BY <1>2
    <2>2. BlockStep(AtTip, Dispatch(AtTip, o), Tip + 1, block)
        <3> HIDE DEF block
        <3> QED
            BY <1>2, <2>1 DEF BlockStep
    <2>3. Cardinality(Extrinsics) + Len(block) <= MaxOps
        <3> HIDE DEF block
        <3> QED
            BY <1>0, <1>3, <1>m, <2>1
    <2>4. Import(block, Dispatch(AtTip, o))
        BY <1>3
    <2> HIDE DEF block
    <2> QED
        BY <2>1, <2>2, <2>3, <2>4
<1>4. CASE /\ Cardinality(Extrinsics) + 1 < MaxOps
           /\ \E p \in Ops(Dispatch(AtTip, o), Tip + 1, 2) :
                Import(<<o, p>>, Dispatch(Dispatch(AtTip, o), p))
    <2>1. PICK p \in Ops(Dispatch(AtTip, o), Tip + 1, 2) :
              Import(<<o, p>>, Dispatch(Dispatch(AtTip, o), p))
        BY <1>4
    <2> DEFINE mid == Dispatch(AtTip, o)
               block == <<o, p>>
    <2>2. IsPallet(mid)
        BY <1>0, <1>2, Dispatches
    <2>3. p \in Operation /\ IsOp(mid, Tip + 1, 2, p)
        <3> HIDE DEF mid
        <3>1. p \in Ops(mid, Tip + 1, 2)
            BY DEF mid
        <3> QED
            BY <1>0, <2>2, <3>1, OpsTyped, OpForms
    <2>4. /\ block \in Seq(Operation) /\ Len(block) = 2 /\ block = <<block[1], block[2]>>
          /\ block[1] = o /\ block[2] = p
        BY <1>2, <2>3
    <2>5. Import(block, Dispatch(mid, p))
        BY <2>1
    <2> HIDE DEF block
    <2>6. BlockStep(AtTip, Dispatch(mid, p), Tip + 1, block)
        BY <1>2, <2>3, <2>4 DEF BlockStep
    <2>7. Cardinality(Extrinsics) + Len(block) <= MaxOps
        BY <1>0, <1>4, <1>m, <2>4
    <2> QED
        BY <2>4, <2>5, <2>6, <2>7
<1> QED
    BY <1>1, <1>3, <1>4


\* A finalized block keeps the blocks and the storages below it.
LEMMA ImportExtends ==
    ASSUME ChainInv, NEW block \in Seq(Operation), NEW pallet, Import(block, pallet)
    PROVE  /\ Tip \in Nat /\ Tip' = Tip + 1 /\ blocks' \in Seq(Seq(Operation))
           /\ \A n \in 1 .. Tip : blocks'[n] = blocks[n]
           /\ blocks'[Tip + 1] = block
           /\ DOMAIN pallets' = 0 .. Tip + 1
           /\ \A n \in 0 .. Tip : pallets'[n] = pallets[n]
           /\ pallets'[Tip + 1] = pallet
<1>1. blocks \in Seq(Seq(Operation)) /\ Tip = Len(blocks)
    BY DEF ChainInv, Tip
<1>2. blocks' = Append(blocks, block)
    BY DEF Import
<1>3. Tip' = Len(blocks')
    BY DEF Tip
<1>4. /\ Tip \in Nat /\ Tip' = Tip + 1 /\ blocks' \in Seq(Seq(Operation))
      /\ \A n \in 1 .. Tip : blocks'[n] = blocks[n]
      /\ blocks'[Tip + 1] = block
    BY <1>1, <1>2, <1>3
<1>5. pallets' = [n \in 0 .. Tip + 1 |-> IF n <= Tip THEN pallets[n] ELSE pallet]
    BY DEF Import
<1>6. /\ DOMAIN pallets' = 0 .. Tip + 1
      /\ \A n \in 0 .. Tip : pallets'[n] = pallets[n]
      /\ pallets'[Tip + 1] = pallet
    <2> HIDE DEF Tip
    <2> QED
        BY <1>4, <1>5
<1> QED
    BY <1>4, <1>6

\* The extrinsics of a longer chain are those it had and those of the block.
LEMMA ExtrinsicsGrow ==
    ASSUME ChainInv, NEW block \in Seq(Operation), NEW pallet, Import(block, pallet),
           Len(block) \in {1, 2}
    PROVE  /\ IsFiniteSet(Extrinsics) /\ IsFiniteSet(Extrinsics')
           /\ Cardinality(Extrinsics) \in Nat
           /\ Cardinality(Extrinsics') = Cardinality(Extrinsics) + Len(block)
<1>1. /\ Tip \in Nat /\ Tip' = Tip + 1
      /\ \A n \in 1 .. Tip : blocks'[n] = blocks[n]
      /\ blocks'[Tip + 1] = block
    BY ImportExtends
<1>2. \A x : x \in Extrinsics <=>
         \E n \in 1 .. Tip : \E e \in DOMAIN blocks[n] : x = <<n, e>>
    <2>1. \A x : x \in Extrinsics <=> \E n \in 1 .. Tip : x \in {n} \X DOMAIN blocks[n]
        BY DEF Extrinsics
    <2> QED
        BY <2>1
<1>3. \A x : x \in Extrinsics' <=>
         \E n \in 1 .. Tip + 1 : \E e \in DOMAIN blocks'[n] : x = <<n, e>>
    <2>1. Extrinsics' = UNION {{n} \X DOMAIN blocks'[n] : n \in 1 .. Tip + 1}
        BY <1>1 DEF Extrinsics
    <2>2. \A x : x \in Extrinsics' <=>
             \E n \in 1 .. Tip + 1 : x \in {n} \X DOMAIN blocks'[n]
        BY <2>1
    <2> QED
        BY <2>2
<1>4. DOMAIN block = 1 .. Len(block)
    OBVIOUS
<1>5. \A x : x \in Extrinsics' <=>
         x \in Extrinsics \/ \E e \in 1 .. Len(block) : x = <<Tip + 1, e>>
    <2>1. \A n : n \in 1 .. Tip + 1 <=> n \in 1 .. Tip \/ n = Tip + 1
        BY <1>1
    <2>2. ASSUME NEW x, x \in Extrinsics'
          PROVE  x \in Extrinsics \/ \E e \in 1 .. Len(block) : x = <<Tip + 1, e>>
        <3>1. PICK n \in 1 .. Tip + 1 : \E e \in DOMAIN blocks'[n] : x = <<n, e>>
            BY <1>3, <2>2
        <3>2. CASE n \in 1 .. Tip
            BY <1>1, <1>2, <3>1, <3>2
        <3>3. CASE n = Tip + 1
            BY <1>1, <1>4, <3>1, <3>3
        <3> QED
            BY <2>1, <3>2, <3>3
    <2>3. ASSUME NEW x \in Extrinsics
          PROVE  x \in Extrinsics'
        <3>1. PICK n \in 1 .. Tip : \E e \in DOMAIN blocks[n] : x = <<n, e>>
            BY <1>2
        <3> QED
            BY <1>1, <1>3, <2>1, <3>1
    <2>4. ASSUME NEW e \in 1 .. Len(block)
          PROVE  <<Tip + 1, e>> \in Extrinsics'
        <3>1. e \in DOMAIN blocks'[Tip + 1] /\ Tip + 1 \in 1 .. Tip + 1
            BY <1>1, <1>4
        <3> QED
            BY <1>3, <3>1
    <2> QED
        BY <2>2, <2>3, <2>4
<1>6. <<Tip + 1, 1>> \notin Extrinsics /\ <<Tip + 1, 2>> \notin Extrinsics
    <2>1. Tip + 1 \notin 1 .. Tip
        BY <1>1
    <2> QED
        BY <1>2, <2>1
<1>7. IsFiniteSet(Extrinsics) /\ Cardinality(Extrinsics) \in Nat
    BY FS_CardinalityType DEF ChainInv
<1> DEFINE X == Extrinsics
           Y == Extrinsics'
           a == <<Tip + 1, 1>>
           b == <<Tip + 1, 2>>
<1>8. a # b
    OBVIOUS
<1>9. CASE Len(block) = 1
    <2>1. \A e : e \in 1 .. Len(block) <=> e = 1
        BY <1>9
    <2>2. Y = X \cup {a}
        BY <1>5, <2>1
    <2> HIDE DEF X, Y, a
    <2>3. IsFiniteSet(X) /\ a \notin X
        BY <1>6, <1>7 DEF X, a
    <2>4. IsFiniteSet(Y) /\ Cardinality(Y) = Cardinality(X) + 1
        BY <2>2, <2>3, FS_AddElement
    <2> QED
        BY <1>7, <1>9, <2>4 DEF X, Y
<1>10. CASE Len(block) = 2
    <2>1. \A e : e \in 1 .. Len(block) <=> e = 1 \/ e = 2
        BY <1>10
    <2>2. Y = (X \cup {a}) \cup {b}
        BY <1>5, <2>1
    <2> HIDE DEF X, Y, a, b
    <2>3. IsFiniteSet(X) /\ a \notin X /\ b \notin X /\ Cardinality(X) \in Nat
        BY <1>6, <1>7 DEF X, a, b
    <2>4. IsFiniteSet(X \cup {a}) /\ Cardinality(X \cup {a}) = Cardinality(X) + 1
        BY <2>3, FS_AddElement
    <2>5. /\ IsFiniteSet(Y) /\ b \notin X \cup {a}
          /\ Cardinality(Y) = Cardinality(X \cup {a}) + 1
        BY <1>8, <2>2, <2>3, <2>4, FS_AddElement
    <2>6. Cardinality(Y) = Cardinality(X) + 2
        BY <2>3, <2>4, <2>5
    <2> QED
        BY <1>7, <1>10, <2>5, <2>6 DEF X, Y
<1> QED
    BY <1>9, <1>10

\* A finalized block keeps the chain's invariant, and the heights the tables are at.
LEMMA FinalizeChain ==
    ASSUME ChainInv, TablesInv, Finalize
    PROVE  /\ ChainInv' /\ TablesInv'
           /\ Tip' > Tip /\ Tip \in Nat /\ \A n \in 0 .. Tip : pallets'[n] = pallets[n]
<1>1. PICK block, pallet :
         /\ block \in Seq(Operation) /\ Len(block) \in {1, 2}
         /\ Import(block, pallet)
         /\ BlockStep(AtTip, pallet, Tip + 1, block)
         /\ Cardinality(Extrinsics) + Len(block) <= MaxOps
    BY FinalizedBlock
<1>2. /\ Tip \in Nat /\ Tip' = Tip + 1 /\ blocks' \in Seq(Seq(Operation))
      /\ \A n \in 1 .. Tip : blocks'[n] = blocks[n]
      /\ blocks'[Tip + 1] = block
      /\ DOMAIN pallets' = 0 .. Tip + 1
      /\ \A n \in 0 .. Tip : pallets'[n] = pallets[n]
      /\ pallets'[Tip + 1] = pallet
    BY <1>1, ImportExtends
<1>3. /\ IsFiniteSet(Extrinsics') /\ Cardinality(Extrinsics) \in Nat
      /\ Cardinality(Extrinsics') = Cardinality(Extrinsics) + Len(block)
    BY <1>1, ExtrinsicsGrow
<1>4. IsPallet(AtTip) /\ Tip + 1 \in Nat /\ AtTip = pallets[Tip]
    BY <1>2 DEF ChainInv, AtTip
<1> HIDE DEF Tip, Extrinsics
<1>5. /\ IsPallet(pallet)
      /\ \A r \in RowsOf(pallet) : \/ r \in RowsOf(AtTip)
                                   \/ r.block = Tip + 1 /\ Singled(block, r)
      /\ \A i \in DOMAIN RegistryOf(pallet) :
           \/ RegistryOf(pallet)[i].count <= Len(block)
           \/ /\ i \in DOMAIN RegistryOf(AtTip)
              /\ RegistryOf(pallet)[i].count <= RegistryOf(AtTip)[i].count + Len(block)
    BY <1>1, <1>4, BlockEffect
<1>n. /\ \A n : n \in 0 .. Tip' <=> n \in 0 .. Tip \/ n = Tip + 1
      /\ \A n : n \in 1 .. Tip' <=> n \in 1 .. Tip \/ n = Tip + 1
      /\ \A n \in 1 .. Tip : n \in 0 .. Tip /\ n - 1 \in 0 .. Tip
      /\ Tip + 1 - 1 = Tip /\ Tip \in 0 .. Tip
    BY <1>2
<1>6. \A n \in 0 .. Tip' : IsPallet(pallets'[n])
    BY <1>2, <1>5, <1>n DEF ChainInv
<1>7. \A n \in 1 .. Tip' : BlockStep(pallets'[n - 1], pallets'[n], n, blocks'[n])
    <2> SUFFICES ASSUME NEW n \in 1 .. Tip'
                 PROVE  BlockStep(pallets'[n - 1], pallets'[n], n, blocks'[n])
        OBVIOUS
    <2>1. CASE n \in 1 .. Tip
        <3>1. /\ pallets'[n - 1] = pallets[n - 1] /\ pallets'[n] = pallets[n]
              /\ blocks'[n] = blocks[n]
            BY <1>2, <1>n, <2>1
        <3> QED
            BY <2>1, <3>1 DEF ChainInv
    <2>2. CASE n = Tip + 1
        <3>1. /\ pallets'[n - 1] = AtTip /\ pallets'[n] = pallet
              /\ blocks'[n] = block
            BY <1>2, <1>4, <1>n, <2>2
        <3> QED
            BY <1>1, <2>2, <3>1
    <2> QED
        BY <1>n, <2>1, <2>2
<1>8. \A n \in 0 .. Tip' : \A r \in RowsOf(pallets'[n]) : Traced(blocks', n, r)
    <2>1. \A n \in 0 .. Tip : \A r \in RowsOf(pallets[n]) :
             /\ Traced(blocks, n, r)
             /\ r.block \in 1 .. Tip /\ r.block \in 1 .. Tip + 1
             /\ Singled(blocks[r.block], r) /\ Singled(blocks'[r.block], r)
        <3> SUFFICES ASSUME NEW n \in 0 .. Tip, NEW r \in RowsOf(pallets[n])
                     PROVE  /\ Traced(blocks, n, r)
                            /\ r.block \in 1 .. Tip /\ r.block \in 1 .. Tip + 1
                            /\ Singled(blocks[r.block], r)
                            /\ Singled(blocks'[r.block], r)
            OBVIOUS
        <3>1. r.block \in 1 .. n /\ Singled(blocks[r.block], r) /\ Traced(blocks, n, r)
            BY DEF ChainInv, Traced
        <3>2. r.block \in 1 .. Tip /\ r.block \in 1 .. Tip + 1
            BY <1>2, <3>1
        <3> QED
            BY <1>2, <3>1, <3>2
    <2> SUFFICES ASSUME NEW n \in 0 .. Tip', NEW r \in RowsOf(pallets'[n])
                 PROVE  Traced(blocks', n, r)
        OBVIOUS
    <2>2. CASE n \in 0 .. Tip
        BY <1>2, <2>1, <2>2 DEF Traced
    <2>3. CASE n = Tip + 1
        <3>1. r \in RowsOf(pallet) /\ Tip + 1 \in 1 .. Tip + 1
            BY <1>2, <2>3
        <3>2. CASE r \in RowsOf(AtTip)
            BY <1>4, <1>n, <2>1, <2>3, <3>2 DEF Traced
        <3>3. CASE r.block = Tip + 1 /\ Singled(block, r)
            BY <1>2, <2>3, <3>1, <3>3 DEF Traced
        <3> QED
            BY <1>5, <3>1, <3>2, <3>3
    <2> QED
        BY <1>n, <2>2, <2>3
<1>9. \A n \in 0 .. Tip' : \A i \in DOMAIN RegistryOf(pallets'[n]) :
         RegistryOf(pallets'[n])[i].count <= Cardinality(Extrinsics')
    <2> SUFFICES ASSUME NEW n \in 0 .. Tip', NEW i \in DOMAIN RegistryOf(pallets'[n])
                 PROVE  RegistryOf(pallets'[n])[i].count <= Cardinality(Extrinsics')
        OBVIOUS
    <2>1. IsPallet(pallets'[n])
        BY <1>6
    <2>2. RegistryOf(pallets'[n])[i].count \in Nat
        BY <2>1, TablesFit DEF Fit, RegistryEntry
    <2>3. \A m \in 0 .. Tip : \A j \in DOMAIN RegistryOf(pallets[m]) :
             /\ RegistryOf(pallets[m])[j].count <= Cardinality(Extrinsics)
             /\ RegistryOf(pallets[m])[j].count \in Nat
        <3> SUFFICES ASSUME NEW m \in 0 .. Tip, NEW j \in DOMAIN RegistryOf(pallets[m])
                     PROVE  /\ RegistryOf(pallets[m])[j].count <= Cardinality(Extrinsics)
                            /\ RegistryOf(pallets[m])[j].count \in Nat
            OBVIOUS
        <3>1. IsPallet(pallets[m])
            BY DEF ChainInv
        <3>2. RegistryOf(pallets[m])[j].count \in Nat
            BY <3>1, TablesFit DEF Fit, RegistryEntry
        <3> QED
            BY <3>2 DEF ChainInv
    <2>4. CASE n \in 0 .. Tip
        <3>1. pallets'[n] = pallets[n]
            BY <1>2, <2>4
        <3>2. RegistryOf(pallets'[n])[i].count <= Cardinality(Extrinsics)
            BY <2>3, <2>4, <3>1
        <3> QED
            BY <1>1, <1>3, <2>2, <3>2
    <2>5. CASE n = Tip + 1
        <3>1. pallets'[n] = pallet
            BY <1>2, <2>5
        <3>2. CASE RegistryOf(pallet)[i].count <= Len(block)
            BY <1>1, <1>3, <2>2, <3>1, <3>2
        <3>3. CASE /\ i \in DOMAIN RegistryOf(AtTip)
                   /\ RegistryOf(pallet)[i].count
                        <= RegistryOf(AtTip)[i].count + Len(block)
            <4>1. /\ RegistryOf(AtTip)[i].count <= Cardinality(Extrinsics)
                  /\ RegistryOf(AtTip)[i].count \in Nat
                BY <1>4, <1>n, <2>3, <3>3
            <4> QED
                BY <1>1, <1>3, <2>2, <3>1, <3>3, <4>1
        <3> QED
            BY <1>5, <3>1, <3>2, <3>3
    <2> QED
        BY <1>n, <2>4, <2>5
<1>10. Cardinality(Extrinsics') <= MaxOps
    BY <1>1, <1>3
<1>11. ChainInv'
    BY <1>2, <1>3, <1>6, <1>7, <1>8, <1>9, <1>10 DEF ChainInv
<1>12. TablesInv'
    <2>1. stored' = stored /\ registry' = registry /\ versions' = versions
        BY DEF Finalize, tables
    <2>2. stored \in 0 .. Tip /\ stored \in 0 .. Tip'
        BY <1>n DEF TablesInv
    <2> QED
        BY <1>2, <2>1, <2>2 DEF TablesInv
<1> QED
    BY <1>2, <1>11, <1>12


\* The four writes of apply_ats bring the tables to the storage after the block.
LEMMA StoreBlockTables ==
    ASSUME ChainInv, TablesInv, StoreBlock
    PROVE  ChainInv' /\ TablesInv'
<1>1. blocks' = blocks /\ pallets' = pallets /\ Tip' = Tip /\ Extrinsics' = Extrinsics
    BY DEF StoreBlock, node, Tip, Extrinsics
<1>2. ChainInv'
    BY <1>1 DEF ChainInv
<1>3. Tip \in Nat /\ stored \in 0 .. Tip /\ stored < Tip /\ stored' = stored + 1
    BY DEF ChainInv, TablesInv, StoreBlock, Tip
<1>4. /\ stored + 1 \in 1 .. Tip /\ stored + 1 \in 0 .. Tip /\ stored + 1 - 1 = stored
      /\ stored + 1 \in Nat
    BY <1>3
<1> DEFINE n == stored + 1
           block == blocks[n]
           before == pallets[stored]
           after == pallets[n]
<1>5. IsPallet(before) /\ IsPallet(after) /\ BlockStep(before, after, n, block)
    BY <1>3, <1>4 DEF ChainInv
<1>6. registry = RegistryOf(before) /\ versions = RowsOf(before)
    BY DEF TablesInv
<1> DEFINE ops == Project(block)
           inserted == InsertRegistry(registry, ops.registry_inserts)
           bumped == BumpCounts(inserted, ops.version_count_bumps)
<1>7. /\ registry' = [i \in DOMAIN bumped \ ops.revocations |-> bumped[i]]
      /\ versions' = Revoke(InsertVersions(versions, ops.version_inserts), ops.revocations)
    BY DEF StoreBlock
<1>8. /\ \A x \in Range(block) : x.kind \in {"create", "update", "revoke"}
      /\ Grouped(Range(block), registry, versions, RegistryOf(after), RowsOf(after))
    <2> HIDE DEF block, before, after, n
    <2>1. n \in Nat
        BY <1>4 DEF n
    <2> QED
        BY <1>5, <1>6, <2>1, BlockEffect
<1>9. /\ Fit(registry, versions) /\ Fit(RegistryOf(after), RowsOf(after))
    BY <1>5, <1>6, TablesFit
<1>10. registry' = RegistryOf(after) /\ versions' = RowsOf(after)
    <2> HIDE DEF block, after
    <2>1. /\ RegistryOf(after) = [i \in DOMAIN bumped \ ops.revocations |-> bumped[i]]
          /\ RowsOf(after)
               = Revoke(InsertVersions(versions, ops.version_inserts), ops.revocations)
        <3> HIDE DEF ops
        <3>1. ops = Project(block)
            BY DEF ops
        <3> HIDE DEF inserted
        <3>2. inserted = InsertRegistry(registry, ops.registry_inserts)
            BY DEF inserted
        <3> HIDE DEF bumped
        <3>3. bumped = BumpCounts(inserted, ops.version_count_bumps)
            BY DEF bumped
        <3> QED
            BY <1>8, <1>9, <3>1, <3>2, <3>3, GroupsApply
    <2> QED
        BY <1>7, <2>1
<1>11. TablesInv'
    BY <1>1, <1>3, <1>4, <1>10 DEF TablesInv
<1> QED
    BY <1>2, <1>11

\* Reading changes neither the chain nor the tables.
LEMMA ClientStepTables ==
    ASSUME ChainInv, TablesInv, UNCHANGED <<node, tables>>
    PROVE  ChainInv' /\ TablesInv'
<1>1. blocks' = blocks /\ pallets' = pallets /\ Tip' = Tip /\ Extrinsics' = Extrinsics
    BY DEF node, Tip, Extrinsics
<1>2. stored' = stored /\ registry' = registry /\ versions' = versions
    BY DEF tables
<1> QED
    BY <1>1, <1>2 DEF ChainInv, TablesInv

(***************************************************************************)
(* Both providers build the same records.                                  *)
(***************************************************************************)

\* The first k versions of a record are k rows.
LEMMA RowsCounted ==
    ASSUME NEW p, NEW i, NEW k \in Nat, NEW T,
           \A t : t \in T <=> \E j \in 1 .. k : t = RowAt(p, i, j)
    PROVE  Cardinality(T) = k
<1> DEFINE f == [j \in 1 .. k |-> RowAt(p, i, j)]
<1>1. f \in [1 .. k -> T] /\ \A j \in 1 .. k : f[j] = RowAt(p, i, j)
    OBVIOUS
<1>2. \A t \in T : \E j \in 1 .. k : f[j] = t
    BY <1>1
<1>3. \A j \in 1 .. k : RowAt(p, i, j).version = j - 1
    BY DEF RowAt
<1> HIDE DEF f
<1>4. \A j, l \in 1 .. k : f[j] = f[l] => j = l
    <2> SUFFICES ASSUME NEW j \in 1 .. k, NEW l \in 1 .. k, f[j] = f[l]
                 PROVE  j = l
        OBVIOUS
    <2>1. j - 1 = l - 1
        BY <1>1, <1>3
    <2> QED
        BY <2>1
<1>5. f \in Bijection(1 .. k, T)
    BY <1>1, <1>2, <1>4 DEF Bijection, Injection, Surjection, IsInjective
<1>6. IsFiniteSet(1 .. k) /\ Cardinality(1 .. k) = k
    BY FS_Interval
<1>7. ExistsBijection(1 .. k, T)
    BY <1>5 DEF ExistsBijection
<1> QED
    BY <1>6, <1>7, FS_Bijection

\* The rows of one record are its versions.
LEMMA OwnRows ==
    ASSUME NEW p, IsPallet(p), NEW i \in DOMAIN p.live
    PROVE  /\ Len(p.live[i].versions) \in Nat
           /\ \A r : r \in {s \in RowsOf(p) : s.ats = i} <=>
                \E k \in 1 .. Len(p.live[i].versions) : r = RowAt(p, i, k)
<1>1. Len(p.live[i].versions) \in Nat
    BY DEF IsPallet, Entry
<1>2. \A j, k : RowAt(p, j, k).ats = j
    BY DEF RowAt
<1>3. \A r : r \in RowsOf(p) <=>
         \E j \in DOMAIN p.live : \E k \in 1 .. Len(p.live[j].versions) :
             r = RowAt(p, j, k)
    BY RowsListed
<1> QED
    BY <1>1, <1>2, <1>3

\* The number of rows with a lower version.
Lower(R, r) == Cardinality({s \in R : s.version < r.version})

\* A row is found by it.
LEMMA RecordRows ==
    ASSUME NEW p, NEW i, NEW m \in Nat, NEW R,
           \A r : r \in R <=> \E k \in 1 .. m : r = RowAt(p, i, k)
    PROVE  /\ Cardinality(R) = m
           /\ \A k \in 1 .. m, r \in R : Lower(R, r) = k - 1 <=> r = RowAt(p, i, k)
<1>2. \A k : RowAt(p, i, k).version = k - 1
    BY DEF RowAt
<1>4. Cardinality(R) = m
    BY RowsCounted
<1>6. ASSUME NEW k \in 1 .. m, NEW c, c = RowAt(p, i, k)
      PROVE  Lower(R, c) = k - 1
    <2>1. k - 1 \in Nat /\ c.version = k - 1
        BY <1>2, <1>6
    <2>2. \A s : s \in R /\ s.version < c.version <=>
             \E j \in 1 .. k - 1 : s = RowAt(p, i, j)
        <3>1. ASSUME NEW s \in R, s.version < c.version
              PROVE  \E j \in 1 .. k - 1 : s = RowAt(p, i, j)
            <4>1. PICK j \in 1 .. m : s = RowAt(p, i, j)
                OBVIOUS
            <4>2. j - 1 < k - 1
                BY <1>2, <2>1, <3>1, <4>1
            <4>3. j \in 1 .. k - 1
                BY <4>2
            <4> QED
                BY <4>1, <4>3
        <3>2. ASSUME NEW j \in 1 .. k - 1
              PROVE  RowAt(p, i, j) \in R /\ RowAt(p, i, j).version < c.version
            <4>1. j \in 1 .. m /\ j - 1 < k - 1
                OBVIOUS
            <4> QED
                BY <1>2, <2>1, <4>1
        <3> QED
            BY <3>1, <3>2
    <2> DEFINE T == {s \in R : s.version < c.version}
    <2>3. \A t : t \in T <=> \E j \in 1 .. k - 1 : t = RowAt(p, i, j)
        BY <2>2
    <2> HIDE DEF T
    <2>4. Cardinality(T) = k - 1
        BY <2>1, <2>3, RowsCounted
    <2> QED
        BY <2>4 DEF T, Lower
<1>7. ASSUME NEW k \in 1 .. m, NEW r \in R
      PROVE  Lower(R, r) = k - 1 <=> r = RowAt(p, i, k)
    <2>1. PICK j \in 1 .. m : r = RowAt(p, i, j)
        OBVIOUS
    <2>2. Lower(R, r) = j - 1
        BY <1>6, <2>1
    <2>3. r.version = j - 1 /\ RowAt(p, i, k).version = k - 1
        BY <1>2, <2>1
    <2> QED
        BY <2>1, <2>2, <2>3
<1> QED
    BY <1>4, <1>7


\* The block of a version, loaded again, gives the extrinsic that made it.
LEMMA ExtrasFound ==
    ASSUME NEW b, NEW id, NEW version, NEW ext, NEW owner,
           ext \in DOMAIN blocks[b], blocks[b][ext].ext = ext,
           \A e \in DOMAIN blocks[b] : Matches(blocks[b][e], id, version) <=> e = ext
    PROVE  VersionExtras(b, id, version, owner, {})
             = [time |-> b, ext |-> ext, signer |-> blocks[b][ext].signer]
<1> DEFINE block == blocks[b]
           of == {op \in Range(block) : Matches(op, id, version)}
           found == CHOOSE o \in of : TRUE
           mine == block[ext]
<1>1. \A op : op \in Range(block) <=> \E e \in DOMAIN block : op = block[e]
    BY DEF Range
<1>2. mine \in of
    BY <1>1
<1>3. \A op \in of : op = mine
    BY <1>1
<1>4. found = mine
    <2> HIDE DEF of, mine
    <2> QED
        BY <1>2, <1>3
<1>5. VersionExtras(b, id, version, owner, {})
        = [time |-> b, ext |-> found.ext, signer |-> found.signer]
    BY DEF VersionExtras
<1>6. mine.ext = ext
    OBVIOUS
<1> HIDE DEF found, of
<1> QED
    BY <1>4, <1>5, <1>6

\* What both providers answer about version k of record i.
AnswerAt(p, i, k) ==
    [index |-> k - 1, block |-> RowAt(p, i, k).block, time |-> RowAt(p, i, k).block,
     ext |-> RowAt(p, i, k).ext,
     signer |-> blocks[RowAt(p, i, k).block][RowAt(p, i, k).ext].signer]

Answer(p, i) ==
    [id |-> i, owner |-> p.live[i].owner, created |-> p.live[i].versions[1].block,
     count |-> Len(p.live[i].versions),
     versions |-> [k \in 1 .. Len(p.live[i].versions) |-> AnswerAt(p, i, k)]]

\* The record RpcProvider rebuilds from storage and blocks.
LEMMA RpcAnswers ==
    ASSUME ChainInv, NEW n \in 0 .. Tip, NEW p, p = pallets[n], NEW i \in DOMAIN p.live
    PROVE  BuildRecord(p, i, {}) = Answer(p, i)
<1>1. IsPallet(p)
    BY DEF ChainInv
<1> DEFINE entry == p.live[i]
           m == Len(entry.versions)
           extras(k) == VersionExtras(entry.versions[k].block, i, k - 1, entry.owner, {})
           version(k) == [index |-> k - 1, block |-> entry.versions[k].block,
                          time |-> extras(k).time, ext |-> extras(k).ext,
                          signer |-> extras(k).signer]
<1>2. entry.versions \in Seq(Version) /\ DOMAIN entry.versions = 1 .. m
    BY <1>1 DEF IsPallet, Entry
<1>3. ASSUME NEW k \in 1 .. m
      PROVE  version(k) = AnswerAt(p, i, k)
    <2> DEFINE r == RowAt(p, i, k)
    <2>1. r \in RowsOf(p)
        BY <1>1, RowsListed
    <2>2. r.ats = i /\ r.version = k - 1 /\ r.block = entry.versions[k].block
        BY DEF RowAt
    <2> HIDE DEF r
    <2>3. Singled(blocks[r.block], r)
        BY <2>1 DEF ChainInv, Traced
    <2>4. VersionExtras(r.block, i, k - 1, entry.owner, {})
            = [time |-> r.block, ext |-> r.ext, signer |-> blocks[r.block][r.ext].signer]
        <3> DEFINE b == r.block
                   x == r.ext
                   id == r.ats
                   v == r.version
                   o == entry.owner
        <3>1. /\ x \in DOMAIN blocks[b] /\ blocks[b][x].ext = x
              /\ \A e \in DOMAIN blocks[b] : Matches(blocks[b][e], id, v) <=> e = x
            BY <2>3 DEF Singled
        <3> HIDE DEF b, x, id, v, o
        <3>2. VersionExtras(b, id, v, o, {})
                = [time |-> b, ext |-> x, signer |-> blocks[b][x].signer]
            BY <3>1, ExtrasFound
        <3> QED
            BY <2>2, <3>2 DEF b, x, id, v, o
    <2>5. extras(k)
            = [time |-> r.block, ext |-> r.ext, signer |-> blocks[r.block][r.ext].signer]
        BY <2>2, <2>4
    <2> HIDE DEF extras
    <2>6. /\ extras(k).time = r.block /\ extras(k).ext = r.ext
          /\ extras(k).signer = blocks[r.block][r.ext].signer
        BY <2>5
    <2>7. version(k) = [index |-> k - 1, block |-> r.block, time |-> r.block,
                        ext |-> r.ext, signer |-> blocks[r.block][r.ext].signer]
        BY <2>2, <2>6
    <2> HIDE DEF version
    <2> QED
        BY <2>7 DEF AnswerAt, r
<1>4. BuildRecord(p, i, {})
        = [id |-> i, owner |-> entry.owner, created |-> entry.versions[1].block,
           count |-> m, versions |-> [k \in DOMAIN entry.versions |-> version(k)]]
    BY DEF BuildRecord
<1>5. [k \in DOMAIN entry.versions |-> version(k)] = [k \in 1 .. m |-> AnswerAt(p, i, k)]
    <2> HIDE DEF version, m, entry
    <2> QED
        BY <1>2, <1>3
<1> QED
    BY <1>4, <1>5 DEF Answer

\* The record IndexedProvider reads from the tables of the same height.
LEMMA StoredAnswers ==
    ASSUME ChainInv, TablesInv, NEW p, p = pallets[stored], NEW i \in DOMAIN p.live
    PROVE  /\ RegistryToRecord(i) = Answer(p, i)
           /\ \A r : r \in VersionsFor(i) <=>
                \E k \in 1 .. Len(p.live[i].versions) : r = RowAt(p, i, k)
<1>1. IsPallet(p)
    BY DEF ChainInv, TablesInv
<1> DEFINE m == Len(p.live[i].versions)
           R == VersionsFor(i)
<1>2. R = {s \in RowsOf(p) : s.ats = i}
    BY DEF VersionsFor, TablesInv
<1>3. m \in Nat /\ \A r : r \in R <=> \E k \in 1 .. m : r = RowAt(p, i, k)
    BY <1>1, <1>2, OwnRows
<1> HIDE DEF m, R
<1>4. /\ Cardinality(R) = m
      /\ \A k \in 1 .. m, r \in R : Lower(R, r) = k - 1 <=> r = RowAt(p, i, k)
    BY <1>3, RecordRows
<1>5. ASSUME NEW k \in 1 .. m
      PROVE  RowToVersion(VersionAt(i, k)) = AnswerAt(p, i, k)
    <2>1. VersionAt(i, k) = RowAt(p, i, k)
        <3>1. VersionAt(i, k) = CHOOSE r \in R : Lower(R, r) = k - 1
            BY DEF VersionAt, R, Lower
        <3>2. RowAt(p, i, k) \in R
            BY <1>3
        <3> QED
            BY <1>4, <3>1, <3>2
    <2> DEFINE r == RowAt(p, i, k)
    <2>2. r.version = k - 1
        BY DEF RowAt
    <2>3. AnswerAt(p, i, k) = [index |-> k - 1, block |-> r.block, time |-> r.block,
                               ext |-> r.ext, signer |-> blocks[r.block][r.ext].signer]
        BY DEF AnswerAt
    <2> HIDE DEF r
    <2>4. RowToVersion(r) = [index |-> r.version, block |-> r.block, time |-> r.block,
                             ext |-> r.ext, signer |-> blocks[r.block][r.ext].signer]
        BY DEF RowToVersion
    <2> QED
        BY <2>1, <2>2, <2>3, <2>4 DEF r
<1>6. [k \in 1 .. m |-> RowToVersion(VersionAt(i, k))] = [k \in 1 .. m |-> AnswerAt(p, i, k)]
    BY <1>5
<1>7. RegistryToRecord(i)
        = [id |-> i, owner |-> registry[i].owner, created |-> registry[i].created,
           count |-> registry[i].count,
           versions |-> [k \in 1 .. m |-> RowToVersion(VersionAt(i, k))]]
    BY <1>4 DEF RegistryToRecord, R
<1>8. /\ registry[i].owner = p.live[i].owner
      /\ registry[i].created = p.live[i].versions[1].block
      /\ registry[i].count = m
    BY DEF TablesInv, RegistryOf, m
<1>9. RegistryToRecord(i) = Answer(p, i)
    BY <1>6, <1>7, <1>8 DEF Answer, m
<1> QED
    BY <1>3, <1>9 DEF m, R


\* The items both providers make of a record's versions.
LEMMA FeedsAgree ==
    ASSUME ChainInv, TablesInv, NEW p, p = pallets[stored], NEW i \in DOMAIN p.live
    PROVE  {FeedRowToItem(r) : r \in VersionsFor(i)} = FeedItems(BuildRecord(p, i, {}))
<1> DEFINE m == Len(p.live[i].versions)
           record == BuildRecord(p, i, {})
           owner == p.live[i].owner
<1>1. record = Answer(p, i)
    <2>1. stored \in 0 .. Tip
        BY DEF TablesInv
    <2> QED
        BY <2>1, RpcAnswers
<1>2. /\ record.id = i /\ record.owner = owner /\ record.count = m
      /\ record.versions = [k \in 1 .. m |-> AnswerAt(p, i, k)]
    <2> HIDE DEF record
    <2> QED
        BY <1>1 DEF Answer
<1>3. /\ DOMAIN record.versions = 1 .. m
      /\ \A k \in 1 .. m : record.versions[k] = AnswerAt(p, i, k)
    <2> HIDE DEF record
    <2> QED
        BY <1>2
<1>4. \A r : r \in VersionsFor(i) <=> \E k \in 1 .. m : r = RowAt(p, i, k)
    BY StoredAnswers
<1>5. registry[i].owner = owner /\ registry[i].count = m
    BY DEF TablesInv, RegistryOf
<1> HIDE DEF record, m, owner
<1>6. ASSUME NEW k \in 1 .. m
      PROVE  FeedRowToItem(RowAt(p, i, k)) = FeedItem(record, k)
    <2> DEFINE r == RowAt(p, i, k)
               s == blocks[r.block][r.ext].signer
               v == record.versions[k]
    <2>1. r.ats = i /\ r.version = k - 1
        BY DEF RowAt
    <2>2. /\ v.index = r.version /\ v.block = r.block /\ v.time = r.block
          /\ v.ext = r.ext /\ v.signer = s
        <3>1. v = [index |-> k - 1, block |-> r.block, time |-> r.block, ext |-> r.ext,
                   signer |-> s]
            BY <1>3 DEF AnswerAt
        <3> HIDE DEF v, r, s
        <3> QED
            BY <2>1, <3>1
    <2>3. RowToVersion(r).signer = s
        BY DEF RowToVersion
    <2> DEFINE latest == r.version + 1 = m
    <2>4. FeedRowToItem(r)
            = [id |-> r.ats, index |-> r.version, block |-> r.block, time |-> r.block,
               owner |-> registry[r.ats].owner, signer |-> RowToVersion(r).signer,
               ext |-> r.ext, latest |-> r.version + 1 = registry[r.ats].count]
        BY DEF FeedRowToItem
    <2>5. FeedItem(record, k)
            = [id |-> record.id, index |-> v.index, block |-> v.block, time |-> v.time,
               owner |-> record.owner, signer |-> v.signer, ext |-> v.ext,
               latest |-> v.index + 1 = record.count]
        BY DEF FeedItem
    <2> HIDE DEF r, s, v
    <2>6. (v.index + 1 = record.count) = (r.version + 1 = registry[r.ats].count)
        BY <1>2, <1>5, <2>1, <2>2
    <2> QED
        BY <1>2, <1>5, <2>1, <2>2, <2>3, <2>4, <2>5, <2>6 DEF r
<1>7. \A x : x \in {FeedRowToItem(r) : r \in VersionsFor(i)} <=> x \in FeedItems(record)
    <2>1. \A x : x \in FeedItems(record) <=> \E k \in 1 .. m : x = FeedItem(record, k)
        BY <1>3 DEF FeedItems
    <2>2. \A x : x \in {FeedRowToItem(r) : r \in VersionsFor(i)} <=>
             \E r \in VersionsFor(i) : x = FeedRowToItem(r)
        OBVIOUS
    <2> QED
        BY <1>4, <1>6, <2>1, <2>2
<1> QED
    BY <1>7 DEF record

\* The invariants of the tables imply what the runs check of them.
LEMMA RecordsAreEqual ==
    ASSUME ChainInv, TablesInv
    PROVE  RecordsAgree
<1> DEFINE p == pallets[stored]
<1>1. stored \in 0 .. Tip
    BY DEF TablesInv
<1>2. DOMAIN registry = DOMAIN p.live
    BY DEF TablesInv, RegistryOf
<1> HIDE DEF p
<1>3. \A i \in DOMAIN p.live : /\ RegistryToRecord(i) = BuildRecord(p, i, {})
                               /\ {FeedRowToItem(r) : r \in VersionsFor(i)}
                                    = FeedItems(BuildRecord(p, i, {}))
    BY <1>1, RpcAnswers, StoredAnswers, FeedsAgree DEF p
<1> QED
    BY <1>2, <1>3 DEF RecordsAgree, p

LEMMA StatsAreEqual ==
    ASSUME TablesInv
    PROVE  StatsAgree
<1> DEFINE p == pallets[stored]
           ids == DOMAIN p.live
           count(i) == Len(p.live[i].versions)
<1>1. /\ DOMAIN registry = ids
      /\ \A i \in ids : /\ registry[i].owner = p.live[i].owner
                        /\ registry[i].created = p.live[i].versions[1].block
                        /\ registry[i].count = count(i)
    BY DEF TablesInv, RegistryOf
<1>2. [i \in ids |-> registry[i].count] = [i \in ids |-> count(i)]
    BY <1>1
<1>3. {registry[i].owner : i \in ids} = {p.live[i].owner : i \in ids}
    BY <1>1
<1>4. {i \in ids : registry[i].count > 1} = {i \in ids : count(i) > 1}
    BY <1>1
<1>5. {registry[i].created : i \in ids} = {p.live[i].versions[1].block : i \in ids}
    BY <1>1
<1>6. {registry[i].created : i \in ids} = {} <=> ids = {}
    OBVIOUS
<1> DEFINE created == {p.live[i].versions[1].block : i \in ids}
<1>7. StoredStats
        = [total |-> Cardinality(ids),
           total_versions |-> VersionTotal([i \in ids |-> registry[i].count]),
           unique_owners |-> Cardinality({registry[i].owner : i \in ids}),
           multi_version |-> Cardinality({i \in ids : registry[i].count > 1}),
           genesis_block |-> IF ids = {} THEN 0
                             ELSE Min({registry[i].created : i \in ids})]
    BY <1>1 DEF StoredStats
<1>8. BuildStats(p)
        = [total |-> Cardinality(ids),
           total_versions |-> VersionTotal([i \in ids |-> count(i)]),
           unique_owners |-> Cardinality({p.live[i].owner : i \in ids}),
           multi_version |-> Cardinality({i \in ids : count(i) > 1}),
           genesis_block |-> IF created = {} THEN 0 ELSE Min(created)]
    BY DEF BuildStats
<1>9. (created = {}) <=> (ids = {})
    OBVIOUS
<1> QED
    BY <1>2, <1>3, <1>4, <1>5, <1>7, <1>8, <1>9 DEF StatsAgree

LEMMA TablesTyped ==
    ASSUME ChainInv, TablesInv
    PROVE  /\ stored \in 0 .. Tip
           /\ \A i \in DOMAIN registry :
                registry[i].owner \in Accounts /\ registry[i].count \in 1 .. MaxOps
           /\ \A r \in versions : r.ats \in DOMAIN registry /\ r.block \in 1 .. stored
<1>1. stored \in 0 .. Tip
    BY DEF TablesInv
<1>2. IsPallet(pallets[stored])
    BY <1>1 DEF ChainInv
<1>3. Fit(registry, versions)
    BY <1>2, TablesFit DEF TablesInv
<1>4. \A i \in DOMAIN registry :
         registry[i].owner \in Accounts /\ registry[i].count \in Nat \ {0}
    BY <1>3 DEF Fit, RegistryEntry
<1>5. \A i \in DOMAIN registry : registry[i].count <= Cardinality(Extrinsics)
    BY <1>1 DEF TablesInv, ChainInv
<1>6. /\ Cardinality(Extrinsics) \in Nat /\ Cardinality(Extrinsics) <= MaxOps
      /\ MaxOps \in Nat
    BY FS_CardinalityType, Numbers DEF ChainInv
<1>7. \A r \in versions : r.ats \in DOMAIN registry
    BY <1>3 DEF Fit
<1>8. \A r \in versions : r.block \in 1 .. stored
    BY <1>1 DEF TablesInv, ChainInv, Traced
<1> QED
    BY <1>1, <1>4, <1>5, <1>6, <1>7, <1>8

(***************************************************************************)
(* Pages.                                                                  *)
(***************************************************************************)

BelowCursor(k) == cursor = None \/ k < cursor

\* A page a client can read.
Readable(p) ==
    /\ p.more \in BOOLEAN /\ p.items \in Seq(Nat) /\ (p.more => Len(p.items) >= 1)

\* Its rows go down, from below the cursor.
GoesDown(p) ==
    Descends(p.items) /\ \A i \in 1 .. Len(p.items) : BelowCursor(p.items[i])

\* It leaves no row of K out, other than those of the pages that follow.
Covers(p, K) ==
    \A k \in K : BelowCursor(k) =>
        k \in Range(p.items) \/ (p.more /\ k < p.items[Len(p.items)])

\* A page of a list is a page a client can read.
LEMMA TrimReads ==
    ASSUME NEW s \in Seq(Nat)
    PROVE  /\ Readable(Trim(s, Count)) /\ Len(Trim(s, Count).items) <= Len(s)
           /\ \A i \in 1 .. Len(Trim(s, Count).items) : Trim(s, Count).items[i] = s[i]
<1> DEFINE m == AtMost(Count, Len(s))
           items == SubSeq(s, 1, m)
           p == [items |-> items, more |-> Len(s) > Count]
<1>1. Count \in Nat /\ Count >= 1 /\ Len(s) \in Nat
    BY Numbers
<1>2. m \in 0 .. Len(s) /\ (Len(s) > Count => m = Count)
    BY <1>1 DEF AtMost
<1>3. Trim(s, Count) = p
    BY DEF Trim
<1> HIDE DEF m
<1>4. items \in Seq(Nat) /\ Len(items) = m /\ \A i \in 1 .. m : items[i] = s[i]
    BY <1>1, <1>2
<1>5. /\ p.items = items /\ (p.more <=> Len(s) > Count)
      /\ p = [items |-> items, more |-> Len(s) > Count]
    OBVIOUS
<1> HIDE DEF items, p
<1>6. p.more \in BOOLEAN
    BY <1>5
<1>7. p.more => Len(p.items) >= 1
    BY <1>1, <1>2, <1>4, <1>5
<1>8. Readable(p) /\ Len(p.items) <= Len(s) /\ \A i \in 1 .. Len(p.items) : p.items[i] = s[i]
    BY <1>2, <1>4, <1>5, <1>6, <1>7 DEF Readable
<1> QED
    BY <1>3, <1>8

\* The pages that are queries.
LEMMA QueryPage ==
    ASSUME NEW K \in SUBSET Nat, IsFiniteSet(K)
    PROVE  LET p == Trim(NewestFirst(Before(K)), Count)
           IN  Readable(p) /\ GoesDown(p) /\ Covers(p, K)
<1> DEFINE B == Before(K)
           s == NewestFirst(B)
           m == AtMost(Count, Len(s))
           p == Trim(s, Count)
<1>1. /\ B \in SUBSET Nat /\ IsFiniteSet(B)
      /\ \A k : k \in B <=> k \in K /\ BelowCursor(k)
    <2>1. \A k : k \in B <=> k \in K /\ BelowCursor(k)
        BY DEF Before, BelowCursor
    <2>2. B \in SUBSET K
        BY <2>1
    <2> QED
        BY <2>1, <2>2, FS_Subset
<1> HIDE DEF B
<1>2. /\ s \in Seq(B) /\ Len(s) = Cardinality(B) /\ Descends(s) /\ Range(s) = B
    BY <1>1, RankOrder DEF NewestFirst
<1> HIDE DEF s
<1>3. Count \in Nat /\ Count >= 1 /\ Len(s) \in Nat
    BY <1>2, Numbers
<1>4. m = IF Count < Len(s) THEN Count ELSE Len(s)
    BY DEF AtMost
<1>5. p = [items |-> SubSeq(s, 1, m), more |-> Len(s) > Count]
    BY DEF Trim
<1>6. IsPage(p, B, Count)
    <2> HIDE DEF m, p
    <2> QED
        BY <1>1, <1>2, <1>3, <1>4, <1>5, FirstRows
<1>7. s \in Seq(Nat)
    <2>1. s \in Seq(B) /\ \A k \in B : k \in Nat
        BY <1>1, <1>2
    <2> QED
        BY <2>1
<1>8. Readable(p)
    BY <1>7, TrimReads, Zenon
<1> HIDE DEF p
<1>9. p.items \in Seq(B) /\ Descends(p.items) /\ Len(p.items) \in Nat
    BY <1>6 DEF IsPage
<1>10. \A i \in 1 .. Len(p.items) : p.items[i] \in B /\ p.items[i] \in Nat
    BY <1>1, <1>9
<1>11. GoesDown(p)
    BY <1>1, <1>9, <1>10 DEF GoesDown
<1>12. Covers(p, K)
    <2> SUFFICES ASSUME NEW k \in B, k \notin Range(p.items)
                 PROVE  p.more /\ k < p.items[Len(p.items)]
        BY <1>1 DEF Covers
    <2>1. p.more /\ Len(p.items) >= 1
        BY <1>6, <1>8 DEF IsPage, Readable
    <2>2. Len(p.items) \in 1 .. Len(p.items) /\ k \in Nat
        BY <1>1, <1>9, <2>1
    <2>3. p.items[Len(p.items)] \in Range(p.items)
        BY <1>9, <2>2 DEF Range
    <2>4. ~(k > p.items[Len(p.items)])
        BY <1>6, <2>2 DEF IsPage
    <2> QED
        BY <1>10, <2>1, <2>2, <2>3, <2>4
<1> QED
    BY <1>8, <1>11, <1>12 DEF p, s, B

------------------------------------------------------------------------------
(***************************************************************************)
(* The list of records of RpcProvider, by position.                        *)
(***************************************************************************)

\* A descending list of numbers below n: each position has its highest number, and the
\* positions of a list of all of them its only one.
LEMMA PositionBounds ==
    ASSUME NEW n \in Nat, NEW s \in Seq(Nat), Descends(s),
           \A i \in 1 .. Len(s) : s[i] < n
    PROVE  /\ \A i \in 1 .. Len(s) : s[i] + i <= n
           /\ \A i \in 1 .. Len(s) : s[i] + i >= Len(s)
<1>1. Len(s) \in Nat /\ \A i \in 1 .. Len(s) : s[i] \in Nat
    OBVIOUS
<1>2. \A i \in 1 .. Len(s) : s[i] + i <= n
    <2> DEFINE bad == {i \in 1 .. Len(s) : ~(s[i] + i <= n)}
    <2> SUFFICES ASSUME bad # {}
                 PROVE  FALSE
        OBVIOUS
    <2>1. PICK i \in bad : \A j \in bad : i <= j
        <3>1. bad \in SUBSET Nat
            OBVIOUS
        <3> HIDE DEF bad
        <3> QED
            BY <3>1, LeastElement
    <2>2. i \in 1 .. Len(s) /\ ~(s[i] + i <= n) /\ s[i] \in Nat
        BY <1>1, <2>1
    <2>3. CASE i = 1
        BY <2>2, <2>3
    <2>4. CASE i # 1
        <3>1. i - 1 \in 1 .. Len(s) /\ i - 1 < i
            BY <1>1, <2>2, <2>4
        <3>2. s[i - 1] > s[i] /\ s[i - 1] \in Nat
            BY <1>1, <2>2, <3>1 DEF Descends
        <3>3. s[i - 1] + (i - 1) <= n
            BY <2>1, <3>1
        <3> QED
            BY <1>1, <2>2, <3>1, <3>2, <3>3, SMTT(30)
    <2> QED
        BY <2>3, <2>4
<1>3. \A i \in 1 .. Len(s) : s[i] + i >= Len(s)
    <2> DEFINE bad == {i \in 1 .. Len(s) : ~(s[i] + i >= Len(s))}
    <2> SUFFICES ASSUME bad # {}
                 PROVE  FALSE
        OBVIOUS
    <2>1. PICK i \in bad : \A j \in bad : j <= i
        <3>1. bad \in SUBSET Nat /\ \A j \in bad : j <= Len(s)
            BY <1>1
        <3> HIDE DEF bad
        <3> QED
            BY <1>1, <3>1, GreatestElement
    <2>2. i \in 1 .. Len(s) /\ ~(s[i] + i >= Len(s)) /\ s[i] \in Nat
        BY <1>1, <2>1
    <2>3. CASE i = Len(s)
        BY <1>1, <2>2, <2>3
    <2>4. CASE i # Len(s)
        <3>1. i + 1 \in 1 .. Len(s) /\ i < i + 1
            BY <1>1, <2>2, <2>4
        <3>2. s[i] > s[i + 1] /\ s[i + 1] \in Nat
            BY <1>1, <2>2, <3>1 DEF Descends
        <3>3. s[i + 1] + (i + 1) >= Len(s)
            BY <2>1, <3>1
        <3> QED
            BY <1>1, <2>2, <3>1, <3>2, <3>3, SMTT(30)
    <2> QED
        BY <2>3, <2>4
<1> QED
    BY <1>2, <1>3

------------------------------------------------------------------------------
(***************************************************************************)
(* The inductive invariant of a walk, and what a page does to it.          *)
(***************************************************************************)

\* A walk that goes on asks below the last row it has received.
Resumes ==
    /\ cursor # None => got # << >>
    /\ more /\ cursor = None => got = << >>
    /\ more /\ cursor # None => cursor = got[Len(got)]

\* Every row that could be read all along has been received or is still to come.
NothingMissed == \A k \in available : k \in Range(got) \/ (more /\ BelowCursor(k))

WalkInv ==
    /\ walk \in ({"records", "owned", "feed"} \X {"rpc", "indexed"}) \cup {NoWalk}
    /\ more \in BOOLEAN /\ lost \subseteq 1 .. Tip
    /\ cursor \in Nat \cup {None} /\ got \in Seq(Nat) /\ available \subseteq Nat
    /\ walk = NoWalk => cursor = None /\ got = << >> /\ available = {} /\ ~more
    /\ Resumes
    /\ Ordered => Descends(got)
    /\ Complete => NothingMissed

\* A page continues the rows that were received before it.
LEMMA PageJoins ==
    ASSUME WalkInv, more, NEW p, Readable(p), got' = got \o p.items
    PROVE  /\ got' \in Seq(Nat) /\ Len(got') = Len(got) + Len(p.items)
           /\ Descends(got) /\ GoesDown(p) => Descends(got')
           /\ Range(got) \subseteq Range(got') /\ Range(p.items) \subseteq Range(got')
           /\ Len(p.items) >= 1 => Last(p.items) = got'[Len(got')] /\ Last(p.items) \in Nat
           /\ Last(p.items) = p.items[Len(p.items)]
<1> DEFINE s == p.items
<1>1. got \in Seq(Nat) /\ s \in Seq(Nat) /\ Len(got) \in Nat /\ Len(s) \in Nat
    BY DEF WalkInv, Readable
<1> HIDE DEF s
<1>2. /\ got' \in Seq(Nat) /\ Len(got') = Len(got) + Len(s)
      /\ DOMAIN got = 1 .. Len(got) /\ DOMAIN s = 1 .. Len(s) /\ DOMAIN got' = 1 .. Len(got')
      /\ \A i \in 1 .. Len(got) : got'[i] = got[i]
      /\ \A i \in 1 .. Len(s) : got'[Len(got) + i] = s[i]
    BY <1>1 DEF s
<1>3. \A i \in 1 .. Len(got') : \/ i \in 1 .. Len(got)
                                \/ /\ ~(i <= Len(got)) /\ i - Len(got) \in 1 .. Len(s)
                                   /\ i = Len(got) + (i - Len(got))
    BY <1>1, <1>2
<1>4. /\ \A i \in 1 .. Len(got) : i \in 1 .. Len(got')
      /\ \A i \in 1 .. Len(s) : Len(got) + i \in 1 .. Len(got')
    BY <1>1, <1>2
<1>5. Range(got) \subseteq Range(got')
    BY <1>2, <1>4 DEF Range
<1>6. Range(s) \subseteq Range(got')
    <2> SUFFICES ASSUME NEW i \in 1 .. Len(s)
                 PROVE  s[i] \in Range(got')
        BY <1>2 DEF Range
    <2>1. Len(got) + i \in DOMAIN got' /\ got'[Len(got) + i] = s[i]
        BY <1>2, <1>4
    <2> QED
        BY <2>1 DEF Range
<1>7. Last(s) = s[Len(s)]
    BY DEF Last
<1>8. ASSUME Len(s) >= 1
      PROVE  Last(s) = got'[Len(got')] /\ Last(s) \in Nat
    <2>1. Len(s) \in 1 .. Len(s)
        BY <1>1, <1>8
    <2> QED
        BY <1>1, <1>2, <1>7, <2>1
<1>9. ASSUME Descends(got), GoesDown(p)
      PROVE  Descends(got')
    <2>1. Descends(s) /\ \A i \in 1 .. Len(s) : BelowCursor(s[i])
        BY <1>9 DEF GoesDown, s
    <2>2. \A i \in 1 .. Len(got), j \in 1 .. Len(s) : got[i] > s[j]
        <3> SUFFICES ASSUME NEW i \in 1 .. Len(got), NEW j \in 1 .. Len(s)
                     PROVE  got[i] > s[j]
            OBVIOUS
        <3>1. got # << >> /\ Len(got) \in 1 .. Len(got)
            BY <1>1
        <3>2. cursor # None /\ cursor = got[Len(got)] /\ cursor \in Nat
            BY <3>1 DEF WalkInv, Resumes
        <3>3. s[j] < got[Len(got)] /\ s[j] \in Nat /\ got[i] \in Nat /\ got[Len(got)] \in Nat
            BY <1>1, <2>1, <3>1, <3>2 DEF BelowCursor
        <3>4. i = Len(got) \/ (i < Len(got) /\ got[i] > got[Len(got)])
            BY <1>1, <1>9, <3>1 DEF Descends
        <3> QED
            BY <3>3, <3>4
    <2> SUFFICES ASSUME NEW i \in 1 .. Len(got'), NEW j \in 1 .. Len(got'), i < j
                 PROVE  got'[i] > got'[j]
        BY DEF Descends
    <2>3. CASE j \in 1 .. Len(got)
        <3>1. i \in 1 .. Len(got)
            BY <1>1, <2>3
        <3> QED
            BY <1>2, <1>9, <2>3, <3>1 DEF Descends
    <2>4. CASE i \in 1 .. Len(got) /\ j \notin 1 .. Len(got)
        BY <1>2, <1>3, <2>2, <2>4
    <2>5. CASE i \notin 1 .. Len(got) /\ j \notin 1 .. Len(got)
        <3> DEFINE a == i - Len(got)
                   b == j - Len(got)
        <3>1. a \in 1 .. Len(s) /\ b \in 1 .. Len(s) /\ i = Len(got) + a /\ j = Len(got) + b
            BY <1>3, <2>5
        <3>2. a < b
            BY <1>1
        <3> HIDE DEF a, b
        <3>3. s[a] > s[b]
            BY <2>1, <3>1, <3>2 DEF Descends
        <3> QED
            BY <1>2, <3>1, <3>3
    <2> QED
        BY <2>3, <2>4, <2>5
<1> QED
    BY <1>2, <1>5, <1>6, <1>7, <1>8, <1>9 DEF s

\* The answer to a request.
LEMMA ReceiveStep ==
    ASSUME WalkInv, walk # NoWalk, more, NEW p, Readable(p), Receive(p),
           lost \subseteq lost', lost' \subseteq 1 .. Tip,
           Ordered' => GoesDown(p),
           Complete' => Covers(p, Servable(walk[1], walk[2]))
    PROVE  WalkInv'
<1>1. /\ got' = got \o p.items /\ more' = p.more /\ available' = StillAvailable
      /\ cursor' = (IF p.more THEN Last(p.items) ELSE cursor)
      /\ UNCHANGED <<node, tables, walk>>
    BY DEF Receive
<1>2. /\ got' \in Seq(Nat) /\ Len(got') = Len(got) + Len(p.items)
      /\ Descends(got) /\ GoesDown(p) => Descends(got')
      /\ Range(got) \subseteq Range(got') /\ Range(p.items) \subseteq Range(got')
      /\ Len(p.items) >= 1 => Last(p.items) = got'[Len(got')] /\ Last(p.items) \in Nat
      /\ Last(p.items) = p.items[Len(p.items)]
    BY <1>1, PageJoins
<1>3. /\ p.more \in BOOLEAN /\ (p.more => Len(p.items) >= 1)
      /\ Len(p.items) \in Nat /\ Len(got) \in Nat
    BY DEF Readable, WalkInv
<1>4. /\ walk' = walk /\ walk' \in {"records", "owned", "feed"} \X {"rpc", "indexed"}
      /\ Tip' = Tip /\ blocks' = blocks /\ pallets' = pallets
    BY <1>1 DEF WalkInv, node, Tip
<1>5. more' \in BOOLEAN /\ lost' \subseteq (1 .. Tip)'
    BY <1>1, <1>3, <1>4
<1>6. cursor' \in Nat \cup {None}
    BY <1>1, <1>2, <1>3 DEF WalkInv
<1>7. Resumes'
    <2>1. CASE p.more
        <3>1. cursor' = got'[Len(got')] /\ cursor' \in Nat /\ Len(got') # 0
            BY <1>1, <1>2, <1>3, <2>1
        <3> QED
            BY <1>2, <3>1 DEF Resumes, None
    <2>2. CASE ~p.more
        <3>1. cursor' = cursor /\ ~more'
            BY <1>1, <2>2
        <3>2. cursor # None => Len(got') # 0
            BY <1>2, <1>3 DEF WalkInv, Resumes
        <3> QED
            BY <1>2, <3>1, <3>2 DEF Resumes
    <2> QED
        BY <1>3, <2>1, <2>2
<1>8. Ordered' => Descends(got')
    <2> SUFFICES ASSUME Ordered'
                 PROVE  Descends(got')
        OBVIOUS
    <2>1. Ordered
        BY <1>4 DEF Ordered
    <2> QED
        BY <1>2, <2>1 DEF WalkInv
<1>9. available' \subseteq available
    BY <1>1 DEF StillAvailable
<1>10. Complete' => NothingMissed'
    <2> SUFFICES ASSUME Complete', NEW k \in available', k \notin Range(got')
                 PROVE  more' /\ BelowCursor(k)'
        BY DEF NothingMissed
    <2>1. Complete
        BY <1>4 DEF Complete
    <2>2. k \in available /\ BelowCursor(k) /\ k \in Nat
        BY <1>2, <1>9, <2>1 DEF WalkInv, NothingMissed
    <2>3. k \in Servable(walk[1], walk[2])
        BY <1>1, <2>2 DEF StillAvailable, BelowCursor, WalkInv, None
    <2>4. p.more /\ k < p.items[Len(p.items)]
        BY <1>2, <2>2, <2>3 DEF Covers
    <2>5. cursor' = p.items[Len(p.items)] /\ more'
        BY <1>1, <1>2, <2>4
    <2> QED
        BY <2>4, <2>5 DEF BelowCursor
<1>11. walk' # NoWalk
    BY <1>4
<1> QED
    BY <1>2, <1>4, <1>5, <1>6, <1>7, <1>8, <1>9, <1>10, <1>11 DEF WalkInv

------------------------------------------------------------------------------
(***************************************************************************)
(* The steps that receive no page.                                         *)
(***************************************************************************)

\* A key of the feed is a number, and a row of the feed has one.
LEMMA KeysAreNumbers ==
    ASSUME NEW b \in Nat, NEW i \in Nat, NEW v \in Nat
    PROVE  FeedKey(b, i, v) \in Nat
<1> DEFINE q == Stride * Stride
<1>1. q \in Nat /\ Stride \in Nat
    BY Numbers
<1> HIDE DEF q
<1>2. b * q \in Nat /\ i * Stride \in Nat
    BY <1>1
<1>3. FeedKey(b, i, v) = b * q + i * Stride + v
    BY DEF FeedKey, q
<1> QED
    BY <1>2, <1>3

\* The storage at the tip.
LEMMA LivePallet ==
    ASSUME ChainInv
    PROVE  Tip \in Nat /\ Tip \in 0 .. Tip /\ IsPallet(AtTip)
BY DEF ChainInv, AtTip, Tip

\* The numbers a version of a storage is made of.
LEMMA VersionNumbers ==
    ASSUME NEW p, IsPallet(p), NEW v \in LiveVersions(p)
    PROVE  /\ v = <<v[1], v[2]>> /\ v[1] \in DOMAIN p.live /\ v[1] \in Nat
           /\ v[1] \in 0 .. p.next - 1 /\ p.next \in Nat
           /\ p.live[v[1]].versions \in Seq(Version)
           /\ v[2] \in 1 .. Len(p.live[v[1]].versions) /\ v[2] - 1 \in Nat /\ v[2] \in Nat
           /\ p.live[v[1]].versions[v[2]].block \in Nat
<1>1. PICK i \in DOMAIN p.live : \E k \in DOMAIN p.live[i].versions : v = <<i, k>>
    BY VersionsListed
<1>2. PICK k \in DOMAIN p.live[i].versions : v = <<i, k>>
    BY <1>1
<1>3. v[1] = i /\ v[2] = k
    BY <1>2
<1>4. i \in 0 .. p.next - 1 /\ p.next \in Nat /\ p.live[i] \in Entry
    BY DEF IsPallet
<1>5. p.live[i].versions \in Seq(Version)
    BY <1>4 DEF Entry
<1>6. k \in 1 .. Len(p.live[i].versions) /\ p.live[i].versions[k] \in Version
    BY <1>5
<1>7. p.live[i].versions[k].block \in Nat
    BY <1>6 DEF Version
<1> QED
    BY <1>2, <1>3, <1>4, <1>5, <1>6, <1>7

\* The rows of each list are numbers.
LEMMA ServableNumbers ==
    ASSUME ChainInv, TablesInv, NEW l \in {"records", "owned", "feed"},
           NEW p \in {"rpc", "indexed"}
    PROVE  Servable(l, p) \subseteq Nat
<1>1. IsPallet(AtTip) /\ stored \in 0 .. Tip /\ IsPallet(pallets[stored])
    BY LivePallet DEF ChainInv, TablesInv
<1>2. DOMAIN AtTip.live \subseteq Nat
    BY <1>1 DEF IsPallet
<1>3. Fit(registry, versions)
    BY <1>1, TablesFit DEF TablesInv
<1>4. DOMAIN registry \subseteq Nat /\ versions \subseteq VersionRow
    BY <1>3 DEF Fit
<1>5. OwnerIndex(AtTip, Owner) \subseteq Nat /\ OwnedRows \subseteq Nat
    BY <1>2, <1>4 DEF OwnerIndex, OwnedRows
<1>6. FeedKeys \subseteq Nat
    <2> SUFFICES ASSUME NEW r \in versions
                 PROVE  RowKey(r) \in Nat
        BY DEF FeedKeys
    <2>1. r.block \in Nat /\ r.ats \in Nat /\ r.version \in Nat
        BY <1>4 DEF VersionRow
    <2> QED
        BY <2>1, KeysAreNumbers DEF RowKey
<1>7. LiveKeys(AtTip) \subseteq Nat
    <2> SUFFICES ASSUME NEW v \in LiveVersions(AtTip)
                 PROVE  FeedKey(AtTip.live[v[1]].versions[v[2]].block, v[1], v[2] - 1) \in Nat
        BY DEF LiveKeys
    <2>1. /\ AtTip.live[v[1]].versions[v[2]].block \in Nat
          /\ v[1] \in Nat /\ v[2] - 1 \in Nat
        BY <1>1, VersionNumbers
    <2> QED
        BY <2>1, KeysAreNumbers
<1>8. Servable(l, p) \in {DOMAIN AtTip.live, OwnerIndex(AtTip, Owner), LiveKeys(AtTip),
                          DOMAIN registry, OwnedRows, FeedKeys}
    BY DEF Servable
<1> QED
    BY <1>2, <1>4, <1>5, <1>6, <1>7, <1>8

\* A longer chain and fuller tables leave a walk where it is.
LEMMA WalkStays ==
    ASSUME WalkInv, UNCHANGED client, Tip \in Nat, Tip' \in Nat, Tip' >= Tip,
           \A n \in 0 .. Tip : pallets'[n] = pallets[n]
    PROVE  WalkInv'
<1>1. /\ walk' = walk /\ cursor' = cursor /\ got' = got /\ more' = more
      /\ available' = available /\ lost' = lost
    BY DEF client
<1>2. \A n \in 0 .. Tip : n \in 0 .. Tip'
    OBVIOUS
<1>3. Complete' => Complete
    <2>1. CASE walk = <<"feed", "rpc">>
        BY <1>1, <1>2, <2>1 DEF Complete, LiveVersions
    <2>2. CASE walk = <<"records", "rpc">>
        BY <1>1, <1>2, <2>2 DEF Complete
    <2>3. CASE walk # <<"feed", "rpc">> /\ walk # <<"records", "rpc">>
        BY <2>3 DEF Complete
    <2> QED
        BY <2>1, <2>2, <2>3
<1>4. NothingMissed' <=> NothingMissed
    BY <1>1 DEF NothingMissed, BelowCursor
<1>5. (Ordered' <=> Ordered) /\ (Resumes' <=> Resumes)
    BY <1>1 DEF Ordered, Resumes
<1>6. lost' \subseteq 1 .. Tip'
    BY <1>1 DEF WalkInv
<1> QED
    BY <1>1, <1>3, <1>4, <1>5, <1>6 DEF WalkInv

\* A walk that starts, one that ends, and none at all.
LEMMA WalkStarts ==
    ASSUME ChainInv, TablesInv, WalkInv, StartWalk
    PROVE  WalkInv'
<1>1. PICK l \in {"records", "owned", "feed"}, p \in {"rpc", "indexed"} :
         walk' = <<l, p>> /\ available' = Servable(l, p)
    BY DEF StartWalk
<1>2. /\ walk = NoWalk /\ more' = TRUE
      /\ cursor' = cursor /\ got' = got /\ lost' = lost /\ Tip' = Tip
    BY DEF StartWalk, node, Tip
<1>3. cursor' = None /\ got' = << >>
    BY <1>2 DEF WalkInv
<1>4. available' \subseteq Nat
    BY <1>1, ServableNumbers
<1>5. walk' \in {"records", "owned", "feed"} \X {"rpc", "indexed"} /\ walk' # NoWalk
    <2>1. <<l, p>>[1] = l /\ Len(<<l, p>>) = 2 /\ Len(<< >>) = 0
        OBVIOUS
    <2> QED
        BY <1>1, <2>1 DEF NoWalk
<1>6. Resumes'
    BY <1>3 DEF Resumes
<1>7. Descends(got')
    BY <1>3 DEF Descends
<1>8. NothingMissed'
    BY <1>2, <1>3 DEF NothingMissed, BelowCursor
<1> QED
    BY <1>2, <1>3, <1>4, <1>5, <1>6, <1>7, <1>8 DEF WalkInv

LEMMA WalkLeaves ==
    ASSUME WalkInv, Leave
    PROVE  WalkInv'
<1>1. /\ walk' = NoWalk /\ cursor' = None /\ got' = << >> /\ available' = {} /\ lost' = {}
      /\ more' = more /\ ~more
    BY DEF Leave
<1>2. Resumes' /\ Descends(got') /\ NothingMissed' /\ more' \in BOOLEAN
    BY <1>1 DEF Resumes, Descends, NothingMissed, WalkInv
<1> QED
    BY <1>1, <1>2 DEF WalkInv

LEMMA NoWalkYet == Init => WalkInv
<1> SUFFICES ASSUME Init
             PROVE  WalkInv
    OBVIOUS
<1>1. /\ walk = NoWalk /\ cursor = None /\ got = << >> /\ more = FALSE
      /\ available = {} /\ lost = {}
    BY DEF Init
<1>2. Resumes /\ Descends(got) /\ NothingMissed
    BY <1>1 DEF Resumes, Descends, NothingMissed
<1>3. more \in BOOLEAN /\ ~more
    BY <1>1
<1> QED
    BY <1>1, <1>2, <1>3 DEF WalkInv

------------------------------------------------------------------------------
(***************************************************************************)
(* The rows of each list are finitely many; the lists that are queries.    *)
(***************************************************************************)

LEMMA IdsAreFinite ==
    ASSUME NEW p, IsPallet(p)
    PROVE  IsFiniteSet(DOMAIN p.live) /\ DOMAIN p.live \subseteq Nat
<1>1. DOMAIN p.live \subseteq 0 .. p.next - 1 /\ p.next \in Nat
    BY DEF IsPallet
<1>2. IsFiniteSet(0 .. p.next - 1)
    BY <1>1, FS_Interval
<1> QED
    BY <1>1, <1>2, FS_Subset

\* A storage has finitely many versions, and the tables finitely many rows.
LEMMA VersionsAreFinite ==
    ASSUME ChainInv, NEW n \in 0 .. Tip
    PROVE  IsFiniteSet(LiveVersions(pallets[n]))
<1> DEFINE p == pallets[n]
<1>1. IsPallet(p) /\ IsFiniteSet(DOMAIN p.live)
    BY IdsAreFinite DEF ChainInv
<1>2. MaxOps \in Nat /\ Cardinality(Extrinsics) \in Nat /\ Cardinality(Extrinsics) <= MaxOps
    BY Numbers, FS_CardinalityType DEF ChainInv
<1>3. \A i \in DOMAIN p.live : p.live[i].versions \in Seq(Version)
    BY <1>1 DEF IsPallet, Entry
<1>4. \A i \in DOMAIN p.live : Len(p.live[i].versions) <= MaxOps
    <2> SUFFICES ASSUME NEW i \in DOMAIN p.live
                 PROVE  Len(p.live[i].versions) <= MaxOps
        OBVIOUS
    <2>1. /\ i \in DOMAIN RegistryOf(p) /\ RegistryOf(p)[i].count = Len(p.live[i].versions)
          /\ RegistryOf(p)[i].count <= Cardinality(Extrinsics)
        BY DEF RegistryOf, ChainInv
    <2>2. Len(p.live[i].versions) \in Nat
        BY <1>3
    <2> QED
        BY <1>2, <2>1, <2>2
<1> DEFINE ids == DOMAIN p.live
           places == 1 .. MaxOps
           box == ids \X places
<1>5. IsFiniteSet(places) /\ IsFiniteSet(ids)
    BY <1>1, <1>2, FS_Interval
<1> HIDE DEF ids, places
<1>6. IsFiniteSet(box)
    BY <1>5, FS_Product
<1> USE DEF ids, places
<1>7. LiveVersions(p) \subseteq box
    <2> SUFFICES ASSUME NEW v \in LiveVersions(p)
                 PROVE  v \in box
        OBVIOUS
    <2>1. /\ v = <<v[1], v[2]>> /\ v[1] \in DOMAIN p.live /\ v[2] \in Nat
          /\ v[2] \in 1 .. Len(p.live[v[1]].versions)
        BY <1>1, VersionNumbers
    <2>2. Len(p.live[v[1]].versions) <= MaxOps /\ Len(p.live[v[1]].versions) \in Nat
        BY <1>3, <1>4, <2>1
    <2>3. v[2] \in 1 .. MaxOps
        BY <1>2, <2>1, <2>2
    <2> QED
        BY <2>1, <2>3, Zenon
<1> QED
    BY <1>6, <1>7, FS_Subset

LEMMA FeedKeysAreFinite ==
    ASSUME ChainInv, TablesInv
    PROVE  IsFiniteSet(FeedKeys)
<1> DEFINE p == pallets[stored]
           V == LiveVersions(p)
           f == [v \in V |-> RowKey(RowAt(p, v[1], v[2]))]
<1>1. IsFiniteSet(V)
    BY VersionsAreFinite DEF TablesInv
<1>2. FeedKeys = {RowKey(RowAt(p, v[1], v[2])) : v \in V}
    BY DEF FeedKeys, RowsOf, TablesInv
<1>3. f \in Surjection(V, FeedKeys)
    BY <1>2 DEF Surjection
<1> QED
    BY <1>1, <1>3, FS_Surjection

\* The rows of each list, one by one.
LEMMA ServedSets ==
    /\ Servable("owned", "rpc") = OwnerIndex(AtTip, Owner)
    /\ Servable("records", "indexed") = DOMAIN registry
    /\ Servable("owned", "indexed") = OwnedRows
    /\ Servable("feed", "indexed") = FeedKeys
    /\ Servable("records", "rpc") = DOMAIN AtTip.live
    /\ Servable("feed", "rpc") = LiveKeys(AtTip)
<1>1. Servable("owned", "rpc") = OwnerIndex(AtTip, Owner)
    BY DEF Servable
<1>2. Servable("records", "indexed") = DOMAIN registry
    BY DEF Servable
<1>3. Servable("owned", "indexed") = OwnedRows
    BY DEF Servable
<1>4. Servable("feed", "indexed") = FeedKeys
    BY DEF Servable
<1>5. Servable("records", "rpc") = DOMAIN AtTip.live
    BY DEF Servable
<1>6. Servable("feed", "rpc") = LiveKeys(AtTip)
    BY DEF Servable
<1> QED
    BY <1>1, <1>2, <1>3, <1>4, <1>5, <1>6

\* The lists of IndexedProvider, and the list of one owner of RpcProvider.
LEMMA QueriesArePages ==
    ASSUME ChainInv, TablesInv, NEW K,
           K \in {OwnerIndex(AtTip, Owner), DOMAIN registry, OwnedRows, FeedKeys}
    PROVE  LET p == Trim(NewestFirst(Before(K)), Count)
           IN  Readable(p) /\ GoesDown(p) /\ Covers(p, K)
<1>1. IsPallet(AtTip) /\ IsPallet(pallets[stored])
    BY LivePallet DEF ChainInv, TablesInv
<1>2. DOMAIN registry = DOMAIN pallets[stored].live
    BY DEF TablesInv, RegistryOf
<1>3. IsFiniteSet(OwnerIndex(AtTip, Owner))
    <2>1. OwnerIndex(AtTip, Owner) \in SUBSET DOMAIN AtTip.live
        BY DEF OwnerIndex
    <2> QED
        BY <1>1, <2>1, IdsAreFinite, FS_Subset
<1>4. IsFiniteSet(DOMAIN registry) /\ IsFiniteSet(OwnedRows)
    <2>1. OwnedRows \in SUBSET DOMAIN registry
        BY DEF OwnedRows
    <2> QED
        BY <1>1, <1>2, <2>1, IdsAreFinite, FS_Subset
<1>5. /\ Servable("owned", "rpc") = OwnerIndex(AtTip, Owner)
      /\ Servable("records", "indexed") = DOMAIN registry
      /\ Servable("owned", "indexed") = OwnedRows
      /\ Servable("feed", "indexed") = FeedKeys
    BY ServedSets
<1>6. K \in SUBSET Nat /\ IsFiniteSet(K)
    BY <1>3, <1>4, <1>5, FeedKeysAreFinite, ServableNumbers
<1> QED
    BY <1>6, QueryPage

\* The pages of the queries keep the invariant of a walk.
LEMMA QueryStep ==
    ASSUME ChainInv, TablesInv, WalkInv,
           AskRpcOwned \/ AskStoredList \/ AskStoredOwned \/ AskStoredFeed
    PROVE  WalkInv'
<1>1. /\ Servable("owned", "rpc") = OwnerIndex(AtTip, Owner)
      /\ Servable("records", "indexed") = DOMAIN registry
      /\ Servable("owned", "indexed") = OwnedRows
      /\ Servable("feed", "indexed") = FeedKeys
    BY ServedSets
<1>2. ASSUME NEW l \in {"records", "owned", "feed"}, NEW p \in {"rpc", "indexed"},
             walk = <<l, p>>
      PROVE  walk[1] = l /\ walk[2] = p /\ walk # NoWalk
    <2>1. <<l, p>>[1] = l /\ Len(<<l, p>>) = 2 /\ Len(<< >>) = 0
        OBVIOUS
    <2> QED
        BY <1>2, <2>1 DEF NoWalk
<1>3. lost \subseteq 1 .. Tip
    BY DEF WalkInv
<1>4. CASE AskRpcOwned
    <2>1. /\ walk = <<"owned", "rpc">> /\ more
          /\ \E gone \in {{}} \cup {{n} : n \in 1 .. Tip} :
               lost' = lost \cup gone /\ Receive(RpcOwned(AtTip, gone))
        BY <1>4 DEF AskRpcOwned, AskRpc, Ask
    <2>2. PICK gone \in {{}} \cup {{n} : n \in 1 .. Tip} :
             lost' = lost \cup gone /\ Receive(RpcOwned(AtTip, gone))
        BY <2>1
    <2> DEFINE page == Trim(NewestFirst(Before(OwnerIndex(AtTip, Owner))), Count)
    <2>3. RpcOwned(AtTip, gone) = page
        BY DEF RpcOwned
    <2>4. Readable(page) /\ GoesDown(page) /\ Covers(page, OwnerIndex(AtTip, Owner))
        BY QueriesArePages
    <2>5. lost \subseteq lost' /\ lost' \subseteq 1 .. Tip
        BY <1>3, <2>2
    <2> HIDE DEF page
    <2> QED
        BY <1>1, <1>2, <2>1, <2>2, <2>3, <2>4, <2>5, ReceiveStep
<1>5. CASE AskStoredList
    <2> DEFINE page == Trim(NewestFirst(Before(DOMAIN registry)), Count)
    <2>1. walk = <<"records", "indexed">> /\ more /\ Receive(page) /\ lost' = lost
        BY <1>5 DEF AskStoredList, Ask, ListAtsPage
    <2>2. Readable(page) /\ GoesDown(page) /\ Covers(page, DOMAIN registry)
        BY QueriesArePages
    <2> HIDE DEF page
    <2> QED
        BY <1>1, <1>2, <1>3, <2>1, <2>2, ReceiveStep
<1>6. CASE AskStoredOwned
    <2> DEFINE page == Trim(NewestFirst(Before(OwnedRows)), Count)
    <2>1. walk = <<"owned", "indexed">> /\ more /\ Receive(page) /\ lost' = lost
        BY <1>6 DEF AskStoredOwned, Ask, ListAccountAtsPage
    <2>2. Readable(page) /\ GoesDown(page) /\ Covers(page, OwnedRows)
        BY QueriesArePages
    <2> HIDE DEF page
    <2> QED
        BY <1>1, <1>2, <1>3, <2>1, <2>2, ReceiveStep
<1>7. CASE AskStoredFeed
    <2> DEFINE page == Trim(NewestFirst(Before(FeedKeys)), Count)
    <2>1. walk = <<"feed", "indexed">> /\ more /\ Receive(page) /\ lost' = lost
        BY <1>7 DEF AskStoredFeed, Ask, ListAtsFeedPage
    <2>2. Readable(page) /\ GoesDown(page) /\ Covers(page, FeedKeys)
        BY QueriesArePages
    <2> HIDE DEF page
    <2> QED
        BY <1>1, <1>2, <1>3, <2>1, <2>2, ReceiveStep
<1> QED
    BY <1>4, <1>5, <1>6, <1>7

------------------------------------------------------------------------------
(***************************************************************************)
(* The list of records of RpcProvider.                                     *)
(***************************************************************************)

\* A page of the rows after the first `from` ones.
LEMMA RowsAfter ==
    ASSUME NEW s \in Seq(Nat), NEW from \in Nat, NEW p,
           p = Trim(Take(Drop(s, from), Count + 1), Count)
    PROVE  /\ Readable(p)
           /\ \A i \in 1 .. Len(p.items) : from + i <= Len(s) /\ p.items[i] = s[from + i]
           /\ \A j \in 1 .. Len(s) : j > from =>
                \/ j - from \in 1 .. Len(p.items)
                \/ p.more /\ from + Len(p.items) < j
<1> DEFINE L == Len(s)
           d == Drop(s, from)
           n == AtMost(Count + 1, Len(d))
           t == Take(d, Count + 1)
           m == AtMost(Count, Len(t))
           items == SubSeq(t, 1, m)
           q == [items |-> items, more |-> Len(t) > Count]
<1>1. L \in Nat /\ Count \in Nat /\ Count >= 1
    BY Numbers
<1>2. /\ d \in Seq(Nat) /\ Len(d) = IF from <= L THEN L - from ELSE 0
      /\ \A i \in 1 .. Len(d) : d[i] = s[from + i]
    <2>1. d = SubSeq(s, from + 1, L)
        BY DEF Drop
    <2>2. CASE from + 1 <= L
        BY <1>1, <2>1, <2>2
    <2>3. CASE ~(from + 1 <= L)
        <3>1. d = << >>
            BY <1>1, <2>1, <2>3
        <3>2. Len(d) = 0 /\ d \in Seq(Nat)
            BY <3>1
        <3>3. 0 = IF from <= L THEN L - from ELSE 0
            BY <1>1, <2>3
        <3> QED
            BY <3>2, <3>3
    <2> QED
        BY <2>2, <2>3
<1> HIDE DEF d
<1>3. /\ n \in 0 .. Len(d) /\ n <= Count + 1 /\ (Len(d) > Count => n = Count + 1)
      /\ (~(Len(d) > Count) => n = Len(d)) /\ Len(d) \in Nat
    BY <1>1, <1>2, SMTT(30) DEF AtMost
<1>4. t = SubSeq(d, 1, n)
    BY DEF Take
<1> HIDE DEF n, t
<1>5. t \in Seq(Nat) /\ Len(t) = n /\ \A i \in 1 .. n : t[i] = d[i]
    <2>1. d \in Seq(Nat) /\ n \in 0 .. Len(d)
        BY <1>2, <1>3
    <2> QED
        BY <1>4, <2>1
<1>6. /\ m \in 0 .. n /\ m <= Count /\ (n > Count => m = Count) /\ (~(n > Count) => m = n)
    <2>1. m = IF Count < n THEN Count ELSE n
        <3>1. Len(t) = n
            BY <1>5
        <3> QED
            BY <3>1 DEF AtMost
    <2>2. n \in Nat
        BY <1>3
    <2> QED
        BY <1>1, <2>1, <2>2
<1>p. p = Trim(t, Count)
    BY DEF t, d
<1>7. p = q
    BY <1>p DEF Trim
<1> HIDE DEF m
<1>8. Len(items) = m /\ \A i \in 1 .. m : items[i] = t[i]
    BY <1>5, <1>6
<1>q. q.items = items /\ (q.more <=> Len(t) > Count)
    OBVIOUS
<1> HIDE DEF items, q
<1>9. p.items = items /\ (p.more <=> Len(t) > Count)
    BY <1>7, <1>q
<1>10. Readable(p)
    BY <1>5, <1>p, TrimReads
<1>11. \A i \in 1 .. m : i \in 1 .. n /\ i \in 1 .. Len(d) /\ from + i <= L
    BY <1>1, <1>2, <1>3, <1>6, SMTT(30)
<1>12. \A i \in 1 .. Len(p.items) : from + i <= L /\ p.items[i] = s[from + i]
    BY <1>2, <1>5, <1>8, <1>9, <1>11
<1>13. ASSUME NEW j \in 1 .. L, j > from
       PROVE  \/ j - from \in 1 .. Len(p.items)
              \/ p.more /\ from + Len(p.items) < j
    <2>1. Len(d) = L - from /\ j - from \in 1 .. Len(d)
        BY <1>1, <1>2, <1>13
    <2>2. CASE Len(d) > Count
        BY <1>1, <1>3, <1>5, <1>6, <1>8, <1>9, <1>13, <2>1, <2>2, SMTT(30)
    <2>3. CASE ~(Len(d) > Count)
        BY <1>1, <1>3, <1>5, <1>6, <1>8, <1>9, <1>13, <2>1, <2>3
    <2> QED
        BY <2>2, <2>3
<1> QED
    BY <1>10, <1>12, <1>13

\* The positions passed over hold the ids at or above the cursor, and no other when nothing
\* was revoked.
LEMMA PositionPages ==
    ASSUME ChainInv, WalkInv, NEW p, p = RpcList(AtTip, {})
    PROVE  /\ Readable(p) /\ GoesDown(p)
           /\ DOMAIN AtTip.live = 0 .. AtTip.next - 1 => Covers(p, DOMAIN AtTip.live)
<1> DEFINE K == DOMAIN AtTip.live
           n == AtTip.next
           s == NewestFirst(K)
           from == FromIndex(AtTip)
<1>1. n \in Nat /\ K \in SUBSET Nat /\ K \subseteq 0 .. n - 1 /\ IsFiniteSet(K)
    BY LivePallet, IdsAreFinite DEF IsPallet
<1>2. p = Trim(Take(Drop(s, from), Count + 1), Count)
    BY DEF RpcList, BuildList
<1>3. /\ from \in Nat /\ (cursor = None => from = 0)
      /\ cursor # None => /\ cursor \in Nat /\ from >= n - cursor
                          /\ (from = n - cursor \/ from = 0)
    BY <1>1 DEF FromIndex, Below, AtLeast, WalkInv, None
<1> HIDE DEF K, n, from
<1>4. s \in Seq(K) /\ Len(s) = Cardinality(K) /\ Descends(s) /\ Range(s) = K
    BY <1>1, RankOrder DEF NewestFirst
<1> HIDE DEF s
<1>5. /\ s \in Seq(Nat) /\ Len(s) \in Nat /\ \A i \in 1 .. Len(s) : s[i] \in Nat /\ s[i] < n
    <2>1. s \in Seq(K) /\ \A k \in K : k \in Nat /\ k < n
        BY <1>1, <1>4
    <2> QED
        BY <2>1
<1>6. /\ \A i \in 1 .. Len(s) : s[i] + i <= n
      /\ \A i \in 1 .. Len(s) : s[i] + i >= Len(s)
    BY <1>1, <1>4, <1>5, PositionBounds
<1>7. /\ Readable(p)
      /\ \A i \in 1 .. Len(p.items) : from + i <= Len(s) /\ p.items[i] = s[from + i]
      /\ \A j \in 1 .. Len(s) : j > from =>
           \/ j - from \in 1 .. Len(p.items)
           \/ p.more /\ from + Len(p.items) < j
    BY <1>2, <1>3, <1>5, RowsAfter
<1>8. p.items \in Seq(Nat) /\ Len(p.items) \in Nat /\ (p.more => Len(p.items) >= 1)
    BY <1>7 DEF Readable
<1>9. \A i \in 1 .. Len(p.items) : from + i \in 1 .. Len(s)
    BY <1>3, <1>5, <1>7, <1>8
<1>10. GoesDown(p)
    <2>1. Descends(p.items)
        <3> SUFFICES ASSUME NEW i \in 1 .. Len(p.items), NEW j \in 1 .. Len(p.items), i < j
                     PROVE  p.items[i] > p.items[j]
            BY DEF Descends
        <3>1. from + i \in 1 .. Len(s) /\ from + j \in 1 .. Len(s) /\ from + i < from + j
            BY <1>3, <1>8, <1>9
        <3>2. s[from + i] > s[from + j]
            BY <1>4, <3>1 DEF Descends
        <3> QED
            BY <1>7, <3>2
    <2>2. ASSUME NEW i \in 1 .. Len(p.items), cursor # None
          PROVE  p.items[i] < cursor
        <3>1. from + i \in 1 .. Len(s) /\ p.items[i] = s[from + i] /\ s[from + i] \in Nat
            BY <1>5, <1>7, <1>9
        <3>2. s[from + i] + (from + i) <= n
            BY <1>6, <3>1
        <3> QED
            BY <1>1, <1>3, <1>8, <2>2, <3>1, <3>2, SMTT(30)
    <2> QED
        BY <2>1, <2>2 DEF GoesDown, BelowCursor
<1>11. ASSUME K = 0 .. n - 1
       PROVE  Covers(p, K)
    <2>1. Len(s) = n
        <3>1. 0 \in Int /\ n - 1 \in Int
            BY <1>1
        <3>2. Cardinality(0 .. n - 1) = IF 0 > n - 1 THEN 0 ELSE n - 1 - 0 + 1
            BY <3>1, FS_Interval
        <3> QED
            BY <1>1, <1>4, <1>11, <3>2
    <2> SUFFICES ASSUME NEW k \in K, BelowCursor(k), k \notin Range(p.items)
                 PROVE  p.more /\ k < p.items[Len(p.items)]
        BY DEF Covers
    <2> DEFINE j == n - k
    <2>2. k \in Nat /\ j \in 1 .. Len(s) /\ k = n - j
        BY <1>1, <1>11, <2>1
    <2>3. j > from
        BY <1>1, <1>3, <2>2 DEF BelowCursor
    <2> HIDE DEF j
    <2>4. s[j] = k
        <3>1. s[j] + j <= n /\ s[j] + j >= n /\ s[j] \in Nat
            BY <1>5, <1>6, <2>1, <2>2
        <3> QED
            BY <1>1, <2>2, <3>1
    <2>5. j - from \notin 1 .. Len(p.items)
        <3> SUFFICES ASSUME j - from \in 1 .. Len(p.items)
                     PROVE  FALSE
            OBVIOUS
        <3>1. from + (j - from) = j
            BY <1>3, <2>2, <1>5
        <3>2. p.items[j - from] = k
            BY <1>7, <2>4, <3>1
        <3>3. DOMAIN p.items = 1 .. Len(p.items)
            BY <1>8
        <3> QED
            BY <3>2, <3>3 DEF Range
    <2>6. p.more /\ from + Len(p.items) < j
        BY <1>7, <2>2, <2>3, <2>5
    <2>7. Len(p.items) \in 1 .. Len(p.items) /\ from + Len(p.items) \in 1 .. Len(s)
        BY <1>8, <1>9, <2>6
    <2>8. s[from + Len(p.items)] > s[j] /\ s[from + Len(p.items)] = p.items[Len(p.items)]
        BY <1>4, <1>7, <2>2, <2>6, <2>7 DEF Descends
    <2> QED
        BY <1>5, <2>2, <2>4, <2>6, <2>7, <2>8
<1> QED
    BY <1>7, <1>10, <1>11 DEF K, n

\* A page by position keeps the invariant of a walk.
LEMMA ListStep ==
    ASSUME ChainInv, TablesInv, WalkInv, AskRpcList
    PROVE  WalkInv'
<1>1. /\ walk = <<"records", "rpc">> /\ more
      /\ \E gone \in {{}} \cup {{n} : n \in 1 .. Tip} :
           lost' = lost \cup gone /\ Receive(RpcList(AtTip, gone))
    BY DEF AskRpcList, AskRpc, Ask
<1>2. PICK gone \in {{}} \cup {{n} : n \in 1 .. Tip} :
         lost' = lost \cup gone /\ Receive(RpcList(AtTip, gone))
    BY <1>1
<1> DEFINE p == RpcList(AtTip, {})
<1>3. Receive(p)
    BY <1>2 DEF RpcList
<1>4. /\ Readable(p) /\ GoesDown(p)
      /\ DOMAIN AtTip.live = 0 .. AtTip.next - 1 => Covers(p, DOMAIN AtTip.live)
    BY PositionPages
<1> HIDE DEF p
<1>5. /\ walk[1] = "records" /\ walk[2] = "rpc" /\ walk # NoWalk
    <2>1. Len(<<"records", "rpc">>) = 2 /\ Len(<< >>) = 0
        OBVIOUS
    <2> QED
        BY <1>1, <2>1 DEF NoWalk
<1>6. Complete' => DOMAIN AtTip.live = 0 .. AtTip.next - 1
    <2>1. walk' = <<"records", "rpc">> /\ pallets' = pallets /\ Tip' = Tip
        BY <1>1, <1>3 DEF Receive, node, Tip
    <2>2. <<"records", "rpc">>[1] = "records" /\ <<"feed", "rpc">>[1] = "feed"
        OBVIOUS
    <2>3. Complete' => \A n \in 0 .. Tip : DOMAIN pallets[n].live = 0 .. pallets[n].next - 1
        BY <2>1, <2>2 DEF Complete
    <2> QED
        BY <2>3, LivePallet DEF AtTip
<1>7. lost \subseteq lost' /\ lost' \subseteq 1 .. Tip
    <2>1. lost \subseteq 1 .. Tip
        BY DEF WalkInv
    <2> QED
        BY <1>2, <2>1
<1> QED
    BY <1>1, <1>3, <1>4, <1>5, <1>6, <1>7, ServedSets, ReceiveStep

------------------------------------------------------------------------------
(***************************************************************************)
(* The feed of RpcProvider: sorted by timestamp, paged by key.             *)
(***************************************************************************)

ItemOf(p, v, gone) == FeedItem(BuildRecord(p, v[1], gone), v[2])
KeyAt(p, v) == FeedKey(p.live[v[1]].versions[v[2]].block, v[1], v[2] - 1)

\* A version of a block that was not found has timestamp 0, any other that of its block.
LEMMA TimeGiven ==
    ASSUME NEW b, NEW id, NEW version, NEW owner, NEW gone
    PROVE  VersionExtras(b, id, version, owner, gone).time = IF b \in gone THEN 0 ELSE b
<1> DEFINE of == {op \in Range(blocks[b]) : Matches(op, id, version)}
           op == CHOOSE o \in of : TRUE
<1>1. VersionExtras(b, id, version, owner, gone)
        = IF b \in gone THEN [time |-> 0, ext |-> 0, signer |-> owner]
          ELSE [time |-> b, ext |-> op.ext, signer |-> op.signer]
    BY DEF VersionExtras
<1> HIDE DEF op
<1> QED
    BY <1>1

\* The keys and the sorting keys of the feed.
LEMMA ItemKeys ==
    ASSUME NEW p, IsPallet(p), NEW v \in LiveVersions(p), NEW gone
    PROVE  /\ KeyOf(ItemOf(p, v, gone)) = KeyAt(p, v) /\ KeyAt(p, v) \in Nat
           /\ FeedOrder(ItemOf(p, v, gone)) \in Nat
           /\ gone = {} => FeedOrder(ItemOf(p, v, gone)) = KeyAt(p, v)
<1> DEFINE i == v[1]
           k == v[2]
           entry == p.live[i]
           extras(j) == VersionExtras(entry.versions[j].block, i, j - 1, entry.owner, gone)
           version(j) == [index |-> j - 1, block |-> entry.versions[j].block,
                          time |-> extras(j).time, ext |-> extras(j).ext,
                          signer |-> extras(j).signer]
           record == BuildRecord(p, i, gone)
           b == entry.versions[k].block
           item == ItemOf(p, v, gone)
<1>1. /\ i \in Nat /\ k - 1 \in Nat /\ b \in Nat
      /\ DOMAIN entry.versions = 1 .. Len(entry.versions) /\ k \in DOMAIN entry.versions
    BY VersionNumbers
<1>2. record = [id |-> i, owner |-> entry.owner, created |-> entry.versions[1].block,
                count |-> Len(entry.versions),
                versions |-> [j \in DOMAIN entry.versions |-> version(j)]]
    BY DEF BuildRecord
<1>3. extras(k).time = IF b \in gone THEN 0 ELSE b
    BY TimeGiven
<1>4. item = FeedItem(record, k)
    BY DEF ItemOf
<1> HIDE DEF extras
<1>5. /\ version(k).index = k - 1 /\ version(k).block = b
      /\ version(k).time = IF b \in gone THEN 0 ELSE b
    BY <1>3
<1> HIDE DEF version, record, b, item
<1>6. record.id = i /\ record.versions[k] = version(k)
    BY <1>1, <1>2
<1> DEFINE w == record.versions[k]
           latest == w.index + 1 = record.count
<1>7. item = [id |-> record.id, index |-> w.index, block |-> w.block, time |-> w.time,
              owner |-> record.owner, signer |-> w.signer, ext |-> w.ext, latest |-> latest]
    BY <1>4 DEF FeedItem
<1> HIDE DEF w, latest
<1>8. item.id = record.id /\ item.index = w.index /\ item.block = w.block /\ item.time = w.time
    BY <1>7
<1>9. /\ item.id = i /\ item.index = k - 1 /\ item.block = b
      /\ item.time = IF b \in gone THEN 0 ELSE b
    BY <1>5, <1>6, <1>8 DEF w
<1>10. KeyOf(item) = FeedKey(b, i, k - 1) /\ FeedOrder(item) = FeedKey(item.time, i, k - 1)
    BY <1>9 DEF KeyOf, FeedOrder
<1>11. FeedKey(b, i, k - 1) \in Nat /\ FeedKey(item.time, i, k - 1) \in Nat
    <2>1. item.time \in Nat
        BY <1>1, <1>9
    <2> HIDE DEF i, k
    <2> QED
        BY <1>1, <2>1, KeysAreNumbers
<1>12. KeyAt(p, v) = FeedKey(b, i, k - 1)
    BY DEF KeyAt, b
<1>13. gone = {} => item.time = b
    BY <1>9
<1> QED
    BY <1>10, <1>11, <1>12, <1>13 DEF item

\* Every version is looked at when they are no more than the buffer takes.
LEMMA AllScanned ==
    ASSUME NEW p, IsPallet(p), IsFiniteSet(LiveVersions(p)), NEW count \in Nat,
           Cardinality(LiveVersions(p)) <= count
    PROVE  Scanned(p, count) = LiveVersions(p)
<1> DEFINE rows == LiveVersions(p)
           earlier(v) == {w \in rows : w[1] > v[1] \/ (w[1] = v[1] /\ w[2] > v[2])}
<1>1. ASSUME NEW v \in rows
      PROVE  Cardinality(earlier(v)) < count
    <2>1. v[1] \in Nat /\ v[2] \in Nat
        BY VersionNumbers
    <2>2. earlier(v) \in SUBSET (rows \ {v})
        BY <2>1
    <2>3. /\ IsFiniteSet(rows \ {v}) /\ Cardinality(rows \ {v}) = Cardinality(rows) - 1
        BY FS_RemoveElement
    <2> HIDE DEF rows, earlier
    <2>4. IsFiniteSet(earlier(v)) /\ Cardinality(earlier(v)) <= Cardinality(rows \ {v})
        BY <2>2, <2>3, FS_Subset
    <2>5. Cardinality(earlier(v)) \in Nat /\ Cardinality(rows) \in Nat
        BY <2>4, FS_CardinalityType DEF rows
    <2>6. Cardinality(rows) <= count
        BY DEF rows
    <2> QED
        BY <2>3, <2>4, <2>5, <2>6
<1>2. Scanned(p, count) = {v \in rows : Cardinality(earlier(v)) < count}
    BY DEF Scanned
<1> QED
    BY <1>1, <1>2


\* A version of the feed that could be loaded is placed by its key.
LEMMA FeedPages ==
    ASSUME ChainInv, WalkInv, NEW gone, NEW p, p = RpcFeed(AtTip, gone)
    PROVE  /\ Readable(p)
           /\ gone = {} => GoesDown(p)
           /\ gone = {} /\ Cardinality(LiveVersions(AtTip)) <= FeedBuffer =>
                Covers(p, LiveKeys(AtTip))
<1> DEFINE P == AtTip
           V == LiveVersions(P)
           S == Scanned(P, FeedBuffer)
           B == BuildFeed(P, FeedBuffer, gone)
           items == {item \in B : cursor = None \/ KeyOf(item) < cursor}
           O == {FeedOrder(item) : item \in items}
           Q == {KeyAt(P, v) : v \in S}
           order == NewestFirst(O)
           pick(i) == CHOOSE item \in items : FeedOrder(item) = order[i]
           rows == [i \in DOMAIN order |-> KeyOf(pick(i))]
<1>1. IsPallet(P) /\ IsFiniteSet(V) /\ FeedBuffer \in Nat
    BY LivePallet, VersionsAreFinite, Numbers DEF AtTip
<1>2. S \in SUBSET V /\ IsFiniteSet(S)
    <2>1. S \in SUBSET V
        BY DEF Scanned
    <2> HIDE DEF S, V
    <2> QED
        BY <1>1, <2>1, FS_Subset
<1>3. B = {ItemOf(P, v, gone) : v \in S}
    BY DEF BuildFeed, ItemOf
<1>4. p = Trim(rows, Count)
    <2>1. SortedByTime(items) = [i \in DOMAIN order |-> pick(i)]
        BY DEF SortedByTime
    <2>2. KeysOf(SortedByTime(items)) = rows
        BY <2>1 DEF KeysOf
    <2> QED
        BY <2>2 DEF RpcFeed
<1>5. \A v \in S : /\ KeyOf(ItemOf(P, v, gone)) = KeyAt(P, v) /\ KeyAt(P, v) \in Nat
                   /\ FeedOrder(ItemOf(P, v, gone)) \in Nat
                   /\ gone = {} => FeedOrder(ItemOf(P, v, gone)) = KeyAt(P, v)
    BY <1>1, <1>2, ItemKeys
<1> HIDE DEF S, V, B, P
<1>6. IsFiniteSet(items)
    <2> DEFINE f == [v \in S |-> ItemOf(P, v, gone)]
    <2>1. f \in Surjection(S, B)
        BY <1>3 DEF Surjection
    <2>2. IsFiniteSet(B)
        BY <1>2, <2>1, FS_Surjection
    <2>3. items \in SUBSET B
        OBVIOUS
    <2> QED
        BY <2>2, <2>3, FS_Subset
<1>7. \A item \in items : \E v \in S : item = ItemOf(P, v, gone)
    BY <1>3
<1>8. \A item \in items : /\ KeyOf(item) \in Nat /\ FeedOrder(item) \in Nat
                          /\ gone = {} => FeedOrder(item) = KeyOf(item)
    <2> SUFFICES ASSUME NEW item \in items
                 PROVE  /\ KeyOf(item) \in Nat /\ FeedOrder(item) \in Nat
                        /\ gone = {} => FeedOrder(item) = KeyOf(item)
        OBVIOUS
    <2>1. PICK v \in S : item = ItemOf(P, v, gone)
        BY <1>7
    <2> HIDE DEF items
    <2> QED
        BY <1>5, <2>1
<1>9. \A k \in Q : k \in Nat
    BY <1>5
<1>10. \A k : (\E item \in items : k = KeyOf(item)) <=> k \in Before(Q)
    <2>1. \A k : k \in Before(Q) <=> k \in Q /\ (cursor = None \/ k < cursor)
        <3> HIDE DEF Q
        <3> QED
            BY DEF Before
    <2>2. ASSUME NEW item \in items
          PROVE  KeyOf(item) \in Before(Q)
        <3>1. cursor = None \/ KeyOf(item) < cursor
            OBVIOUS
        <3>2. PICK v \in S : item = ItemOf(P, v, gone)
            BY <1>7
        <3>3. KeyOf(item) = KeyAt(P, v)
            BY <1>5, <3>2
        <3>4. KeyOf(item) \in Q
            BY <3>3
        <3> QED
            BY <2>1, <3>1, <3>4
    <2>3. ASSUME NEW k \in Before(Q)
          PROVE  \E item \in items : k = KeyOf(item)
        <3>1. PICK v \in S : k = KeyAt(P, v)
            BY <2>1
        <3>2. KeyOf(ItemOf(P, v, gone)) = k /\ ItemOf(P, v, gone) \in B
            BY <1>3, <1>5, <3>1
        <3>3. ItemOf(P, v, gone) \in items
            BY <2>1, <3>2
        <3> QED
            BY <3>2, <3>3
    <2> QED
        BY <2>2, <2>3
<1>11. IsFiniteSet(O)
    <2> DEFINE f == [item \in items |-> FeedOrder(item)]
    <2> HIDE DEF items
    <2>1. f \in Surjection(items, O)
        BY DEF Surjection
    <2> QED
        BY <1>6, <2>1, FS_Surjection
<1>12. O \in SUBSET Nat /\ \A k \in O : \E item \in items : FeedOrder(item) = k
    BY <1>8
<1> HIDE DEF items
<1>13. \A k : k \in O <=> \E item \in items : k = FeedOrder(item)
    OBVIOUS
<1> HIDE DEF O, Q
<1>14. order \in Seq(O) /\ Len(order) = Cardinality(O) /\ Descends(order) /\ Range(order) = O
    BY <1>11, <1>12, RankOrder DEF NewestFirst
<1> HIDE DEF order
<1>15. Len(order) \in Nat /\ DOMAIN order = 1 .. Len(order)
    BY <1>14
<1>16. \A i \in 1 .. Len(order) : order[i] \in O
    BY <1>14
<1>17. \A i \in 1 .. Len(order) : pick(i) \in items /\ FeedOrder(pick(i)) = order[i]
    <2> SUFFICES ASSUME NEW i \in 1 .. Len(order)
                 PROVE  pick(i) \in items /\ FeedOrder(pick(i)) = order[i]
        OBVIOUS
    <2>1. \E item \in items : FeedOrder(item) = order[i]
        BY <1>12, <1>16
    <2> QED
        BY <2>1
<1> HIDE DEF pick
<1>18. \A i \in 1 .. Len(order) : KeyOf(pick(i)) \in Nat
    BY <1>8, <1>17
<1>19. rows \in Seq(Nat)
    <2>1. rows \in [1 .. Len(order) -> Nat]
        BY <1>15, <1>18
    <2> HIDE DEF rows
    <2> QED
        BY <1>15, <2>1 DEF Seq
<1>20. Readable(p)
    BY <1>4, <1>19, TrimReads
<1>21. ASSUME gone = {}
       PROVE  /\ GoesDown(p)
              /\ Cardinality(LiveVersions(AtTip)) <= FeedBuffer => Covers(p, LiveKeys(AtTip))
    <2>1. O = Before(Q)
        BY <1>8, <1>10, <1>13, <1>21
    <2>2. rows = order
        <3>1. \A i \in 1 .. Len(order) : KeyOf(pick(i)) = order[i]
            BY <1>8, <1>17, <1>21
        <3>2. rows = [i \in 1 .. Len(order) |-> order[i]]
            BY <1>15, <3>1
        <3>3. order = [i \in 1 .. Len(order) |-> order[i]]
            BY <1>14
        <3> QED
            BY <3>2, <3>3
    <2>3. p = Trim(NewestFirst(Before(Q)), Count)
        BY <1>4, <2>1, <2>2 DEF order
    <2>4. Q \in SUBSET Nat /\ IsFiniteSet(Q)
        <3> DEFINE f == [v \in S |-> KeyAt(P, v)]
        <3>1. f \in Surjection(S, Q)
            BY DEF Surjection, Q
        <3>2. IsFiniteSet(Q)
            BY <1>2, <3>1, FS_Surjection
        <3> QED
            BY <1>9, <3>2
    <2>5. GoesDown(p) /\ Covers(p, Q)
        BY <2>3, <2>4, QueryPage
    <2>6. ASSUME Cardinality(LiveVersions(AtTip)) <= FeedBuffer
          PROVE  Q = LiveKeys(AtTip)
        <3>1. Scanned(AtTip, FeedBuffer) = LiveVersions(AtTip)
            BY <1>1, <2>6, AllScanned DEF P, V
        <3> QED
            BY <3>1 DEF Q, S, P, LiveKeys, KeyAt
    <2> QED
        BY <2>5, <2>6
<1> QED
    BY <1>20, <1>21

\* A page of the sorted feed keeps the invariant of a walk.
LEMMA FeedStep ==
    ASSUME ChainInv, TablesInv, WalkInv, AskRpcFeed
    PROVE  WalkInv'
<1>1. /\ walk = <<"feed", "rpc">> /\ more
      /\ \E gone \in {{}} \cup {{n} : n \in 1 .. Tip} :
           lost' = lost \cup gone /\ Receive(RpcFeed(AtTip, gone))
    BY DEF AskRpcFeed, AskRpc, Ask
<1>2. PICK gone \in {{}} \cup {{n} : n \in 1 .. Tip} :
         lost' = lost \cup gone /\ Receive(RpcFeed(AtTip, gone))
    BY <1>1
<1> DEFINE p == RpcFeed(AtTip, gone)
<1>3. Receive(p)
    BY <1>2
<1>4. /\ Readable(p)
      /\ gone = {} => GoesDown(p)
      /\ gone = {} /\ Cardinality(LiveVersions(AtTip)) <= FeedBuffer =>
           Covers(p, LiveKeys(AtTip))
    BY FeedPages
<1> HIDE DEF p
<1>5. /\ walk[1] = "feed" /\ walk[2] = "rpc" /\ walk # NoWalk
    <2>1. Len(<<"feed", "rpc">>) = 2 /\ Len(<< >>) = 0
        OBVIOUS
    <2> QED
        BY <1>1, <2>1 DEF NoWalk
<1>6. walk' = <<"feed", "rpc">> /\ pallets' = pallets /\ Tip' = Tip
    BY <1>1, <1>3 DEF Receive, node, Tip
<1>7. Ordered' => gone = {}
    BY <1>2, <1>6 DEF Ordered
<1>8. Complete' => gone = {} /\ Cardinality(LiveVersions(AtTip)) <= FeedBuffer
    <2> SUFFICES ASSUME Complete'
                 PROVE  gone = {} /\ Cardinality(LiveVersions(AtTip)) <= FeedBuffer
        OBVIOUS
    <2>1. <<"records", "rpc">>[1] = "records" /\ <<"feed", "rpc">>[1] = "feed"
        OBVIOUS
    <2>2. /\ \A n \in 0 .. Tip : Cardinality(LiveVersions(pallets[n]))' <= FeedBuffer
          /\ lost' = {}
        BY <1>6, <2>1 DEF Complete, LiveVersions
    <2>3. \A n \in 0 .. Tip : Cardinality(LiveVersions(pallets[n])) <= FeedBuffer
        BY <1>6, <2>2 DEF LiveVersions
    <2> QED
        BY <1>2, <2>2, <2>3, LivePallet DEF AtTip
<1>9. lost \subseteq lost' /\ lost' \subseteq 1 .. Tip
    <2>1. lost \subseteq 1 .. Tip
        BY DEF WalkInv
    <2> QED
        BY <1>2, <2>1
<1> QED
    BY <1>1, <1>3, <1>4, <1>5, <1>7, <1>8, <1>9, ServedSets, ReceiveStep

------------------------------------------------------------------------------
(***************************************************************************)
(* The theorems.                                                           *)
(***************************************************************************)

Inv == ChainInv /\ TablesInv /\ WalkInv

\* Every step keeps the invariant.
LEMMA EveryStep == Inv /\ [Next]_vars => Inv'
<1> SUFFICES ASSUME Inv, [Next]_vars
             PROVE  Inv'
    OBVIOUS
<1>0. ChainInv /\ TablesInv /\ WalkInv
    BY DEF Inv
<1>1. Tip \in Nat /\ stored \in 0 .. Tip
    BY <1>0, LivePallet DEF TablesInv
<1>2. CASE Finalize
    <2>1. /\ ChainInv' /\ TablesInv' /\ Tip' > Tip
          /\ \A n \in 0 .. Tip : pallets'[n] = pallets[n]
        BY <1>0, <1>2, FinalizeChain
    <2>2. UNCHANGED client
        BY <1>2 DEF Finalize
    <2>3. Tip' \in Nat
        BY <2>1 DEF ChainInv, Tip
    <2>4. WalkInv'
        BY <1>0, <1>1, <2>1, <2>2, <2>3, WalkStays
    <2> QED
        BY <2>1, <2>4 DEF Inv
<1>3. CASE StoreBlock
    <2>1. ChainInv' /\ TablesInv'
        BY <1>0, <1>3, StoreBlockTables
    <2>2. UNCHANGED client /\ UNCHANGED node
        BY <1>3 DEF StoreBlock
    <2>3. Tip' = Tip /\ pallets' = pallets
        BY <2>2 DEF node, Tip
    <2>4. WalkInv'
        BY <1>0, <1>1, <2>2, <2>3, WalkStays
    <2> QED
        BY <2>1, <2>4 DEF Inv
<1>4. ASSUME UNCHANGED <<node, tables>>
      PROVE  ChainInv' /\ TablesInv'
    BY <1>0, <1>4, ClientStepTables
<1>5. CASE StartWalk
    <2>1. UNCHANGED <<node, tables>>
        BY <1>5 DEF StartWalk
    <2>2. WalkInv'
        BY <1>0, <1>5, WalkStarts
    <2> QED
        BY <1>4, <2>1, <2>2 DEF Inv
<1>6. CASE Leave
    <2>1. UNCHANGED <<node, tables>>
        BY <1>6 DEF Leave
    <2>2. WalkInv'
        BY <1>0, <1>6, WalkLeaves
    <2> QED
        BY <1>4, <2>1, <2>2 DEF Inv
<1>7. CASE AskRpcList
    <2>1. UNCHANGED <<node, tables>>
        BY <1>7 DEF AskRpcList, AskRpc, Receive
    <2>2. WalkInv'
        BY <1>0, <1>7, ListStep
    <2> QED
        BY <1>4, <2>1, <2>2 DEF Inv
<1>8. CASE AskRpcFeed
    <2>1. UNCHANGED <<node, tables>>
        BY <1>8 DEF AskRpcFeed, AskRpc, Receive
    <2>2. WalkInv'
        BY <1>0, <1>8, FeedStep
    <2> QED
        BY <1>4, <2>1, <2>2 DEF Inv
<1>9. CASE AskRpcOwned \/ AskStoredList \/ AskStoredOwned \/ AskStoredFeed
    <2>1. UNCHANGED <<node, tables>>
        BY <1>9 DEF AskRpcOwned, AskStoredList, AskStoredOwned, AskStoredFeed, AskRpc, Receive
    <2>2. WalkInv'
        BY <1>0, <1>9, QueryStep
    <2> QED
        BY <1>4, <2>1, <2>2 DEF Inv
<1>10. CASE UNCHANGED vars
    <2>1. UNCHANGED <<node, tables>> /\ UNCHANGED client
        BY <1>10 DEF vars
    <2>2. Tip' = Tip /\ pallets' = pallets
        BY <2>1 DEF node, Tip
    <2>3. WalkInv'
        BY <1>0, <1>1, <2>1, <2>2, WalkStays
    <2> QED
        BY <1>4, <2>1, <2>3 DEF Inv
<1> QED
    BY <1>2, <1>3, <1>5, <1>6, <1>7, <1>8, <1>9, <1>10 DEF Next

\* Whatever the pallet does and however a client walks: the chain traces every version to
\* the extrinsic that made it, the tables are those of the height the indexer has reached,
\* and a walk resumes below the last row it has shown.
THEOREM Invariance == Spec => []Inv
<1>1. Init => Inv
    BY ChainStart, NoWalkYet DEF Inv
<1>2. Inv /\ [Next]_vars => Inv'
    BY EveryStep
<1> QED
    BY <1>1, <1>2, PTL DEF Spec

\* The tables only hold versions of records they hold, made in blocks the indexer has
\* stored, and as many versions of a record as the pallet counted.
THEOREM TypeCorrect == Spec => []TypeOK
<1>1. Inv => TypeOK
    BY TablesTyped DEF Inv, WalkInv, TypeOK
<1> QED
    BY <1>1, Invariance, PTL

\* Applying a block's Ats events grouped by kind, as apply_ats does, gives the registry
\* of the pallet: a record or a feed item read from Postgres is the one RpcProvider
\* rebuilds from storage and blocks at the same height.
THEOREM TablesHoldTheRegistry == Spec => []RecordsAgree
<1>1. Inv => RecordsAgree
    BY RecordsAreEqual DEF Inv
<1> QED
    BY <1>1, Invariance, PTL

\* The five figures of the registry are the same from either provider.
THEOREM FiguresAgree == Spec => []StatsAgree
<1>1. Inv => StatsAgree
    BY StatsAreEqual DEF Inv
<1> QED
    BY <1>1, Invariance, PTL

\* No page of the three lists repeats a row of the pages before it, although records are
\* created, updated and revoked between them and RpcProvider resumes by position.
THEOREM WalksDescend == Spec => []RowsDescend
<1>1. Inv => RowsDescend
    <2> SUFFICES ASSUME Inv, Ordered, NEW i \in 1 .. Len(got) - 1
                 PROVE  got[i] > got[i + 1]
        BY DEF RowsDescend
    <2>1. got \in Seq(Nat) /\ Descends(got)
        BY DEF Inv, WalkInv
    <2>2. Len(got) \in Nat /\ i \in 1 .. Len(got) /\ i + 1 \in 1 .. Len(got) /\ i < i + 1
        BY <2>1
    <2> QED
        BY <2>1, <2>2 DEF Descends
<1> QED
    BY <1>1, Invariance, PTL

\* A walk that has reached the end has shown every row that could be read at each of its
\* requests: from_index of build_ats_list skips no record, the sort of build_ats_feed none
\* of the versions it buffered, and the LIMIT of a query none of its rows.
THEOREM WalksShowEverything == Spec => []WalksAreComplete
<1>1. Inv => WalksAreComplete
    BY DEF Inv, WalkInv, NothingMissed, WalksAreComplete
<1> QED
    BY <1>1, Invariance, PTL

===============================================================================
