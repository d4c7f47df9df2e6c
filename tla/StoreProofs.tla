----------------------------- MODULE StoreProofs ----------------------------
(***************************************************************************)
(* Both stores implement the interface store.Store (module StoreService),  *)
(* for any proxies, requests, values and times.                            *)
(***************************************************************************)
EXTENDS MCStores, TLAPS

----------------------------------------------------------------------------
(* The rows of the interface.                                              *)

\* A key is the root's, a client's or a payment's.
LEMMA KeyKinds ==
  /\ Service!RootKey \in Service!Keys
  /\ \A p \in Proxies : Service!ClientKey(p) \in Service!Keys
  /\ \A p \in Proxies, r \in Requests : Service!PaymentKey(p, r) \in Service!Keys
  /\ \A k \in Service!Keys : \/ k = Service!RootKey
                             \/ \E p \in Proxies : k = Service!ClientKey(p)
                             \/ \E p \in Proxies, r \in Requests : k = Service!PaymentKey(p, r)
BY DEF Service!Keys

\* Different keys differ.
LEMMA KeysDiffer ==
  /\ \A p : Service!ClientKey(p) # Service!RootKey
  /\ \A p, r : Service!PaymentKey(p, r) # Service!RootKey
  /\ \A p, q, r : Service!ClientKey(p) # Service!PaymentKey(q, r)
  /\ \A p, q : Service!ClientKey(p) = Service!ClientKey(q) => p = q
  /\ \A p, q, r, s : Service!PaymentKey(p, r) = Service!PaymentKey(q, s) => p = q /\ r = s
BY DEF Service!RootKey, Service!ClientKey, Service!PaymentKey

\* A table has one row for every key.
Tabular(f) == f = [k \in Service!Keys |-> f[k]]

\* Two tables with the same rows are the same.
LEMMA SameTable ==
  ASSUME NEW f, NEW g,
         Tabular(f), Tabular(g),
         f[Service!RootKey] = g[Service!RootKey],
         \A p \in Proxies : f[Service!ClientKey(p)] = g[Service!ClientKey(p)],
         \A p \in Proxies, r \in Requests :
           f[Service!PaymentKey(p, r)] = g[Service!PaymentKey(p, r)]
  PROVE  f = g
<1>1. \A k \in Service!Keys : f[k] = g[k]
  BY ZenonT(60), KeyKinds
<1> QED BY ZenonT(60), <1>1 DEF Tabular

----------------------------------------------------------------------------
(* The bbolt store.                                                        *)

\* What the table says of the file.
RowsAre ==
  /\ Table = [k \in Service!Keys |-> Table[k]]
  /\ Table[Service!RootKey] = Stored(bucketRoot, keyRootSnap)
  /\ \A p \in Proxies : Table[Service!ClientKey(p)] = Stored(bucketClients, p)
  /\ \A p \in Proxies, r \in Requests :
       Table[Service!PaymentKey(p, r)] = Stored(paymentBucketName(p), r)

\* The refinement mapping gives these rows.
LEMMA TableRows == RowsAre
<1> DEFINE Row(k) == CASE k[1] = "root" -> Stored(bucketRoot, keyRootSnap)
                       [] k[1] = "client" -> Stored(bucketClients, k[2])
                       [] k[1] = "payment" -> Stored(paymentBucketName(k[2]), k[3])
<1>1. Table = [k \in Service!Keys |-> Row(k)]
  BY DEF Table, Service!Keys, Service!RootKey, Service!ClientKey, Service!PaymentKey
<1>2. \A k : /\ k[1] = "root" => Row(k) = Stored(bucketRoot, keyRootSnap)
             /\ k[1] = "client" => Row(k) = Stored(bucketClients, k[2])
             /\ k[1] = "payment" => Row(k) = Stored(paymentBucketName(k[2]), k[3])
  OBVIOUS
<1> HIDE DEF Row
<1>3. /\ Service!RootKey[1] = "root"
      /\ \A p : Service!ClientKey(p)[1] = "client" /\ Service!ClientKey(p)[2] = p
      /\ \A p, r : /\ Service!PaymentKey(p, r)[1] = "payment"
                   /\ Service!PaymentKey(p, r)[2] = p /\ Service!PaymentKey(p, r)[3] = r
  BY DEF Service!RootKey, Service!ClientKey, Service!PaymentKey
<1>4. \A k \in Service!Keys : Table[k] = Row(k)
  BY ZenonT(60), <1>1
<1>5. Table = [k \in Service!Keys |-> Table[k]]
  BY ZenonT(60), <1>1, <1>4
<1>6. Table[Service!RootKey] = Stored(bucketRoot, keyRootSnap)
  BY ZenonT(60), <1>2, <1>3, <1>4, KeyKinds
<1>7. ASSUME NEW p \in Proxies PROVE Table[Service!ClientKey(p)] = Stored(bucketClients, p)
  <2>1. Table[Service!ClientKey(p)] = Row(Service!ClientKey(p))
    BY ZenonT(60), <1>4, <1>7, KeyKinds
  <2> QED BY ZenonT(60), <1>2, <1>3, <2>1
<1>8. ASSUME NEW p \in Proxies, NEW r \in Requests
      PROVE  Table[Service!PaymentKey(p, r)] = Stored(paymentBucketName(p), r)
  <2>1. Table[Service!PaymentKey(p, r)] = Row(Service!PaymentKey(p, r))
    BY ZenonT(60), <1>4, <1>8, KeyKinds
  <2>2. PICK k : k = Service!PaymentKey(p, r)
    OBVIOUS
  <2>3. k[1] = "payment" /\ k[2] = p /\ k[3] = r
    BY ZenonT(60), <1>3, <2>2
  <2>4. Row(k) = Stored(paymentBucketName(p), r)
    BY ZenonT(60), <1>2, <2>3
  <2> QED BY ZenonT(60), <2>1, <2>2, <2>4
<1> QED BY <1>5, <1>6, <1>7, <1>8 DEF RowsAre

\* The buckets have different names.
LEMMA BucketsDiffer ==
  /\ bucketRoot # bucketClients
  /\ \A p : paymentBucketName(p) # bucketRoot /\ paymentBucketName(p) # bucketClients
                                              /\ paymentBucketName(p) # bucketPayments
  /\ \A p, q : paymentBucketName(p) = paymentBucketName(q) => p = q
  /\ \A p : paymentBucketName(p)[2] = p
BY DEF bucketRoot, bucketClients, bucketPayments, paymentBucketName

\* Key x is in the bucket called n.
In(n, x) == x \in DOMAIN Bucket(file, n)

\* Every signed payment in the file is under a request, and is one.
FileInv ==
  \A p \in Proxies : \A r : In(paymentBucketName(p), r) =>
    r \in Requests /\ Stored(paymentBucketName(p), r) # None

\* Where the row of key k is in the file.
Address(k, name, x) ==
  \/ k = Service!RootKey /\ name = bucketRoot /\ x = keyRootSnap
  \/ \E p \in Proxies : k = Service!ClientKey(p) /\ name = bucketClients /\ x = p
  \/ \E p \in Proxies, r \in Requests :
       k = Service!PaymentKey(p, r) /\ name = paymentBucketName(p) /\ x = r

\* A bucket that is missing is empty.
StoredAsIn ==
  \A n, x : Stored(n, x) = IF In(n, x) THEN decode(Bucket(file, n)[x]) ELSE None

\* A transaction sees an entry, or none.
LEMMA StoredIn == StoredAsIn
<1>1. DOMAIN EmptyBucket = {}
  BY DEF EmptyBucket
<1> QED BY <1>1 DEF StoredAsIn, Stored, In, Bucket

\* A change of one place of the file is a change of one row.
LEMMA RowChange ==
  ASSUME NEW k \in Service!Keys, NEW name, NEW x, NEW v, Address(k, name, x),
         \A n, y : Stored(n, y)' = IF n = name /\ y = x THEN v ELSE Stored(n, y)
  PROVE  Table' = [Table EXCEPT ![k] = v]
<1>1. RowsAre /\ RowsAre'
  BY TableRows, PTL
<1>2. PICK g : g = [Table EXCEPT ![k] = v]
  BY ZenonT(60)
<1>3. PICK f : f = Table'
  OBVIOUS
<1>4. /\ g = [j \in Service!Keys |-> g[j]] /\ g[k] = v
      /\ \A j \in Service!Keys : j # k => g[j] = Table[j]
  BY <1>1, <1>2 DEF RowsAre
<1>5. f = [j \in Service!Keys |-> f[j]]
  BY <1>1, <1>3 DEF RowsAre
<1>6. f[Service!RootKey] = g[Service!RootKey]
  <2>1. f[Service!RootKey] = Stored(bucketRoot, keyRootSnap)'
    BY <1>1, <1>3 DEF RowsAre
  <2>2. CASE k = Service!RootKey
    BY <1>4, <2>1, <2>2, KeysDiffer DEF Address
  <2>3. CASE k # Service!RootKey
    BY <1>1, <1>4, <2>1, <2>3, KeyKinds, BucketsDiffer DEF Address, RowsAre
  <2> QED BY <2>2, <2>3
<1>7. ASSUME NEW p \in Proxies PROVE f[Service!ClientKey(p)] = g[Service!ClientKey(p)]
  <2>1. f[Service!ClientKey(p)] = Stored(bucketClients, p)'
    BY <1>1, <1>3, <1>7 DEF RowsAre
  <2>2. CASE k = Service!ClientKey(p)
    BY <1>4, <2>1, <2>2, KeysDiffer DEF Address
  <2>3. CASE k # Service!ClientKey(p)
    BY ZenonT(60), <1>1, <1>4, <1>7, <2>1, <2>3, KeyKinds, BucketsDiffer DEF Address, RowsAre
  <2> QED BY <2>2, <2>3
<1>8. ASSUME NEW p \in Proxies, NEW r \in Requests
      PROVE  f[Service!PaymentKey(p, r)] = g[Service!PaymentKey(p, r)]
  <2>1. f[Service!PaymentKey(p, r)] = Stored(paymentBucketName(p), r)'
    BY <1>1, <1>3, <1>8 DEF RowsAre
  <2>2. CASE k = Service!PaymentKey(p, r)
    <3>1. name = paymentBucketName(p) /\ x = r
      BY <2>2, KeysDiffer DEF Address
    <3> QED BY <1>4, <2>1, <2>2, <3>1
  <2>3. CASE k # Service!PaymentKey(p, r)
    <3>1. ~(name = paymentBucketName(p) /\ x = r)
      BY <1>8, <2>3, BucketsDiffer DEF Address
    <3>2. g[Service!PaymentKey(p, r)] = Table[Service!PaymentKey(p, r)]
      BY <1>4, <1>8, <2>3, KeyKinds
    <3> QED BY <1>1, <1>8, <2>1, <3>1, <3>2 DEF RowsAre
  <2> QED BY <2>2, <2>3
<1>9. f = g
  <2>1. \A p \in Proxies : f[Service!ClientKey(p)] = g[Service!ClientKey(p)]
    BY <1>7
  <2>2. \A p \in Proxies, r \in Requests : f[Service!PaymentKey(p, r)] = g[Service!PaymentKey(p, r)]
    BY <1>8
  <2>3. Tabular(f) /\ Tabular(g)
    BY <1>4, <1>5 DEF Tabular
  <2> QED BY ZenonT(60), <1>6, <2>1, <2>2, <2>3, SameTable
<1> QED BY <1>2, <1>3, <1>9

\* What a put changes in the file.
LEMMA PutRows ==
  ASSUME NEW name, NEW x, NEW v,
         file' = With(file, name, With(Bucket(file, name), x, encode(v)))
  PROVE  /\ \A n, y : Stored(n, y)' = IF n = name /\ y = x THEN v ELSE Stored(n, y)
         /\ \A n, y : In(n, y)' <=> In(n, y) \/ (n = name /\ y = x)
<1> DEFINE b == With(Bucket(file, name), x, encode(v))
<1>1. /\ DOMAIN b = DOMAIN Bucket(file, name) \cup {x} /\ b[x] = encode(v)
      /\ \A y \in DOMAIN Bucket(file, name) : y # x => b[y] = Bucket(file, name)[y]
  BY DEF With
<1> HIDE DEF b
<1>2. PICK c : c = b
  OBVIOUS
<1>3. DOMAIN file' = DOMAIN file \cup {name} /\ file'[name] = c
      /\ \A n \in DOMAIN file : n # name => file'[n] = file[n]
  BY <1>2 DEF With, b
<1>4. \A n : Bucket(file, n)' = IF n = name THEN c ELSE Bucket(file, n)
  BY <1>3 DEF Bucket
<1>5. \A n, y : In(n, y)' <=> In(n, y) \/ (n = name /\ y = x)
  BY <1>1, <1>2, <1>4 DEF In
<1>a. StoredAsIn /\ StoredAsIn'
  BY StoredIn, PTL
<1>6. \A n, y : Stored(n, y)' = IF In(n, y)' THEN decode(Bucket(file, n)[y])' ELSE None
  BY <1>a DEF StoredAsIn
<1>7. decode(encode(v)) = v
  BY DEF decode, encode
<1>8. ASSUME NEW n, NEW y PROVE Stored(n, y)' = IF n = name /\ y = x THEN v ELSE Stored(n, y)
  <2>1. CASE n = name /\ y = x
    BY <1>1, <1>2, <1>4, <1>5, <1>6, <1>7, <2>1 DEF decode
  <2>2. CASE ~(n = name /\ y = x)
    <3>1. In(n, y)' <=> In(n, y)
      BY <1>5, <2>2
    <3>2. In(n, y) => Bucket(file, n)'[y] = Bucket(file, n)[y]
      BY <1>1, <1>2, <1>4, <2>2 DEF In
    <3> QED BY <1>a, <1>6, <2>2, <3>1, <3>2 DEF StoredAsIn, decode
  <2> QED BY <2>1, <2>2
<1> QED BY <1>5, <1>8

\* What a delete changes in the file.
LEMMA DeleteRows ==
  ASSUME NEW name, NEW x,
         file' = IF name \in DOMAIN file THEN [file EXCEPT ![name] = Without(file[name], {x})] ELSE file
  PROVE  /\ \A n, y : Stored(n, y)' = IF n = name /\ y = x THEN None ELSE Stored(n, y)
         /\ \A n, y : In(n, y)' <=> In(n, y) /\ ~(n = name /\ y = x)
<1>1. CASE name \notin DOMAIN file
  <2>1. DOMAIN EmptyBucket = {}
    BY DEF EmptyBucket
  <2> QED BY <1>1, <2>1 DEF In, Stored, Bucket
<1>2. CASE name \in DOMAIN file
  <2>1. PICK c : c = Without(file[name], {x})
    OBVIOUS
  <2>2. DOMAIN c = DOMAIN file[name] \ {x} /\ \A y \in DOMAIN c : c[y] = file[name][y]
    BY <2>1 DEF Without
  <2>3. DOMAIN file' = DOMAIN file /\ file'[name] = c /\ \A n \in DOMAIN file : n # name => file'[n] = file[n]
    BY <1>2, <2>1
  <2>4. \A n, y : In(n, y)' <=> In(n, y) /\ ~(n = name /\ y = x)
    BY <1>2, <2>2, <2>3 DEF In, Bucket
  <2>5. \A n, y : Stored(n, y)' = IF n = name /\ y = x THEN None ELSE Stored(n, y)
    BY <1>2, <2>2, <2>3 DEF Stored, decode
  <2> QED BY <2>4, <2>5
<1> QED BY <1>1, <1>2

\* An answer carries the name of its method.
LEMMA AnswerNames ==
  \A op, v : /\ Service!Done(op)[1] = op /\ Service!Failed(op)[1] = op
             /\ Service!Lost(op)[1] = op /\ Service!Value(op, v)[1] = op
BY DEF Service!Done, Service!Failed, Service!Lost, Service!Value

\* The table is a function of the file.
LEMMA FileSame ==
  ASSUME FileInv, UNCHANGED file
  PROVE  Table' = Table /\ FileInv'
<1>1. Table' = Table
  BY DEF Table, Stored
<1>2. FileInv'
  BY DEF FileInv, In, Stored, Bucket
<1> QED BY <1>1, <1>2

\* A transaction that reads.
LEMMA Viewed ==
  ASSUME FileInv, NEW op, NEW res, View(op, res)
  PROVE  Service!Perform(op, Table, Service!Value(op, res)) /\ FileInv'
<1>1. UNCHANGED file /\ answer' \in {Service!Value(op, res), Service!Failed(op)}
  BY DEF View
<1>2. Table' = Table /\ FileInv'
  BY <1>1, FileSame
<1>3. answer'[1] = op
  BY <1>1, AnswerNames
<1> QED BY <1>1, <1>2, <1>3 DEF Service!Perform

\* A transaction that writes: all of it, or nothing.
LEMMA Updated ==
  ASSUME FileInv, NEW op, NEW new, NEW rows, NEW result, result[1] = op, Update(op, new, result),
         file' = new => Table' = rows /\ FileInv'
  PROVE  Service!Perform(op, rows, result) /\ FileInv'
<1>1. \/ file' = new /\ answer' = result
      \/ file' = file /\ answer' = Service!Failed(op)
      \/ file' \in {file, new} /\ answer' = Service!Lost(op)
  BY DEF Update
<1>2. file' = file => Table' = Table /\ FileInv'
  BY FileSame
<1>3. answer'[1] = op
  BY <1>1, AnswerNames
<1> QED BY <1>1, <1>2, <1>3 DEF Service!Perform

\* A put is the put of the interface.
LEMMA PutPerforms ==
  ASSUME FileInv, NEW k \in Service!Keys, NEW name, NEW x, NEW v \in Values,
         Address(k, name, x), PutIn(name, x, v)
  PROVE  Service!Put(k, v) /\ FileInv'
<1>1. PICK new : new = With(file, name, With(Bucket(file, name), x, encode(v)))
  OBVIOUS
<1>2. PICK rows : rows = [Table EXCEPT ![k] = v]
  BY ZenonT(60)
<1>3. ASSUME file' = new PROVE Table' = rows /\ FileInv'
  <2>1. /\ \A n, y : Stored(n, y)' = IF n = name /\ y = x THEN v ELSE Stored(n, y)
        /\ \A n, y : In(n, y)' <=> In(n, y) \/ (n = name /\ y = x)
    BY <1>1, <1>3, PutRows
  <2>2. Table' = rows
    BY <1>2, <2>1, RowChange
  <2>3. v # None
    BY NoneAssumption
  <2>4. \A p \in Proxies : name = paymentBucketName(p) => x \in Requests
    BY BucketsDiffer DEF Address
  <2>5. FileInv'
    BY <2>1, <2>3, <2>4 DEF FileInv
  <2> QED BY <2>2, <2>5
<1>4. Update("put", new, Service!Done("put"))
  BY <1>1 DEF PutIn
<1>5. Service!Perform("put", rows, Service!Done("put")) /\ FileInv'
  BY ZenonT(60), <1>3, <1>4, AnswerNames, Updated
<1> QED BY <1>2, <1>5 DEF Service!Put

\* So is a delete.
LEMMA DeletePerforms ==
  ASSUME FileInv, NEW k \in Service!Keys, NEW name, NEW x, Address(k, name, x), DeleteIn(name, x)
  PROVE  Service!Delete(k) /\ FileInv'
<1>1. PICK new : new = IF name \in DOMAIN file THEN [file EXCEPT ![name] = Without(file[name], {x})] ELSE file
  BY ZenonT(60)
<1>2. PICK rows : rows = [Table EXCEPT ![k] = None]
  BY ZenonT(60)
<1>3. ASSUME file' = new PROVE Table' = rows /\ FileInv'
  <2>1. /\ \A n, y : Stored(n, y)' = IF n = name /\ y = x THEN None ELSE Stored(n, y)
        /\ \A n, y : In(n, y)' <=> In(n, y) /\ ~(n = name /\ y = x)
    BY ZenonT(60), <1>1, <1>3, DeleteRows
  <2>2. Table' = rows
    BY <1>2, <2>1, RowChange
  <2>3. FileInv'
    BY <2>1 DEF FileInv
  <2> QED BY <2>2, <2>3
<1>4. Update("delete", new, Service!Done("delete"))
  BY <1>1 DEF DeleteIn
<1>5. Service!Perform("delete", rows, Service!Done("delete")) /\ FileInv'
  BY ZenonT(60), <1>3, <1>4, AnswerNames, Updated
<1> QED BY <1>2, <1>5 DEF Service!Delete

\* Get answers with the row of its key.
LEMMA GetPerforms ==
  ASSUME FileInv, NEW k \in Service!Keys, NEW name, NEW x, Address(k, name, x),
         View("get", Stored(name, x))
  PROVE  Service!Get(k) /\ FileInv'
<1>1. Table[k] = Stored(name, x)
  BY TableRows DEF RowsAre, Address
<1>2. PICK res : res = Stored(name, x)
  OBVIOUS
<1>3. Service!Perform("get", Table, Service!Value("get", res)) /\ FileInv'
  BY <1>2, Viewed
<1> QED BY <1>1, <1>2, <1>3 DEF Service!Get

\* ListSignedPayments answers with the payments of its proxy and no others.
LEMMA ListPerforms ==
  ASSUME FileInv, NEW p \in Proxies, ListSignedPayments(p)
  PROVE  Service!List(p) /\ FileInv'
<1> DEFINE b == Bucket(file, paymentBucketName(p))
           stored == {r \in Requests : Table[Service!PaymentKey(p, r)] # None}
<1>1. PICK res : res = {<<r, decode(b[r])>> : r \in DOMAIN b}
  BY ZenonT(60)
<1>2. View("list", res)
  BY <1>1 DEF ListSignedPayments
<1>3. \A r \in Requests : Table[Service!PaymentKey(p, r)] = Stored(paymentBucketName(p), r)
  BY TableRows DEF RowsAre
<1>4. \A r : Stored(paymentBucketName(p), r) = IF r \in DOMAIN b THEN decode(b[r]) ELSE None
  BY StoredIn DEF StoredAsIn, In
<1>5. \A r \in DOMAIN b : r \in Requests /\ decode(b[r]) # None
  BY <1>4 DEF FileInv, In
<1> HIDE DEF b
<1>6. DOMAIN b = stored /\ \A r \in stored : decode(b[r]) = Table[Service!PaymentKey(p, r)]
  BY <1>3, <1>4, <1>5
<1>7. res = {<<r, Table[Service!PaymentKey(p, r)]>> : r \in stored}
  BY <1>1, <1>6
<1>8. Service!Perform("list", Table, Service!Value("list", res)) /\ FileInv'
  BY <1>2, Viewed
<1> QED BY <1>7, <1>8 DEF Service!List

\* The payments of proxy p that are older than t.
Aged(p, t) ==
  {r \in DOMAIN Bucket(file, paymentBucketName(p)) : decode(file[paymentBucketName(p)][r]).at < t}

\* They are the rows the interface calls old.
LEMMA AgedIsOld ==
  ASSUME FileInv, NEW t, NEW p \in Proxies
  PROVE  /\ Aged(p, t) \subseteq Requests
         /\ \A r \in Requests : r \in Aged(p, t) <=> Service!Old(p, r, t)
<1>1. \A r \in Requests : Table[Service!PaymentKey(p, r)] = Stored(paymentBucketName(p), r)
  BY ZenonT(60), TableRows DEF RowsAre
<1>2. \A r : In(paymentBucketName(p), r) =>
        /\ r \in Requests /\ Stored(paymentBucketName(p), r) # None
        /\ Stored(paymentBucketName(p), r) = decode(file[paymentBucketName(p)][r])
  <2>1. DOMAIN EmptyBucket = {}
    BY DEF EmptyBucket
  <2> QED BY <2>1 DEF FileInv, In, Stored, Bucket
<1>3. \A r : ~In(paymentBucketName(p), r) => Stored(paymentBucketName(p), r) = None
  BY ZenonT(60), StoredIn DEF StoredAsIn
<1> QED BY <1>1, <1>2, <1>3 DEF Aged, Service!Old, In

\* GCSignedPayments is the GC of the interface, in one transaction.
LEMMA GCPerforms ==
  ASSUME FileInv, NEW t \in Times, GCSignedPayments(t)
  PROVE  Service!GC(t) /\ FileInv'
<1> DEFINE old == {pr \in Proxies \X Requests : Service!Old(pr[1], pr[2], t)}
           hit(k) == \E pr \in old : k = Service!PaymentKey(pr[1], pr[2])
<1>1. PICK new : new = [b \in DOMAIN file |->
                          IF \E p \in Proxies : b = paymentBucketName(p)
                          THEN Without(file[b], Aged(b[2], t)) ELSE file[b]]
  BY ZenonT(60)
<1>2. PICK rows : rows = [k \in Service!Keys |-> IF hit(k) THEN None ELSE Table[k]]
  BY ZenonT(60)
<1>3. PICK count : count = Cardinality({pr \in Proxies \X Requests : pr[2] \in Aged(pr[1], t)})
  OBVIOUS
<1>4. Update("gc", new, Service!Value("gc", count))
  BY ZenonT(60), <1>1, <1>3 DEF GCSignedPayments, Aged
<1>5. {pr \in Proxies \X Requests : pr[2] \in Aged(pr[1], t)} = old
  BY ZenonT(60), AgedIsOld
<1>6. \A p \in Proxies, r \in Requests : hit(Service!PaymentKey(p, r)) <=> r \in Aged(p, t)
  <2> SUFFICES ASSUME NEW p \in Proxies, NEW r \in Requests
               PROVE  hit(Service!PaymentKey(p, r)) <=> r \in Aged(p, t)
    OBVIOUS
  <2>1. hit(Service!PaymentKey(p, r)) => Service!Old(p, r, t)
    <3> SUFFICES ASSUME NEW pr \in old, Service!PaymentKey(p, r) = Service!PaymentKey(pr[1], pr[2])
                 PROVE  Service!Old(p, r, t)
      OBVIOUS
    <3>1. pr[1] = p /\ pr[2] = r
      BY DEF Service!PaymentKey
    <3> QED BY ZenonT(60), <3>1
  <2>2. Service!Old(p, r, t) => hit(Service!PaymentKey(p, r))
    <3> SUFFICES ASSUME Service!Old(p, r, t) PROVE hit(Service!PaymentKey(p, r))
      OBVIOUS
    <3>1. <<p, r>> \in Proxies \X Requests /\ <<p, r>>[1] = p /\ <<p, r>>[2] = r
      OBVIOUS
    <3>2. <<p, r>> \in old
      BY ZenonT(60), <3>1
    <3> QED BY ZenonT(60), <3>1, <3>2
  <2> HIDE DEF hit
  <2> QED BY ZenonT(60), <2>1, <2>2, AgedIsOld
<1>7. ~hit(Service!RootKey) /\ \A p \in Proxies : ~hit(Service!ClientKey(p))
  BY SMTT(60), KeysDiffer
<1> HIDE DEF hit
<1>8. ASSUME file' = new PROVE Table' = rows /\ FileInv'
  <2>1. /\ DOMAIN file' = DOMAIN file
        /\ \A b \in DOMAIN file : (\A p \in Proxies : b # paymentBucketName(p)) => file'[b] = file[b]
        /\ \A p \in Proxies : paymentBucketName(p) \in DOMAIN file =>
             file'[paymentBucketName(p)] = Without(file[paymentBucketName(p)], Aged(p, t))
    BY ZenonT(60), <1>1, <1>8, BucketsDiffer
  <2>2. ASSUME NEW p \in Proxies, paymentBucketName(p) \in DOMAIN file
        PROVE  /\ DOMAIN file'[paymentBucketName(p)] = DOMAIN file[paymentBucketName(p)] \ Aged(p, t)
               /\ \A r \in DOMAIN file'[paymentBucketName(p)] :
                    file'[paymentBucketName(p)][r] = file[paymentBucketName(p)][r]
    BY ZenonT(60), <2>1, <2>2 DEF Without
  <2>3. ASSUME NEW p \in Proxies, NEW r
        PROVE  /\ In(paymentBucketName(p), r)' => In(paymentBucketName(p), r) /\ r \notin Aged(p, t)
               /\ Stored(paymentBucketName(p), r)' =
                    IF r \in Aged(p, t) THEN None ELSE Stored(paymentBucketName(p), r)
    <3>1. DOMAIN EmptyBucket = {}
      BY DEF EmptyBucket
    <3>2. CASE paymentBucketName(p) \notin DOMAIN file
      BY <2>1, <3>1, <3>2 DEF In, Stored, Bucket
    <3>3. CASE paymentBucketName(p) \in DOMAIN file
      BY ZenonT(60), <2>1, <2>2, <3>3 DEF In, Stored, Bucket, decode
    <3> QED BY <3>2, <3>3
  <2>4. FileInv'
    BY ZenonT(60), <2>3 DEF FileInv
  <2>5. \A n \in {bucketRoot, bucketClients} : \A x : Stored(n, x)' = Stored(n, x)
    BY ZenonT(60), <2>1, BucketsDiffer DEF Stored, decode
  <2>6. RowsAre /\ RowsAre'
    BY TableRows, PTL
  <2>7. PICK f : f = Table'
    OBVIOUS
  <2>8. Tabular(f) /\ Tabular(rows) /\ \A k \in Service!Keys : rows[k] = IF hit(k) THEN None ELSE Table[k]
    BY ZenonT(60), <1>2, <2>6, <2>7 DEF RowsAre, Tabular
  <2>9. f[Service!RootKey] = rows[Service!RootKey]
    BY ZenonT(60), <1>7, <2>5, <2>6, <2>7, <2>8, KeyKinds DEF RowsAre
  <2>10. ASSUME NEW p \in Proxies PROVE f[Service!ClientKey(p)] = rows[Service!ClientKey(p)]
    <3>1. f[Service!ClientKey(p)] = Stored(bucketClients, p)'
      BY ZenonT(60), <2>6, <2>7, <2>10 DEF RowsAre
    <3>2. rows[Service!ClientKey(p)] = Stored(bucketClients, p)
      BY ZenonT(60), <1>7, <2>6, <2>8, <2>10, KeyKinds DEF RowsAre
    <3> QED BY ZenonT(60), <2>5, <3>1, <3>2
  <2>11. ASSUME NEW p \in Proxies, NEW r \in Requests
         PROVE  f[Service!PaymentKey(p, r)] = rows[Service!PaymentKey(p, r)]
    <3>1. f[Service!PaymentKey(p, r)] = Stored(paymentBucketName(p), r)'
      BY <2>6, <2>7, <2>11 DEF RowsAre
    <3>2. rows[Service!PaymentKey(p, r)] =
            IF r \in Aged(p, t) THEN None ELSE Stored(paymentBucketName(p), r)
      BY ZenonT(60), <1>6, <2>6, <2>8, <2>11, KeyKinds DEF RowsAre
    <3> QED BY <2>3, <2>11, <3>1, <3>2
  <2>12. f = rows
    BY ZenonT(60), <2>8, <2>9, <2>10, <2>11, SameTable
  <2> QED BY ZenonT(60), <2>4, <2>7, <2>12
<1>9. Service!Perform("gc", rows, Service!Value("gc", count)) /\ FileInv'
  BY ZenonT(60), <1>4, <1>8, AnswerNames, Updated
<1>10. Service!Cardinality(old) = count
  BY ZenonT(60), <1>3, <1>5 DEF Service!Cardinality, Cardinality
<1> QED BY ZenonT(60), <1>2, <1>9, <1>10 DEF Service!GC, hit

\* Open creates the buckets that are missing, and they are empty.
LEMMA OpenKeeps ==
  ASSUME FileInv, Open
  PROVE  Table' = Table /\ FileInv'
<1>1. DOMAIN EmptyBucket = {}
  BY DEF EmptyBucket
<1>2. \A n : Bucket(file, n)' = Bucket(file, n)
  BY DEF Open, Bucket
<1>3. \A n, x : (In(n, x)' <=> In(n, x)) /\ Stored(n, x)' = Stored(n, x)
  <2>1. StoredAsIn /\ StoredAsIn'
    BY StoredIn, PTL
  <2>2. \A n, x : In(n, x)' <=> In(n, x)
    BY ZenonT(60), <1>2 DEF In
  <2> QED BY <1>2, <2>1, <2>2 DEF StoredAsIn, decode
<1>4. FileInv'
  BY ZenonT(60), <1>3 DEF FileInv
<1>5. Table' = Table
  BY SMTT(60), <1>3 DEF Table
<1> QED BY <1>4, <1>5

\* Every step of the bbolt store is one of the interface, or none.
LEMMA BoltStep ==
  ASSUME FileInv, [Next]_vars
  PROVE  FileInv' /\ [Service!StoreNext]_<<Table, answer>>
<1>1. CASE UNCHANGED vars
  BY ZenonT(60), <1>1, FileSame DEF vars
<1>2. CASE Open
  BY <1>2, OpenKeeps DEF Open
<1>3. CASE Close
  BY ZenonT(60), <1>3, FileSame DEF Close
<1>4. CASE GetRoot
  BY ZenonT(60), <1>4, GetPerforms, KeyKinds DEF GetRoot, Address, Service!StoreNext
<1>5. ASSUME NEW v \in Values, PutRoot(v) PROVE FileInv' /\ Service!StoreNext
  BY ZenonT(60), <1>5, PutPerforms, KeyKinds DEF PutRoot, Address, Service!StoreNext, Values
<1>6. ASSUME NEW p \in Proxies, GetClientSC(p) PROVE FileInv' /\ Service!StoreNext
  BY ZenonT(60), <1>6, GetPerforms, KeyKinds DEF GetClientSC, Address, Service!StoreNext
<1>7. ASSUME NEW p \in Proxies, DeleteClientSC(p) PROVE FileInv' /\ Service!StoreNext
  BY ZenonT(60), <1>7, DeletePerforms, KeyKinds, KeysDiffer DEF DeleteClientSC, Address, Service!StoreNext
<1>8. ASSUME NEW p \in Proxies, ListSignedPayments(p) PROVE FileInv' /\ Service!StoreNext
  BY ZenonT(60), <1>8, ListPerforms DEF Service!StoreNext
<1>9. ASSUME NEW p \in Proxies, NEW v \in Values, PutClientSC(p, v) PROVE FileInv' /\ Service!StoreNext
  BY ZenonT(60), <1>9, PutPerforms, KeyKinds DEF PutClientSC, Address, Service!StoreNext, Values
<1>10. ASSUME NEW p \in Proxies, NEW r \in Requests, GetSignedPayment(p, r) PROVE FileInv' /\ Service!StoreNext
  BY ZenonT(60), <1>10, GetPerforms, KeyKinds DEF GetSignedPayment, Address, Service!StoreNext
<1>11. ASSUME NEW p \in Proxies, NEW r \in Requests, DeleteSignedPayment(p, r) PROVE FileInv' /\ Service!StoreNext
  BY ZenonT(60), <1>11, DeletePerforms, KeyKinds, KeysDiffer DEF DeleteSignedPayment, Address, Service!StoreNext
<1>12. ASSUME NEW p \in Proxies, NEW r \in Requests, NEW v \in Values, PutSignedPayment(p, r, v)
       PROVE  FileInv' /\ Service!StoreNext
  BY ZenonT(60), <1>12, PutPerforms, KeyKinds DEF PutSignedPayment, Address, Service!StoreNext, Values
<1>13. ASSUME NEW t \in Times, GCSignedPayments(t) PROVE FileInv' /\ Service!StoreNext
  BY ZenonT(60), <1>13, GCPerforms DEF Service!StoreNext
<1> QED BY ZenonT(60), <1>1, <1>2, <1>3, <1>4, <1>5, <1>6, <1>7, <1>8, <1>9, <1>10, <1>11, <1>12, <1>13 DEF Next

\* The file begins empty.
LEMMA BoltBegins == Init => FileInv /\ Service!StoreInit
<1> SUFFICES ASSUME Init PROVE FileInv /\ Service!StoreInit
  OBVIOUS
<1>1. DOMAIN file = {} /\ DOMAIN EmptyBucket = {}
  BY ZenonT(60) DEF Init, EmptyBucket
<1>2. \A n, x : ~In(n, x) /\ Stored(n, x) = None
  BY <1>1 DEF In, Stored, Bucket
<1>3. FileInv
  BY <1>2 DEF FileInv
<1>4. RowsAre
  BY TableRows
<1>5. PICK rows : rows = [k \in Service!Keys |-> None]
  BY ZenonT(60)
<1>6. Tabular(rows) /\ Tabular(Table) /\ \A k \in Service!Keys : rows[k] = None
  BY <1>4, <1>5 DEF RowsAre, Tabular
<1>7. ASSUME NEW k \in Service!Keys PROVE Table[k] = None
  <2>1. CASE k = Service!RootKey
    BY <1>2, <1>4, <2>1 DEF RowsAre
  <2>2. CASE \E p \in Proxies : k = Service!ClientKey(p)
    BY <1>2, <1>4, <2>2 DEF RowsAre
  <2>3. CASE \E p \in Proxies, r \in Requests : k = Service!PaymentKey(p, r)
    BY <1>2, <1>4, <2>3 DEF RowsAre
  <2> QED BY <2>1, <2>2, <2>3, KeyKinds
<1>8. Table = rows
  BY ZenonT(60), <1>6, <1>7 DEF Tabular
<1> QED BY ZenonT(60), <1>3, <1>5, <1>8 DEF Init, Service!StoreInit

\* The bbolt store implements store.Store: every method takes effect in one
\* transaction on the rows of its own keys, also when it fails, when the
\* process dies in it and when the file is closed and opened again.
THEOREM BoltImplements == Spec => ImplementsStore
<1>1. Init => FileInv /\ Service!StoreInit
  BY BoltBegins
<1>2. FileInv /\ [Next]_vars => FileInv' /\ [Service!StoreNext]_<<Table, answer>>
  BY BoltStep
<1> QED BY <1>1, <1>2, PTL DEF Spec, ImplementsStore, Service!StoreSpec

----------------------------------------------------------------------------
(* The in-memory store.                                                    *)

\* Its interface has the same keys and values.
LEMMA SameKeys ==
  /\ M!Service!Keys = Service!Keys /\ M!Values = Values
  /\ M!Service!RootKey = Service!RootKey
  /\ \A p : M!Service!ClientKey(p) = Service!ClientKey(p)
  /\ \A p, r : M!Service!PaymentKey(p, r) = Service!PaymentKey(p, r)
BY DEF M!Service!Keys, Service!Keys, M!Service!RootKey, Service!RootKey, M!Service!ClientKey,
       Service!ClientKey, M!Service!PaymentKey, Service!PaymentKey, M!Values, Values,
       M!Service!Values, Service!Values

Client(p) == IF p \in DOMAIN clients THEN clients[p] ELSE None

\* The signed payment of request r is in the map.
Held(p, r) == p \in DOMAIN payments /\ r \in DOMAIN payments[p]

\* No entry is the caller's object; every signed payment is under a request.
MemInv ==
  /\ aliases = {}
  /\ \A p \in Proxies : \A r : Held(p, r) => r \in Requests /\ payments[p][r] # None

\* What the table says of the maps.
MemRowsAre ==
  /\ Tabular(M!Table)
  /\ M!Table[Service!RootKey] = root
  /\ \A p \in Proxies : M!Table[Service!ClientKey(p)] = Client(p)
  /\ \A p \in Proxies, r \in Requests : M!Table[Service!PaymentKey(p, r)] = M!Payment(p, r)

\* The refinement mapping gives these rows.
LEMMA MemTableRows == MemRowsAre
<1> DEFINE Row(k) == CASE k[1] = "root" -> root
                       [] k[1] = "client" -> Client(k[2])
                       [] k[1] = "payment" -> M!Payment(k[2], k[3])
<1>1. M!Table = [k \in Service!Keys |-> Row(k)]
  BY DEF M!Table, Client, Service!Keys, Service!RootKey, Service!ClientKey, Service!PaymentKey
<1>2. \A k : /\ k[1] = "root" => Row(k) = root
             /\ k[1] = "client" => Row(k) = Client(k[2])
             /\ k[1] = "payment" => Row(k) = M!Payment(k[2], k[3])
  OBVIOUS
<1> HIDE DEF Row
<1>3. /\ Service!RootKey[1] = "root"
      /\ \A p : Service!ClientKey(p)[1] = "client" /\ Service!ClientKey(p)[2] = p
      /\ \A p, r : /\ Service!PaymentKey(p, r)[1] = "payment"
                   /\ Service!PaymentKey(p, r)[2] = p /\ Service!PaymentKey(p, r)[3] = r
  BY DEF Service!RootKey, Service!ClientKey, Service!PaymentKey
<1>4. \A k \in Service!Keys : M!Table[k] = Row(k)
  BY ZenonT(60), <1>1
<1>5. Tabular(M!Table)
  BY ZenonT(60), <1>1, <1>4 DEF Tabular
<1>6. M!Table[Service!RootKey] = root
  BY ZenonT(60), <1>2, <1>3, <1>4, KeyKinds
<1>7. ASSUME NEW p \in Proxies PROVE M!Table[Service!ClientKey(p)] = Client(p)
  <2>1. M!Table[Service!ClientKey(p)] = Row(Service!ClientKey(p))
    BY ZenonT(60), <1>4, <1>7, KeyKinds
  <2> QED BY ZenonT(60), <1>2, <1>3, <2>1
<1>8. ASSUME NEW p \in Proxies, NEW r \in Requests
      PROVE  M!Table[Service!PaymentKey(p, r)] = M!Payment(p, r)
  <2>1. M!Table[Service!PaymentKey(p, r)] = Row(Service!PaymentKey(p, r))
    BY ZenonT(60), <1>4, <1>8, KeyKinds
  <2>2. PICK k : k = Service!PaymentKey(p, r)
    OBVIOUS
  <2>3. k[1] = "payment" /\ k[2] = p /\ k[3] = r
    BY ZenonT(60), <1>3, <2>2
  <2>4. Row(k) = M!Payment(p, r)
    BY ZenonT(60), <1>2, <2>3
  <2> QED BY ZenonT(60), <2>1, <2>2, <2>4
<1> QED BY <1>5, <1>6, <1>7, <1>8 DEF MemRowsAre

\* The table after a step is given by its rows.
LEMMA MemTable ==
  ASSUME NEW g, Tabular(g), g[Service!RootKey] = root',
         \A p \in Proxies : g[Service!ClientKey(p)] = Client(p)',
         \A p \in Proxies, r \in Requests : g[Service!PaymentKey(p, r)] = M!Payment(p, r)'
  PROVE  M!Table' = g
<1>1. MemRowsAre'
  BY MemTableRows, PTL
<1>2. PICK f : f = M!Table'
  OBVIOUS
<1>3. Tabular(f) /\ f[Service!RootKey] = g[Service!RootKey]
  BY <1>1, <1>2 DEF MemRowsAre, Tabular
<1>4. \A p \in Proxies : f[Service!ClientKey(p)] = g[Service!ClientKey(p)]
  BY <1>1, <1>2 DEF MemRowsAre
<1>5. \A p \in Proxies, r \in Requests : f[Service!PaymentKey(p, r)] = g[Service!PaymentKey(p, r)]
  BY <1>1, <1>2 DEF MemRowsAre
<1>6. f = g
  BY ZenonT(60), <1>3, <1>4, <1>5, SameTable
<1> QED BY <1>2, <1>6

\* A step that changes no row.
LEMMA MemSame ==
  ASSUME root' = root, \A p \in Proxies : Client(p)' = Client(p),
         \A p \in Proxies, r \in Requests : M!Payment(p, r)' = M!Payment(p, r)
  PROVE  M!Table' = M!Table
<1>1. MemRowsAre
  BY MemTableRows
<1>2. PICK g : g = M!Table
  OBVIOUS
<1>3. /\ Tabular(g) /\ g[Service!RootKey] = root'
      /\ \A p \in Proxies : g[Service!ClientKey(p)] = Client(p)'
      /\ \A p \in Proxies, r \in Requests : g[Service!PaymentKey(p, r)] = M!Payment(p, r)'
  BY <1>1, <1>2 DEF MemRowsAre
<1>4. M!Table' = g
  BY ZenonT(60), <1>3, MemTable
<1> QED BY <1>2, <1>4

\* A step that changes one row.
LEMMA MemRowChange ==
  ASSUME NEW k \in Service!Keys, NEW v,
         root' = IF k = Service!RootKey THEN v ELSE root,
         \A p \in Proxies : Client(p)' = IF k = Service!ClientKey(p) THEN v ELSE Client(p),
         \A p \in Proxies, r \in Requests :
           M!Payment(p, r)' = IF k = Service!PaymentKey(p, r) THEN v ELSE M!Payment(p, r)
  PROVE  M!Table' = [M!Table EXCEPT ![k] = v]
<1>1. MemRowsAre
  BY MemTableRows
<1>2. PICK g : g = [M!Table EXCEPT ![k] = v]
  BY ZenonT(60)
<1>3. Tabular(g) /\ \A j \in Service!Keys : g[j] = IF j = k THEN v ELSE M!Table[j]
  BY <1>1, <1>2 DEF MemRowsAre, Tabular
<1>4. g[Service!RootKey] = root'
  BY <1>1, <1>3, KeyKinds DEF MemRowsAre
<1>5. ASSUME NEW p \in Proxies PROVE g[Service!ClientKey(p)] = Client(p)'
  BY <1>1, <1>3, <1>5, KeyKinds DEF MemRowsAre
<1>6. ASSUME NEW p \in Proxies, NEW r \in Requests
      PROVE  g[Service!PaymentKey(p, r)] = M!Payment(p, r)'
  <2>1. g[Service!PaymentKey(p, r)] =
          IF Service!PaymentKey(p, r) = k THEN v ELSE M!Table[Service!PaymentKey(p, r)]
    BY <1>3, <1>6, KeyKinds
  <2>2. M!Table[Service!PaymentKey(p, r)] = M!Payment(p, r)
    BY <1>1, <1>6 DEF MemRowsAre
  <2> QED BY <1>6, <2>1, <2>2
<1>7. M!Table' = g
  BY ZenonT(60), <1>3, <1>4, <1>5, <1>6, MemTable
<1> QED BY <1>2, <1>7

\* A method that succeeds does what the interface says.
LEMMA MemPerforms ==
  ASSUME NEW op, NEW rows, NEW result, result[1] = op, memAnswer' = result, M!Table' = rows
  PROVE  M!Service!Perform(op, rows, result)
BY DEF M!Service!Perform

\* An answer names its method.
LEMMA MemAnswerNames ==
  \A op, v : M!Service!Done(op)[1] = op /\ M!Service!Value(op, v)[1] = op
BY DEF M!Service!Done, M!Service!Value

\* A step that leaves the signed payments alone.
LEMMA PaymentsSame ==
  ASSUME MemInv, UNCHANGED payments, aliases' = {}
  PROVE  MemInv' /\ \A p \in Proxies, r \in Requests : M!Payment(p, r)' = M!Payment(p, r)
<1>1. MemInv'
  BY DEF MemInv, Held
<1>2. \A p \in Proxies, r \in Requests : M!Payment(p, r)' = M!Payment(p, r)
  BY DEF M!Payment
<1> QED BY <1>1, <1>2

\* Get answers with a copy of the row.
LEMMA MemGet ==
  ASSUME MemInv, NEW k \in Service!Keys, NEW j, NEW v, M!Table[k] = v, M!Takes(v, j)
  PROVE  M!Service!Get(k) /\ MemInv'
<1>1. UNCHANGED <<root, clients, payments>> /\ aliases' = {} /\ memAnswer' = M!Service!Value("get", v)
  BY DEF M!Takes, M!Shared
<1>2. MemInv' /\ M!Table' = M!Table
  BY <1>1, PaymentsSame, MemSame DEF Client
<1>3. PICK rows : rows = M!Table
  OBVIOUS
<1>4. M!Service!Perform("get", rows, M!Service!Value("get", v))
  BY <1>1, <1>2, <1>3, MemAnswerNames, MemPerforms
<1> QED BY <1>2, <1>3, <1>4 DEF M!Service!Get

\* A put keeps a copy.
LEMMA MemPut ==
  ASSUME NEW k \in Service!Keys, NEW v, memAnswer' = M!Service!Done("put"),
         M!Table' = [M!Table EXCEPT ![k] = v]
  PROVE  M!Service!Put(k, v)
<1>1. PICK rows : rows = [M!Table EXCEPT ![k] = v]
  OBVIOUS
<1>2. M!Service!Perform("put", rows, M!Service!Done("put"))
  BY ZenonT(60), <1>1, MemAnswerNames, MemPerforms
<1> QED BY <1>1, <1>2 DEF M!Service!Put

\* A delete clears the row.
LEMMA MemDelete ==
  ASSUME NEW k \in Service!Keys, memAnswer' = M!Service!Done("delete"),
         M!Table' = [M!Table EXCEPT ![k] = None]
  PROVE  M!Service!Delete(k)
<1>1. PICK rows : rows = [M!Table EXCEPT ![k] = None]
  OBVIOUS
<1>2. M!Service!Perform("delete", rows, M!Service!Done("delete"))
  BY ZenonT(60), <1>1, MemAnswerNames, MemPerforms
<1> QED BY <1>1, <1>2 DEF M!Service!Delete

\* PutRoot writes the row of the root.
LEMMA MemPutRoot ==
  ASSUME MemInv, NEW v \in Values, M!PutRoot(v)
  PROVE  M!Service!Put(Service!RootKey, v) /\ MemInv'
<1>1. root' = v /\ UNCHANGED <<clients, payments>> /\ aliases' = {} /\ memAnswer' = M!Service!Done("put")
  BY DEF M!PutRoot, M!Gives, M!Shared
<1>2. MemInv' /\ \A p \in Proxies, r \in Requests : M!Payment(p, r)' = M!Payment(p, r)
  BY <1>1, PaymentsSame
<1>3. M!Table' = [M!Table EXCEPT ![Service!RootKey] = v]
  BY <1>1, <1>2, KeyKinds, KeysDiffer, MemRowChange DEF Client
<1> QED BY ZenonT(60), <1>1, <1>2, <1>3, KeyKinds, MemPut

\* PutClient writes the row of that proxy.
LEMMA MemPutClient ==
  ASSUME MemInv, NEW p \in Proxies, NEW v \in Values, M!PutClientSC(p, v)
  PROVE  M!Service!Put(Service!ClientKey(p), v) /\ MemInv'
<1>1. /\ clients' = M!With(clients, p, v) /\ UNCHANGED <<root, payments>> /\ aliases' = {}
      /\ memAnswer' = M!Service!Done("put")
  BY DEF M!PutClientSC, M!Gives, M!Shared
<1>2. MemInv' /\ \A q \in Proxies, r \in Requests : M!Payment(q, r)' = M!Payment(q, r)
  BY <1>1, PaymentsSame
<1>3. \A q \in Proxies : Client(q)' = IF q = p THEN v ELSE Client(q)
  BY <1>1 DEF Client, M!With
<1>4. PICK k \in Service!Keys : k = Service!ClientKey(p)
  BY KeyKinds
<1>5. /\ k # Service!RootKey
      /\ \A q \in Proxies : k = Service!ClientKey(q) <=> q = p
      /\ \A q \in Proxies, r \in Requests : k # Service!PaymentKey(q, r)
  BY <1>4, KeysDiffer
<1>6. M!Table' = [M!Table EXCEPT ![k] = v]
  BY ZenonT(60), <1>1, <1>2, <1>3, <1>5, MemRowChange
<1> QED BY ZenonT(60), <1>1, <1>2, <1>4, <1>6, MemPut

\* DeleteClient clears the row of that proxy.
LEMMA MemDeleteClient ==
  ASSUME MemInv, NEW p \in Proxies, M!DeleteClientSC(p)
  PROVE  M!Service!Delete(Service!ClientKey(p)) /\ MemInv'
<1>1. /\ clients' = M!Without(clients, {p}) /\ UNCHANGED <<root, payments>> /\ aliases' = {}
      /\ memAnswer' = M!Service!Done("delete")
  BY DEF M!DeleteClientSC, MemInv
<1>2. MemInv' /\ \A q \in Proxies, r \in Requests : M!Payment(q, r)' = M!Payment(q, r)
  BY <1>1, PaymentsSame
<1>3. \A q \in Proxies : Client(q)' = IF q = p THEN None ELSE Client(q)
  BY <1>1 DEF Client, M!Without
<1>4. PICK k \in Service!Keys : k = Service!ClientKey(p)
  BY KeyKinds
<1>5. /\ k # Service!RootKey
      /\ \A q \in Proxies : k = Service!ClientKey(q) <=> q = p
      /\ \A q \in Proxies, r \in Requests : k # Service!PaymentKey(q, r)
  BY <1>4, KeysDiffer
<1>6. M!Table' = [M!Table EXCEPT ![k] = None]
  BY ZenonT(60), <1>1, <1>2, <1>3, <1>5, MemRowChange
<1> QED BY ZenonT(60), <1>1, <1>2, <1>4, <1>6, MemDelete

\* PutSignedPayment writes the row of that proxy and request, and makes the map
\* of the proxy if it is missing.
LEMMA MemPutPayment ==
  ASSUME MemInv, NEW p \in Proxies, NEW r \in Requests, NEW v \in Values, M!PutSignedPayment(p, r, v)
  PROVE  M!Service!Put(Service!PaymentKey(p, r), v) /\ MemInv'
<1>1. PICK bucket : bucket = IF p \in DOMAIN payments THEN payments[p] ELSE M!EmptyMap
  OBVIOUS
<1>2. PICK b : b = M!With(bucket, r, v)
  OBVIOUS
<1>3. /\ payments' = M!With(payments, p, b) /\ UNCHANGED <<root, clients>> /\ aliases' = {}
      /\ memAnswer' = M!Service!Done("put")
  BY <1>1, <1>2 DEF M!PutSignedPayment, M!Gives, M!Shared
<1>4. DOMAIN b = DOMAIN bucket \cup {r} /\ b[r] = v /\ \A s \in DOMAIN bucket : s # r => b[s] = bucket[s]
  BY <1>2 DEF M!With
<1>5. \A s : s \in DOMAIN bucket <=> Held(p, s)
  <2>1. DOMAIN M!EmptyMap = {}
    BY ZenonT(60) DEF M!EmptyMap
  <2> QED BY <1>1, <2>1 DEF Held
<1>6. /\ DOMAIN payments' = DOMAIN payments \cup {p} /\ payments'[p] = b
      /\ \A q \in DOMAIN payments : q # p => payments'[q] = payments[q]
  BY ZenonT(60), <1>3 DEF M!With
<1>7. \A q, s : /\ Held(q, s)' <=> Held(q, s) \/ (q = p /\ s = r)
                /\ q = p /\ s = r => payments'[q][s] = v
                /\ Held(q, s) /\ ~(q = p /\ s = r) => payments'[q][s] = payments[q][s]
  BY ZenonT(60), <1>1, <1>4, <1>5, <1>6 DEF Held
<1>8. MemInv'
  BY ZenonT(60), <1>3, <1>7, NoneAssumption DEF MemInv
<1>9. \A q \in Proxies, s \in Requests : M!Payment(q, s)' = IF q = p /\ s = r THEN v ELSE M!Payment(q, s)
  BY ZenonT(60), <1>7 DEF M!Payment, Held
<1>10. PICK k \in Service!Keys : k = Service!PaymentKey(p, r)
  BY ZenonT(60), KeyKinds
<1>11. /\ k # Service!RootKey
       /\ \A q \in Proxies : k # Service!ClientKey(q)
       /\ \A q \in Proxies, s \in Requests : k = Service!PaymentKey(q, s) <=> q = p /\ s = r
  BY ZenonT(60), <1>10, KeysDiffer
<1>12. \A q \in Proxies : Client(q)' = Client(q)
  BY ZenonT(60), <1>3 DEF Client
<1>13. M!Table' = [M!Table EXCEPT ![k] = v]
  BY SMTT(60), <1>3, <1>9, <1>11, <1>12, MemRowChange
<1> QED BY ZenonT(60), <1>3, <1>8, <1>10, <1>13, MemPut

\* Remove takes out what it is given, whatever buckets that empties.
LEMMA RemoveRows ==
  ASSUME MemInv, NEW gone, payments' = M!Remove(gone), aliases' = {}
  PROVE  /\ \A p \in Proxies : \A r : Held(p, r)' <=> Held(p, r) /\ r \notin gone[p]
         /\ \A p \in Proxies : \A r :
              M!Payment(p, r)' = IF r \in gone[p] THEN None ELSE M!Payment(p, r)
         /\ MemInv'
<1>1. /\ DOMAIN payments' = {q \in DOMAIN payments : DOMAIN payments[q] \ gone[q] # {}}
      /\ \A q \in DOMAIN payments' :
           /\ DOMAIN payments'[q] = DOMAIN payments[q] \ gone[q]
           /\ \A r \in DOMAIN payments'[q] : payments'[q][r] = payments[q][r]
  BY ZenonT(60) DEF M!Remove
<1>2. \A p, r : Held(p, r)' <=> Held(p, r) /\ r \notin gone[p]
  BY ZenonT(60), <1>1 DEF Held
<1>3. \A p, r : Held(p, r)' => payments'[p][r] = payments[p][r]
  BY ZenonT(60), <1>1 DEF Held
<1>4. \A p, r : M!Payment(p, r)' = IF r \in gone[p] THEN None ELSE M!Payment(p, r)
  BY ZenonT(60), <1>2, <1>3 DEF M!Payment, Held
<1>5. MemInv'
  BY ZenonT(60), <1>2, <1>3 DEF MemInv
<1> QED BY ZenonT(60), <1>2, <1>4, <1>5

\* DeleteSignedPayment clears the row of that proxy and request.
LEMMA MemDeletePayment ==
  ASSUME MemInv, NEW p \in Proxies, NEW r \in Requests, M!DeleteSignedPayment(p, r)
  PROVE  M!Service!Delete(Service!PaymentKey(p, r)) /\ MemInv'
<1>1. PICK gone : gone = [q \in Proxies |-> IF q = p THEN {r} ELSE {}]
  BY ZenonT(60)
<1>2. /\ payments' = M!Remove(gone) /\ UNCHANGED <<root, clients>> /\ aliases' = {}
      /\ memAnswer' = M!Service!Done("delete")
  BY <1>1 DEF M!DeleteSignedPayment, MemInv
<1>3. MemInv' /\ \A q \in Proxies : \A s : M!Payment(q, s)' = IF s \in gone[q] THEN None ELSE M!Payment(q, s)
  BY ZenonT(60), <1>2, RemoveRows
<1>4. \A q \in Proxies, s \in Requests : M!Payment(q, s)' = IF q = p /\ s = r THEN None ELSE M!Payment(q, s)
  BY ZenonT(60), <1>1, <1>3
<1>5. PICK k \in Service!Keys : k = Service!PaymentKey(p, r)
  BY ZenonT(60), KeyKinds
<1>6. /\ k # Service!RootKey
      /\ \A q \in Proxies : k # Service!ClientKey(q)
      /\ \A q \in Proxies, s \in Requests : k = Service!PaymentKey(q, s) <=> q = p /\ s = r
  BY ZenonT(60), <1>5, KeysDiffer
<1>7. \A q \in Proxies : Client(q)' = Client(q)
  BY ZenonT(60), <1>2 DEF Client
<1>8. M!Table' = [M!Table EXCEPT ![k] = None]
  BY SMTT(60), <1>2, <1>4, <1>6, <1>7, MemRowChange
<1> QED BY ZenonT(60), <1>2, <1>3, <1>5, <1>8, MemDelete

\* ListSignedPayments returns the rows of one proxy.
LEMMA MemList ==
  ASSUME MemInv, NEW p \in Proxies, M!ListSignedPayments(p)
  PROVE  M!Service!List(p) /\ MemInv'
<1> DEFINE stored == {r \in Requests : M!Table[Service!PaymentKey(p, r)] # None}
<1>1. PICK res : res = IF p \in DOMAIN payments
                       THEN {<<r, payments[p][r]>> : r \in DOMAIN payments[p]} ELSE {}
  BY ZenonT(60)
<1>2. /\ UNCHANGED <<root, clients, payments>> /\ aliases' = {}
      /\ memAnswer' = M!Service!Value("list", res)
  BY <1>1 DEF M!ListSignedPayments, M!Shared, MemInv
<1>3. MemInv' /\ M!Table' = M!Table
  BY <1>2, PaymentsSame, MemSame DEF Client
<1>4. \A r \in Requests : M!Table[Service!PaymentKey(p, r)] = M!Payment(p, r)
  BY MemTableRows DEF MemRowsAre
<1>5. \A r : Held(p, r) => r \in Requests /\ payments[p][r] # None
  BY ZenonT(60) DEF MemInv
<1>6. \A r : r \in stored <=> Held(p, r)
  BY ZenonT(60), <1>4, <1>5 DEF M!Payment, Held
<1>7. \A r \in stored : M!Table[Service!PaymentKey(p, r)] = payments[p][r]
  BY ZenonT(60), <1>4, <1>6 DEF M!Payment, Held
<1> HIDE DEF stored
<1>8. res = {<<r, M!Table[Service!PaymentKey(p, r)]>> : r \in stored}
  <2>1. CASE p \in DOMAIN payments
    <3>1. stored = DOMAIN payments[p]
      BY ZenonT(60), <1>6, <2>1 DEF Held
    <3> QED BY ZenonT(60), <1>1, <1>7, <2>1, <3>1
  <2>2. CASE p \notin DOMAIN payments
    <3>1. stored = {}
      BY ZenonT(60), <1>6, <2>2 DEF Held
    <3> QED BY ZenonT(60), <1>1, <2>2, <3>1
  <2> QED BY ZenonT(60), <2>1, <2>2
<1>9. PICK rows : rows = M!Table
  OBVIOUS
<1>10. M!Service!Perform("list", rows, M!Service!Value("list", res))
  BY ZenonT(60), <1>2, <1>3, <1>9, MemAnswerNames, MemPerforms
<1> QED BY ZenonT(60), <1>3, <1>8, <1>9, <1>10, SameKeys DEF M!Service!List, stored

\* GC counts and removes the rows of the payments that are old.
LEMMA MemGC ==
  ASSUME MemInv, NEW t \in Times, M!GCSignedPayments(t)
  PROVE  M!Service!GC(t) /\ MemInv'
<1> DEFINE old == {pr \in Proxies \X Requests : M!Service!Old(pr[1], pr[2], t)}
           hit(k) == \E pr \in old : k = Service!PaymentKey(pr[1], pr[2])
<1>1. PICK gone : gone = [p \in Proxies |->
        IF p \in DOMAIN payments THEN {r \in DOMAIN payments[p] : M!Old(p, r, t)} ELSE {}]
  BY ZenonT(60)
<1>2. PICK rows : rows = [k \in Service!Keys |-> IF hit(k) THEN None ELSE M!Table[k]]
  BY ZenonT(60)
<1>3. PICK count : count = M!Cardinality({pr \in Proxies \X Requests : pr[2] \in gone[pr[1]]})
  OBVIOUS
<1>4. /\ payments' = M!Remove(gone) /\ UNCHANGED <<root, clients>> /\ aliases' = {}
      /\ memAnswer' = M!Service!Value("gc", count)
  BY ZenonT(60), <1>1, <1>3 DEF M!GCSignedPayments, MemInv
<1>5. MemInv' /\ \A q \in Proxies : \A s : M!Payment(q, s)' = IF s \in gone[q] THEN None ELSE M!Payment(q, s)
  BY ZenonT(60), <1>4, RemoveRows
<1>6. MemRowsAre
  BY ZenonT(60), MemTableRows
<1>7. \A p \in Proxies, r \in Requests : r \in gone[p] <=> M!Service!Old(p, r, t)
  <2> SUFFICES ASSUME NEW p \in Proxies, NEW r \in Requests
               PROVE  r \in gone[p] <=> M!Service!Old(p, r, t)
    OBVIOUS
  <2>1. M!Service!Old(p, r, t) <=> M!Payment(p, r) # None /\ M!Payment(p, r).at < t
    BY ZenonT(60), <1>6, SameKeys DEF M!Service!Old, MemRowsAre
  <2>2. r \in gone[p] <=> Held(p, r) /\ payments[p][r].at < t
    BY ZenonT(60), <1>1 DEF Held, M!Old
  <2>3. Held(p, r) => payments[p][r] # None
    BY ZenonT(60) DEF MemInv
  <2> QED BY ZenonT(60), <2>1, <2>2, <2>3 DEF M!Payment, Held
<1>8. {pr \in Proxies \X Requests : pr[2] \in gone[pr[1]]} = old
  BY ZenonT(60), <1>7
<1>9. \A p \in Proxies, r \in Requests : hit(Service!PaymentKey(p, r)) <=> r \in gone[p]
  <2> SUFFICES ASSUME NEW p \in Proxies, NEW r \in Requests
               PROVE  hit(Service!PaymentKey(p, r)) <=> r \in gone[p]
    OBVIOUS
  <2>1. hit(Service!PaymentKey(p, r)) => M!Service!Old(p, r, t)
    <3> SUFFICES ASSUME NEW pr \in old, Service!PaymentKey(p, r) = Service!PaymentKey(pr[1], pr[2])
                 PROVE  M!Service!Old(p, r, t)
      OBVIOUS
    <3>1. pr[1] = p /\ pr[2] = r
      BY DEF Service!PaymentKey
    <3> QED BY <3>1
  <2>2. M!Service!Old(p, r, t) => hit(Service!PaymentKey(p, r))
    <3> SUFFICES ASSUME M!Service!Old(p, r, t) PROVE hit(Service!PaymentKey(p, r))
      OBVIOUS
    <3>1. <<p, r>> \in Proxies \X Requests /\ <<p, r>>[1] = p /\ <<p, r>>[2] = r
      OBVIOUS
    <3>2. <<p, r>> \in old
      BY <3>1
    <3> QED BY <3>1, <3>2
  <2> HIDE DEF hit
  <2> QED BY ZenonT(60), <1>7, <2>1, <2>2
<1>10. ~hit(Service!RootKey) /\ \A p \in Proxies : ~hit(Service!ClientKey(p))
  BY KeysDiffer
<1> HIDE DEF hit
<1>11. Tabular(rows) /\ \A k \in Service!Keys : rows[k] = IF hit(k) THEN None ELSE M!Table[k]
  BY ZenonT(60), <1>2 DEF Tabular
<1>12. rows[Service!RootKey] = root'
  BY ZenonT(60), <1>4, <1>6, <1>10, <1>11, KeyKinds DEF MemRowsAre
<1>13. ASSUME NEW p \in Proxies PROVE rows[Service!ClientKey(p)] = Client(p)'
  <2>1. rows[Service!ClientKey(p)] = Client(p)
    BY ZenonT(60), <1>6, <1>10, <1>11, <1>13, KeyKinds DEF MemRowsAre
  <2> QED BY ZenonT(60), <1>4, <2>1 DEF Client
<1>14. ASSUME NEW p \in Proxies, NEW r \in Requests
       PROVE  rows[Service!PaymentKey(p, r)] = M!Payment(p, r)'
  <2>1. rows[Service!PaymentKey(p, r)] = IF r \in gone[p] THEN None ELSE M!Payment(p, r)
    BY ZenonT(60), <1>6, <1>9, <1>11, <1>14, KeyKinds DEF MemRowsAre
  <2> QED BY ZenonT(60), <1>5, <1>14, <2>1
<1>15. M!Table' = rows
  BY ZenonT(60), <1>11, <1>12, <1>13, <1>14, MemTable
<1>16. M!Service!Perform("gc", rows, M!Service!Value("gc", count))
  BY ZenonT(60), <1>4, <1>15, MemAnswerNames, MemPerforms
<1>17. M!Service!Cardinality(old) = count
  BY ZenonT(60), <1>3, <1>8 DEF M!Service!Cardinality, M!Cardinality
<1> QED BY <1>2, <1>5, <1>16, <1>17, SameKeys DEF M!Service!GC, hit

\* The caller owns its object and nothing else.
LEMMA MemCaller ==
  ASSUME MemInv, NEW v \in Values, M!CallerWrites(v)
  PROVE  MemInv' /\ UNCHANGED <<M!Table, memAnswer>>
<1>1. aliases = {} /\ aliases' = {} /\ root' = root /\ memAnswer' = memAnswer
  BY DEF M!CallerWrites, MemInv
<1>2. /\ DOMAIN clients' = DOMAIN clients /\ \A p \in DOMAIN clients : clients'[p] = clients[p]
      /\ DOMAIN payments' = DOMAIN payments
      /\ \A p \in DOMAIN payments : /\ DOMAIN payments'[p] = DOMAIN payments[p]
                                    /\ \A r \in DOMAIN payments[p] : payments'[p][r] = payments[p][r]
  BY <1>1 DEF M!CallerWrites
<1>3. \A p, r : (Held(p, r)' <=> Held(p, r)) /\ (Held(p, r) => payments'[p][r] = payments[p][r])
  BY ZenonT(60), <1>2 DEF Held
<1>4. MemInv'
  BY ZenonT(60), <1>1, <1>3 DEF MemInv
<1>5. M!Table' = M!Table
  <2>1. \A p \in Proxies : Client(p)' = Client(p)
    BY ZenonT(60), <1>2 DEF Client
  <2>2. \A p \in Proxies, r \in Requests : M!Payment(p, r)' = M!Payment(p, r)
    BY ZenonT(60), <1>3 DEF M!Payment, Held
  <2> QED BY ZenonT(60), <1>1, <2>1, <2>2, MemSame
<1> QED BY <1>1, <1>4, <1>5

\* Every step of the in-memory store is one of the interface, or none.
LEMMA MemStep ==
  ASSUME MemInv, [M!Next]_(M!vars)
  PROVE  MemInv' /\ [M!Service!StoreNext]_<<M!Table, memAnswer>>
<1>a. MemRowsAre
  BY ZenonT(60), MemTableRows
<1>b. /\ Service!RootKey \in M!Service!Keys
      /\ \A p \in Proxies : Service!ClientKey(p) \in M!Service!Keys \ {M!Service!RootKey}
      /\ \A p \in Proxies, r \in Requests :
           Service!PaymentKey(p, r) \in M!Service!Keys \ {M!Service!RootKey}
  BY ZenonT(60), KeyKinds, KeysDiffer, SameKeys
<1>c. M!Values = M!Service!Values
  BY DEF M!Values
<1>1. CASE UNCHANGED M!vars
  <2>1. UNCHANGED <<root, clients, payments, aliases, memAnswer>>
    BY ZenonT(60), <1>1 DEF M!vars
  <2>2. MemInv' /\ M!Table' = M!Table
    BY ZenonT(60), <2>1, PaymentsSame, MemSame DEF Client, MemInv
  <2> QED BY ZenonT(60), <2>1, <2>2
<1>2. ASSUME NEW k \in M!Service!Keys, M!Service!Get(k) PROVE M!Service!StoreNext
  BY ZenonT(60), <1>2 DEF M!Service!StoreNext
<1>3. ASSUME NEW k \in M!Service!Keys, NEW v \in Values, M!Service!Put(k, v) PROVE M!Service!StoreNext
  BY ZenonT(60), <1>c, <1>3, SameKeys DEF M!Service!StoreNext
<1>4. ASSUME NEW k \in M!Service!Keys \ {M!Service!RootKey}, M!Service!Delete(k) PROVE M!Service!StoreNext
  BY ZenonT(60), <1>4 DEF M!Service!StoreNext
<1>5. CASE M!GetRoot
  <2>1. PICK v : v = root
    OBVIOUS
  <2>2. PICK k \in Service!Keys : k = Service!RootKey
    BY KeyKinds
  <2>3. M!Takes(v, M!Service!RootKey) /\ M!Table[k] = v
    BY ZenonT(60), <1>a, <1>5, <2>1, <2>2 DEF M!GetRoot, MemRowsAre
  <2>4. M!Service!Get(k) /\ MemInv'
    BY ZenonT(60), <2>3, MemGet
  <2> QED BY ZenonT(60), <1>2, <2>4, SameKeys
<1>6. ASSUME NEW p \in Proxies, M!GetClientSC(p) PROVE MemInv' /\ M!Service!StoreNext
  <2>1. PICK v : v = Client(p)
    OBVIOUS
  <2>2. PICK k \in Service!Keys : k = Service!ClientKey(p)
    BY ZenonT(60), KeyKinds
  <2>3. M!Takes(v, M!Service!ClientKey(p)) /\ M!Table[k] = v
    BY ZenonT(60), <1>a, <1>6, <2>1, <2>2 DEF M!GetClientSC, Client, MemRowsAre
  <2>4. M!Service!Get(k) /\ MemInv'
    BY ZenonT(60), <2>3, MemGet
  <2> QED BY ZenonT(60), <1>2, <2>4, SameKeys
<1>7. ASSUME NEW p \in Proxies, NEW r \in Requests, M!GetSignedPayment(p, r)
      PROVE  MemInv' /\ M!Service!StoreNext
  <2>1. PICK v : v = M!Payment(p, r)
    OBVIOUS
  <2>2. PICK k \in Service!Keys : k = Service!PaymentKey(p, r)
    BY ZenonT(60), KeyKinds
  <2>3. M!Takes(v, M!Service!PaymentKey(p, r)) /\ M!Table[k] = v
    BY ZenonT(60), <1>a, <1>7, <2>1, <2>2 DEF M!GetSignedPayment, MemRowsAre
  <2>4. M!Service!Get(k) /\ MemInv'
    BY ZenonT(60), <2>3, MemGet
  <2> QED BY ZenonT(60), <1>2, <2>4, SameKeys
<1>8. ASSUME NEW v \in Values, M!PutRoot(v) PROVE MemInv' /\ M!Service!StoreNext
  BY ZenonT(60), <1>b, <1>3, <1>8, MemPutRoot
<1>9. ASSUME NEW p \in Proxies, NEW v \in Values, M!PutClientSC(p, v) PROVE MemInv' /\ M!Service!StoreNext
  BY ZenonT(60), <1>b, <1>3, <1>9, MemPutClient
<1>10. ASSUME NEW p \in Proxies, NEW r \in Requests, NEW v \in Values, M!PutSignedPayment(p, r, v)
       PROVE  MemInv' /\ M!Service!StoreNext
  BY ZenonT(60), <1>b, <1>3, <1>10, MemPutPayment
<1>11. ASSUME NEW p \in Proxies, M!DeleteClientSC(p) PROVE MemInv' /\ M!Service!StoreNext
  BY ZenonT(60), <1>b, <1>4, <1>11, MemDeleteClient
<1>12. ASSUME NEW p \in Proxies, NEW r \in Requests, M!DeleteSignedPayment(p, r)
       PROVE  MemInv' /\ M!Service!StoreNext
  BY ZenonT(60), <1>b, <1>4, <1>12, MemDeletePayment
<1>13. ASSUME NEW p \in Proxies, M!ListSignedPayments(p) PROVE MemInv' /\ M!Service!StoreNext
  BY <1>13, MemList DEF M!Service!StoreNext
<1>14. ASSUME NEW t \in Times, M!GCSignedPayments(t) PROVE MemInv' /\ M!Service!StoreNext
  BY <1>14, MemGC DEF M!Service!StoreNext
<1>15. ASSUME NEW v \in Values, M!CallerWrites(v) PROVE MemInv' /\ UNCHANGED <<M!Table, memAnswer>>
  BY ZenonT(60), <1>15, MemCaller
<1> QED BY ZenonT(60), <1>1, <1>5, <1>6, <1>7, <1>8, <1>9, <1>10, <1>11, <1>12, <1>13, <1>14, <1>15, SameKeys DEF M!Next

\* An empty store is the empty table.
LEMMA MemBegins == M!Init => MemInv /\ M!Service!StoreInit
<1> SUFFICES ASSUME M!Init PROVE MemInv /\ M!Service!StoreInit
  OBVIOUS
<1>1. root = None /\ DOMAIN clients = {} /\ DOMAIN payments = {} /\ aliases = {}
  BY DEF M!Init, M!EmptyMap
<1>2. MemInv
  BY ZenonT(60), <1>1 DEF MemInv, Held
<1>3. MemRowsAre
  BY MemTableRows
<1>4. ASSUME NEW k \in Service!Keys PROVE M!Table[k] = None
  <2>1. CASE k = Service!RootKey
    BY ZenonT(60), <1>1, <1>3, <2>1 DEF MemRowsAre
  <2>2. CASE \E p \in Proxies : k = Service!ClientKey(p)
    BY ZenonT(60), <1>1, <1>3, <2>2 DEF MemRowsAre, Client
  <2>3. CASE \E p \in Proxies, r \in Requests : k = Service!PaymentKey(p, r)
    BY <1>1, <1>3, <2>3 DEF MemRowsAre, M!Payment
  <2> QED BY ZenonT(60), <2>1, <2>2, <2>3, KeyKinds
<1>5. M!Table = [k \in Service!Keys |-> None]
  BY ZenonT(60), <1>3, <1>4 DEF MemRowsAre, Tabular
<1> QED BY ZenonT(60), <1>2, <1>5, SameKeys DEF M!Init, M!Service!StoreInit

\* The in-memory store implements store.Store, although the caller goes on
\* writing to the objects it passed in or got back.
THEOREM MemoryImplements == M!Spec => MemoryImplementsStore
<1>1. M!Init => MemInv /\ M!Service!StoreInit
  BY MemBegins
<1>2. MemInv /\ [M!Next]_(M!vars) => MemInv' /\ [M!Service!StoreNext]_<<M!Table, memAnswer>>
  BY MemStep
<1> QED BY <1>1, <1>2, PTL DEF M!Spec, MemoryImplementsStore, M!ImplementsStore, M!Service!StoreSpec
=============================================================================
