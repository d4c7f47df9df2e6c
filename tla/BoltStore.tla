------------------------------ MODULE BoltStore -----------------------------
(***************************************************************************)
(* The bbolt store (pkg/store/bbolt/bbolt.go).  External: bbolt itself, a  *)
(* file of named buckets, changed by transactions that commit as a whole   *)
(* or not at all, also when the process dies in one.                       *)
(***************************************************************************)
EXTENDS Integers, FiniteSets

CONSTANTS Proxies, Requests, Data, Times, None

VARIABLES file,     \* bucket name -> key -> encoded value, on disk
          open,     \* the database is open
          answer

vars == <<file, open, answer>>

bucketRoot == <<"root">>
bucketClients == <<"clients">>
bucketPayments == <<"payments">>

paymentBucketName(p) == <<"payments", p>>

keyRootSnap == "snapshot"

encode(v) == <<"gob", v>>
decode(b) == b[2]

\* What a bucket has under a key; a bucket that is missing has nothing.
Stored(name, key) ==
  IF name \in DOMAIN file /\ key \in DOMAIN file[name] THEN decode(file[name][key]) ELSE None

Table ==
  [k \in {<<"root">>} \cup {<<"client", p>> : p \in Proxies}
         \cup {<<"payment", p, r>> : p \in Proxies, r \in Requests} |->
     CASE k[1] = "root" -> Stored(bucketRoot, keyRootSnap)
       [] k[1] = "client" -> Stored(bucketClients, k[2])
       [] k[1] = "payment" -> Stored(paymentBucketName(k[2]), k[3])]

Service == INSTANCE StoreService WITH rows <- Table

Values == Service!Values

\* A stored object is not the absence of one.
ASSUME NoneAssumption == None \notin Values

With(f, x, v) == [y \in DOMAIN f \cup {x} |-> IF y = x THEN v ELSE f[y]]
Without(f, gone) == [y \in DOMAIN f \ gone |-> f[y]]
EmptyBucket == [x \in {} |-> None]
Bucket(f, name) == IF name \in DOMAIN f THEN f[name] ELSE EmptyBucket

Init == file = [x \in {} |-> EmptyBucket] /\ open = FALSE /\ answer = Service!Done("new")

----------------------------------------------------------------------------
\* External: db.View; it fails when the database is closed.
View(op, result) ==
  /\ answer' = IF open THEN Service!Value(op, result) ELSE Service!Failed(op)
  /\ UNCHANGED <<file, open>>

\* External: db.Update commits, fails, or dies with the process.
Update(op, new, result) ==
  \/ open /\ file' = new /\ answer' = result /\ UNCHANGED open
  \/ answer' = Service!Failed(op) /\ UNCHANGED <<file, open>>
  \/ open /\ file' \in {file, new} /\ answer' = Service!Lost(op) /\ open' = FALSE

Open ==
  /\ ~open
  /\ file' = [b \in DOMAIN file \cup {bucketRoot, bucketClients, bucketPayments} |-> Bucket(file, b)]
  /\ open' = TRUE
  /\ UNCHANGED answer

Close == open /\ open' = FALSE /\ UNCHANGED <<file, answer>>

GetRoot == View("get", Stored(bucketRoot, keyRootSnap))

PutIn(name, key, v) ==
  Update("put", With(file, name, With(Bucket(file, name), key, encode(v))), Service!Done("put"))

DeleteIn(name, key) ==
  Update("delete",
         IF name \in DOMAIN file THEN [file EXCEPT ![name] = Without(@, {key})] ELSE file,
         Service!Done("delete"))

PutRoot(v) == PutIn(bucketRoot, keyRootSnap, v)

GetClientSC(p) == View("get", Stored(bucketClients, p))

PutClientSC(p, v) == PutIn(bucketClients, p, v)

DeleteClientSC(p) == DeleteIn(bucketClients, p)

GetSignedPayment(p, r) == View("get", Stored(paymentBucketName(p), r))

PutSignedPayment(p, r, v) == PutIn(paymentBucketName(p), r, v)

DeleteSignedPayment(p, r) == DeleteIn(paymentBucketName(p), r)

ListSignedPayments(p) ==
  LET b == Bucket(file, paymentBucketName(p))
  IN  View("list", {<<r, decode(b[r])>> : r \in DOMAIN b})

\* Mutant: one transaction for every bucket, so that a crash leaves some.
GCSignedPayments_Split(t) ==
  LET old(f, p) == {r \in DOMAIN Bucket(f, paymentBucketName(p)) :
                      decode(f[paymentBucketName(p)][r]).at < t}
      only(ps) == [b \in DOMAIN file |->
                     IF \E p \in ps : b = paymentBucketName(p)
                     THEN Without(file[b], old(file, b[2])) ELSE file[b]]
      count == Cardinality({pr \in Proxies \X Requests : pr[2] \in old(file, pr[1])})
  IN  \/ Update("gc", only(Proxies), Service!Value("gc", count))
      \/ open /\ open' = FALSE /\ answer' = Service!Lost("gc")
         /\ \E ps \in SUBSET Proxies : file' = only(ps)

\* One transaction over the buckets of all proxies.
GCSignedPayments(t) ==
  LET old(p) == {r \in DOMAIN Bucket(file, paymentBucketName(p)) :
                   decode(file[paymentBucketName(p)][r]).at < t}
      new == [b \in DOMAIN file |->
                IF \E p \in Proxies : b = paymentBucketName(p)
                THEN Without(file[b], old(b[2])) ELSE file[b]]
      count == Cardinality({pr \in Proxies \X Requests : pr[2] \in old(pr[1])})
  IN  Update("gc", new, Service!Value("gc", count))

Next ==
  \/ Open \/ Close \/ GetRoot
  \/ \E v \in Values : PutRoot(v)
  \/ \E p \in Proxies :
       \/ GetClientSC(p) \/ DeleteClientSC(p) \/ ListSignedPayments(p)
       \/ \E v \in Values : PutClientSC(p, v)
       \/ \E r \in Requests :
            \/ GetSignedPayment(p, r) \/ DeleteSignedPayment(p, r)
            \/ \E v \in Values : PutSignedPayment(p, r, v)
  \/ \E t \in Times : GCSignedPayments(t)

Spec == Init /\ [][Next]_vars

----------------------------------------------------------------------------
\* Every method is the method the interface promises: payments of two
\* proxies never mix, a failed or interrupted transaction leaves nothing
\* half done, and what a crash or a Close interrupts is there on reopening.
ImplementsStore == Service!StoreSpec
=============================================================================
