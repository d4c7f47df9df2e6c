---------------------------- MODULE StoreService ----------------------------
(***************************************************************************)
(* What store.Store promises (pkg/store/store.go): a table of snapshots    *)
(* and signed payments whose every method takes effect at one moment, once *)
(* or not at all.  A call that fails changes nothing; a call whose answer  *)
(* is lost because the process died may have taken effect.                 *)
(***************************************************************************)
EXTENDS Integers, FiniteSets

CONSTANTS Proxies, Requests, Data,
          Times,       \* integers: FetchedAt, StoredAt and GC thresholds
          None         \* no row (store.ErrNotFound)

VARIABLES rows, answer

Values == [data : Data, at : Times]

RootKey == <<"root">>
ClientKey(p) == <<"client", p>>
PaymentKey(p, r) == <<"payment", p, r>>
Keys == {RootKey} \cup {ClientKey(p) : p \in Proxies}
        \cup {PaymentKey(p, r) : p \in Proxies, r \in Requests}

\* What a method answers, with its name.
Done(op) == <<op, "done">>
Failed(op) == <<op, "failed">>
Lost(op) == <<op, "lost">>
Value(op, v) == <<op, "value", v>>

Perform(op, new, result) ==
  /\ answer'[1] = op
  /\ \/ answer' = result /\ rows' = new
     \/ answer' = Failed(op) /\ rows' = rows
     \/ answer' = Lost(op) /\ rows' \in {rows, new}

Get(k) == Perform("get", rows, Value("get", rows[k]))

Put(k, v) == Perform("put", [rows EXCEPT ![k] = v], Done("put"))

Delete(k) == Perform("delete", [rows EXCEPT ![k] = None], Done("delete"))

List(p) ==
  LET stored == {r \in Requests : rows[PaymentKey(p, r)] # None}
  IN  Perform("list", rows, Value("list", {<<r, rows[PaymentKey(p, r)]>> : r \in stored}))

Old(p, r, t) == rows[PaymentKey(p, r)] # None /\ rows[PaymentKey(p, r)].at < t

GC(t) ==
  LET old == {pr \in Proxies \X Requests : Old(pr[1], pr[2], t)}
      new == [k \in Keys |->
                IF \E pr \in old : k = PaymentKey(pr[1], pr[2]) THEN None ELSE rows[k]]
  IN  Perform("gc", new, Value("gc", Cardinality(old)))

StoreInit == rows = [k \in Keys |-> None] /\ answer = Done("new")

StoreNext ==
  \/ \E k \in Keys : Get(k) \/ \E v \in Values : Put(k, v)
  \/ \E k \in Keys \ {RootKey} : Delete(k)
  \/ \E p \in Proxies : List(p)
  \/ \E t \in Times : GC(t)

StoreSpec == StoreInit /\ [][StoreNext]_<<rows, answer>>
=============================================================================
