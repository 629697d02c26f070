----------------------- MODULE SyncConfigurationProofs ------------------------
(***************************************************************************)
(* What holds of a change of backend for any number of transactions, for   *)
(* every choice of setups but iCloud, and for any number of failed calls   *)
(* unless Dropbox tokens are to be put back.                               *)
(***************************************************************************)
EXTENDS ConfiguredSync, FiniteSetTheorems, TLAPS

(* What the invariant needs of the constants: rolling back from iCloud and    *)
(* putting Dropbox tokens back after a third failure do break it (README,     *)
(* section 4).                                                                *)
Supported ==
    /\ "cloudkit" \notin InitialSetups \cup Candidates
    /\ MaxFaults <= 2 \/ "dropbox" \notin Candidates

NoCloudkit ==
    /\ stored["provider"] # "cloudkit" /\ before["provider"] # "cloudkit"
    /\ previous.values["provider"] # "cloudkit" /\ candidate # "cloudkit"

Plain == Keys \ {"backend", "dropbox"}

ValueOK(k, v) ==
    /\ k = "backend" => v \in {"off", "file", "webdav", "cloud", "cloudkit"}
    /\ k = "provider" => v \in {"selfhosted", "dropbox", "cloudkit"}
    /\ k \notin {"backend", "provider"} => v \in 0..(MaxCommits + 1)

-----------------------------------------------------------------------------
(* Stores and what is written to them *)

(* Well-typed values are a function with the right value under each key. *)
LEMMA WellTypedMeans ==
    ASSUME NEW values, NEW keys, {"backend", "provider"} \subseteq keys
    PROVE  WellTyped(values, keys) <=>
              /\ values = [k \in keys |-> values[k]]
              /\ \A k \in keys : ValueOK(k, values[k])
  BY DEF WellTyped, ValueOK

(* A write changes the keys it names and leaves the others. *)
LEMMA OverwriteIs ==
    ASSUME NEW keys, NEW values, values = [k \in keys |-> values[k]], NEW w
    PROVE  /\ Overwrite(values, w) = [k \in keys |-> Overwrite(values, w)[k]]
           /\ \A k \in keys : Overwrite(values, w)[k] = IF k \in DOMAIN w THEN w[k] ELSE values[k]
<1>1. DOMAIN values = keys
  OBVIOUS
<1> QED
  BY <1>1 DEF Overwrite

(* A well-typed write keeps stored values well typed. *)
LEMMA OverwriteTyped ==
    ASSUME NEW values, WellTyped(values, Keys), NEW w,
           \A k \in DOMAIN w : ValueOK(k, w[k])
    PROVE  /\ WellTyped(Overwrite(values, w), Keys)
           /\ \A k \in Keys : Overwrite(values, w)[k] = IF k \in DOMAIN w THEN w[k] ELSE values[k]
<1>1. {"backend", "provider"} \subseteq Keys
  BY DEF Keys
<1>2. /\ values = [k \in Keys |-> values[k]]
      /\ \A k \in Keys : ValueOK(k, values[k])
  BY <1>1, WellTypedMeans
<1> DEFINE o == Overwrite(values, w)
<1>3. /\ o = [k \in Keys |-> o[k]]
      /\ \A k \in Keys : o[k] = IF k \in DOMAIN w THEN w[k] ELSE values[k]
  BY <1>2, OverwriteIs
<1> HIDE DEF o
<1>4. \A k \in Keys : ValueOK(k, o[k])
  BY <1>2, <1>3
<1>5. WellTyped(o, Keys)
  BY <1>1, <1>3, <1>4, WellTypedMeans
<1> QED
  BY <1>3, <1>5 DEF o

(* A single write names one key. *)
LEMMA PutIs ==
    ASSUME NEW k, NEW v
    PROVE  DOMAIN Put(k, v) = {k} /\ Put(k, v)[k] = v
  BY DEF Put

(* One key written. *)
LEMMA PutTyped ==
    ASSUME NEW values, WellTyped(values, Keys), NEW k \in Keys, NEW v, ValueOK(k, v)
    PROVE  /\ WellTyped(Overwrite(values, Put(k, v)), Keys)
           /\ Overwrite(values, Put(k, v))[k] = v
           /\ \A x \in Keys \ {k} : Overwrite(values, Put(k, v))[x] = values[x]
<1>1. DOMAIN Put(k, v) = {k} /\ Put(k, v)[k] = v
  BY PutIs
<1>2. \A x \in DOMAIN Put(k, v) : ValueOK(x, Put(k, v)[x])
  BY <1>1
<1> QED
  BY <1>1, <1>2, OverwriteTyped

(* Two stores with the same backend look the same to it if they agree on the  *)
(* keys it works with.                                                        *)
LEMMA UsedSame ==
    ASSUME NEW a, NEW b, a["backend"] = b["backend"], a["provider"] = b["provider"],
           \A k \in UsedKeys(a) : a[k] = b[k]
    PROVE  Used(a) = Used(b)
<1>1. UsedKeys(a) = UsedKeys(b)
  BY Zenon DEF UsedKeys
<1>2. \A k \in UsedKeys(a) \cup {"backend"} : a[k] = b[k]
  OBVIOUS
<1> QED
  BY <1>1, <1>2 DEF Used

(* What a candidate sets, but for iCloud: new values, and the secret that the *)
(* user left as it was.                                                       *)
LEMMA NewValuesAre ==
    ASSUME NEW c \in Setups \ {"cloudkit"}, NEW n \in 0..(MaxCommits + 1), NEW values,
           \A s \in Secrets : ValueOK(s, values[s])
    PROVE  /\ DOMAIN NewValues(c, n, values) \subseteq Plain
           /\ \A k \in DOMAIN NewValues(c, n, values) :
                 /\ ValueOK(k, NewValues(c, n, values)[k])
                 /\ k = "provider" => NewValues(c, n, values)[k] # "cloudkit"
<1>1. CASE c = "file"
  <2>1. NewValues(c, n, values) = [path |-> n, bookmark |-> 0]
    BY <1>1 DEF NewValues
  <2> QED BY <2>1, ConfigurationConstants DEF ValueOK, Plain, Keys
<1>2. CASE c = "bookmark"
  <2>1. NewValues(c, n, values) = [path |-> n, bookmark |-> n]
    BY <1>2 DEF NewValues
  <2> QED BY <2>1 DEF ValueOK, Plain, Keys
<1>3. CASE c = "webdav"
  <2>1. NewValues(c, n, values) = [webdav |-> n, password |-> n]
    BY <1>3 DEF NewValues
  <2> QED BY <2>1 DEF ValueOK, Plain, Keys, Secrets
<1>4. CASE c = "webdavKeep"
  <2>1. NewValues(c, n, values) = [webdav |-> n, password |-> values["password"]]
    BY <1>4 DEF NewValues
  <2> QED BY <2>1 DEF ValueOK, Plain, Keys, Secrets
<1>5. CASE c = "selfhosted"
  <2>1. NewValues(c, n, values) = [cloud |-> n, token |-> n, provider |-> "selfhosted"]
    BY <1>5 DEF NewValues
  <2> QED BY <2>1 DEF ValueOK, Plain, Keys, Secrets
<1>6. CASE c = "selfhostedKeep"
  <2>1. NewValues(c, n, values) = [cloud |-> n, token |-> values["token"], provider |-> "selfhosted"]
    BY <1>6 DEF NewValues
  <2> QED BY <2>1 DEF ValueOK, Plain, Keys, Secrets
<1>7. CASE c = "dropbox"
  <2>1. NewValues(c, n, values) = [provider |-> "dropbox"]
    BY <1>7 DEF NewValues
  <2> QED BY <2>1 DEF ValueOK, Plain, Keys
<1> QED
  BY <1>1, <1>2, <1>3, <1>4, <1>5, <1>6, <1>7 DEF Setups

(* It depends on what there was only by the secret it carries over. *)
LEMMA NewValuesCarry ==
    ASSUME NEW c \in Setups, NEW n, NEW a, NEW b, \A s \in Carried(c) : a[s] = b[s]
    PROVE  NewValues(c, n, a) = NewValues(c, n, b)
<1>1. CASE c = "webdavKeep"
  <2>1. a["password"] = b["password"]
    BY <1>1 DEF Carried
  <2> QED BY <1>1, <2>1 DEF NewValues
<1>2. CASE c = "selfhostedKeep"
  <2>1. a["token"] = b["token"]
    BY <1>2 DEF Carried
  <2> QED BY <1>2, <2>1 DEF NewValues
<1>3. CASE c \notin {"webdavKeep", "selfhostedKeep"}
  BY <1>3 DEF NewValues, Setups
<1> QED BY <1>1, <1>2, <1>3

(* A store in which the candidate stands is the setup that has been proven.   *)
LEMMA WrittenIsProven ==
    ASSUME NEW c \in Setups \ {"cloudkit"}, NEW n, NEW old, NEW values,
           old = [k \in Keys |-> old[k]], values = [k \in Keys |-> values[k]],
           DOMAIN NewValues(c, n, old) \subseteq Plain,
           values["backend"] = BackendOf(c), c = "dropbox" => values["dropbox"] = n,
           \A k \in Plain : values[k] = IF k \in DOMAIN NewValues(c, n, old)
                                        THEN NewValues(c, n, old)[k] ELSE old[k]
    PROVE  Used(values) = ProvenSetup(c, n, old)
<1> DEFINE new == NewValues(c, n, old)
           first == Overwrite(old, new)
           last == [backend |-> BackendOf(c), dropbox |-> n]
           whole == Overwrite(first, last)
<1>1. DOMAIN last = {"backend", "dropbox"} /\ last["backend"] = BackendOf(c)
  OBVIOUS
<1>2. /\ first = [k \in Keys |-> first[k]]
      /\ \A k \in Keys : first[k] = IF k \in DOMAIN new THEN new[k] ELSE old[k]
  BY OverwriteIs
<1> HIDE DEF first, last
<1>3. \A k \in Keys : whole[k] = IF k \in DOMAIN last THEN last[k] ELSE first[k]
  BY <1>2, OverwriteIs
<1> HIDE DEF whole, new
<1>4. \A k \in Plain : whole[k] = values[k]
  BY <1>1, <1>2, <1>3 DEF new, Plain
<1>5. whole["backend"] = values["backend"]
  BY <1>1, <1>3 DEF Keys
<1>6. "provider" \in Plain
  BY DEF Plain, Keys
<1>7. c = "dropbox" => whole["dropbox"] = values["dropbox"]
  BY <1>1, <1>3 DEF Keys, last
<1>8. c # "dropbox" => "dropbox" \notin UsedKeys(values)
  <2>1. CASE c \in {"selfhosted", "selfhostedKeep"}
    <3>1. "provider" \in DOMAIN new /\ new["provider"] = "selfhosted"
      BY <2>1 DEF new, NewValues
    <3>2. values["provider"] = "selfhosted"
      BY <1>6, <3>1 DEF new
    <3> QED
      BY <3>2 DEF UsedKeys
  <2>2. CASE c \in {"file", "bookmark", "webdav", "webdavKeep"}
    <3>1. values["backend"] \in {"file", "webdav"}
      BY <2>2 DEF BackendOf
    <3> QED
      BY <3>1 DEF UsedKeys
  <2> QED BY <2>1, <2>2 DEF Setups
<1>9. UsedKeys(values) \subseteq Plain \cup {"dropbox"}
  BY DEF UsedKeys, Plain, Keys, Secrets
<1>10. \A k \in UsedKeys(values) : values[k] = whole[k]
  BY <1>4, <1>7, <1>8, <1>9
<1>11. Used(values) = Used(whole)
  BY <1>4, <1>5, <1>6, <1>10, UsedSame
<1> QED
  BY <1>11 DEF ProvenSetup, whole, first, last, new

-----------------------------------------------------------------------------
(* The calls that are still to be made *)

Writes == UNION {[ks -> {"off", "file", "webdav", "cloud", "cloudkit", "selfhosted", "dropbox"}
                        \cup 0..(MaxCommits + 1)] : ks \in SUBSET Keys}
Calls == [field : Fields, writes : Seq(Writes)]
WritesOf(calls) == UNION {Range(calls[i].writes) : i \in DOMAIN calls}

(* The writes of a list of calls are the writes of its members. *)
LEMMA WritesOfMeans ==
    ASSUME NEW calls
    PROVE  \A w : w \in WritesOf(calls) <=> \E i \in DOMAIN calls : w \in Range(calls[i].writes)
  BY Zenon DEF WritesOf

(* The tail of a sequence, element by element. *)
LEMMA TailIs ==
    ASSUME NEW S, NEW s \in Seq(S), s # <<>>
    PROVE  /\ Tail(s) \in Seq(S) /\ DOMAIN Tail(s) = 1..(Len(s) - 1)
           /\ \A i \in 1..(Len(s) - 1) : Tail(s)[i] = s[i + 1] /\ i + 1 \in DOMAIN s
           /\ Len(s) \in Nat \ {0} /\ DOMAIN s = 1..Len(s)
  OBVIOUS

(* A sequence consists of its head and its tail. *)
LEMMA TailRange ==
    ASSUME NEW S, NEW s \in Seq(S), s # <<>>
    PROVE  /\ Tail(s) \in Seq(S) /\ Head(s) \in Range(s) /\ Head(s) \in S
           /\ Range(s) = Range(Tail(s)) \cup {Head(s)}
<1>1. /\ Len(s) \in Nat \ {0} /\ Tail(s) \in Seq(S) /\ Len(Tail(s)) = Len(s) - 1
      /\ \A i \in 1..(Len(s) - 1) : Tail(s)[i] = s[i + 1]
      /\ Head(s) = s[1] /\ DOMAIN s = 1..Len(s) /\ DOMAIN Tail(s) = 1..(Len(s) - 1)
      /\ Head(s) \in S
  OBVIOUS
<1>2. Head(s) \in Range(s)
  BY <1>1 DEF Range
<1>3. Range(Tail(s)) \subseteq Range(s)
  <2> SUFFICES ASSUME NEW i \in DOMAIN Tail(s) PROVE Tail(s)[i] \in Range(s)
    BY DEF Range
  <2>1. i + 1 \in DOMAIN s /\ Tail(s)[i] = s[i + 1]
    BY <1>1
  <2> QED BY <2>1 DEF Range
<1>4. Range(s) \subseteq Range(Tail(s)) \cup {Head(s)}
  <2> SUFFICES ASSUME NEW i \in DOMAIN s, s[i] # Head(s) PROVE s[i] \in Range(Tail(s))
    BY DEF Range
  <2>1. i - 1 \in DOMAIN Tail(s) /\ Tail(s)[i - 1] = s[i]
    BY <1>1
  <2> QED BY <2>1 DEF Range
<1> QED BY <1>1, <1>2, <1>3, <1>4

(* Replacing the first element keeps a sequence one. *)
LEMMA ExceptOne ==
    ASSUME NEW S, NEW s \in Seq(S), NEW x \in S, 1 \in DOMAIN s
    PROVE  /\ [s EXCEPT ![1] = x] \in Seq(S) /\ DOMAIN [s EXCEPT ![1] = x] = DOMAIN s
           /\ [s EXCEPT ![1] = x][1] = x
  OBVIOUS

(* One write less: what is left was there before, and only that write is gone. *)
LEMMA NextCall ==
    ASSUME NEW calls \in Seq(Calls), calls # <<>>, \A i \in DOMAIN calls : calls[i].writes # <<>>,
           NEW left,
           left = IF Tail(Head(calls).writes) = <<>> THEN Tail(calls)
                  ELSE [calls EXCEPT ![1].writes = Tail(Head(calls).writes)]
    PROVE  /\ left \in Seq(Calls)
           /\ \A i \in DOMAIN left : \E j \in DOMAIN calls :
                 /\ left[i].field = calls[j].field /\ left[i].writes # <<>>
                 /\ Range(left[i].writes) \subseteq Range(calls[j].writes)
           /\ WritesOf(calls) = WritesOf(left) \cup {Head(Head(calls).writes)}
           /\ Head(Head(calls).writes) \in Range(calls[1].writes)
           /\ 1 \in DOMAIN calls /\ Head(calls) = calls[1]
<1> DEFINE call == calls[1]
           rest == Tail(call.writes)
           w1 == Head(call.writes)
<1>1. /\ Len(calls) \in Nat \ {0} /\ Head(calls) = call /\ 1 \in DOMAIN calls
      /\ DOMAIN calls = 1..Len(calls) /\ call \in Calls
  OBVIOUS
<1>2. /\ call.writes \in Seq(Writes) /\ call.writes # <<>> /\ call.field \in Fields
  BY <1>1 DEF Calls
<1>3. /\ rest \in Seq(Writes) /\ w1 \in Range(call.writes)
      /\ Range(call.writes) = Range(rest) \cup {w1}
  BY <1>2, TailRange
<1>4. left = IF rest = <<>> THEN Tail(calls) ELSE [calls EXCEPT ![1].writes = rest]
  BY <1>1
<1>5. Head(Head(calls).writes) = w1
  BY <1>1
<1> HIDE DEF call
<1>6. call = calls[1]
  BY DEF call
<1> HIDE DEF rest, w1
<1>7. CASE rest = <<>>
  <2>1. left = Tail(calls)
    BY <1>4, <1>7
  <2>2. /\ left \in Seq(Calls) /\ DOMAIN left = 1..(Len(calls) - 1)
        /\ \A i \in DOMAIN left : left[i] = calls[i + 1] /\ i + 1 \in DOMAIN calls
    BY <2>1, TailIs
  <2>3. Range(rest) = {}
    BY <1>7 DEF Range
  <2>4. WritesOf(calls) \subseteq WritesOf(left) \cup {w1}
    <3> SUFFICES ASSUME NEW i \in DOMAIN calls, NEW w \in Range(calls[i].writes),
                        w # w1
                 PROVE  w \in WritesOf(left)
      BY WritesOfMeans
    <3>1. i # 1
      BY <1>3, <1>6, <2>3
    <3>2. i - 1 \in 1..(Len(calls) - 1) /\ (i - 1) + 1 = i
      BY <1>1, <3>1
    <3>3. i - 1 \in DOMAIN left
      BY <2>2, <3>2
    <3>4. left[i - 1] = calls[(i - 1) + 1]
      BY <2>2, <3>3
    <3>5. w \in Range(left[i - 1].writes)
      BY <3>2, <3>4
    <3> QED BY <3>3, <3>5, WritesOfMeans, Zenon
  <2>5. WritesOf(left) \cup {w1} \subseteq WritesOf(calls)
    <3>1. ASSUME NEW w, NEW i \in DOMAIN left, w \in Range(left[i].writes)
          PROVE  w \in WritesOf(calls)
      <4>1. i + 1 \in DOMAIN calls /\ w \in Range(calls[i + 1].writes)
        BY <2>2, <3>1
      <4> QED BY <4>1, WritesOfMeans, Zenon
    <3>2. w1 \in WritesOf(calls)
      BY <1>1, <1>3, <1>6, WritesOfMeans, Zenon
    <3> QED BY <3>1, <3>2, WritesOfMeans, Zenon
  <2>6. \A i \in DOMAIN left : \E j \in DOMAIN calls : left[i] = calls[j]
    BY <2>2
  <2>7. \A i \in DOMAIN left : \E j \in DOMAIN calls :
                 /\ left[i].field = calls[j].field /\ left[i].writes # <<>>
                 /\ Range(left[i].writes) \subseteq Range(calls[j].writes)
    <3> TAKE i \in DOMAIN left
    <3>1. PICK j \in DOMAIN calls : left[i] = calls[j]
      BY <2>6
    <3>2. left[i].writes # <<>> /\ left[i].field = calls[j].field
          /\ Range(left[i].writes) \subseteq Range(calls[j].writes)
      BY <3>1
    <3> QED BY <3>2
  <2>8. WritesOf(calls) = WritesOf(left) \cup {w1}
    BY <2>4, <2>5, Zenon
  <2> QED
    BY <1>1, <1>3, <1>5, <1>6, <2>2, <2>7, <2>8, Zenon
<1>8. CASE rest # <<>>
  <2>1. left = [calls EXCEPT ![1].writes = rest]
    BY <1>4, <1>8
  <2>2. [call EXCEPT !.writes = rest] \in Calls
    BY <1>1, <1>3 DEF Calls
  <2>3. /\ left \in Seq(Calls) /\ DOMAIN left = DOMAIN calls
        /\ left[1].field = call.field /\ left[1].writes = rest
        /\ \A i \in DOMAIN calls : i # 1 => left[i] = calls[i]
    <3>1. PICK x : x = [call EXCEPT !.writes = rest]
      OBVIOUS
    <3>2. left = [calls EXCEPT ![1] = x] /\ x \in Calls
      BY <1>6, <2>1, <2>2, <3>1
    <3>3. call = [field |-> call.field, writes |-> call.writes]
      BY <1>1 DEF Calls
    <3>4. x.field = call.field /\ x.writes = rest
      BY <3>1, <3>3
    <3>5. left \in Seq(Calls) /\ DOMAIN left = DOMAIN calls /\ left[1] = x
      <4>1. /\ [calls EXCEPT ![1] = x] \in Seq(Calls)
            /\ DOMAIN [calls EXCEPT ![1] = x] = DOMAIN calls /\ [calls EXCEPT ![1] = x][1] = x
        BY <1>1, <3>2, ExceptOne
      <4> QED BY <3>2, <4>1
    <3> QED BY <1>1, <3>2, <3>4, <3>5
  <2>4. ASSUME NEW i \in DOMAIN left
        PROVE  \E j \in DOMAIN calls :
                 /\ left[i].field = calls[j].field /\ left[i].writes # <<>>
                 /\ Range(left[i].writes) \subseteq Range(calls[j].writes)
    <3>1. CASE i = 1
      BY <1>1, <1>3, <1>6, <1>8, <2>3, <3>1
    <3>2. CASE i # 1
      BY <2>3, <3>2
    <3> QED BY <3>1, <3>2
  <2>5. WritesOf(calls) \subseteq WritesOf(left) \cup {w1}
    <3> SUFFICES ASSUME NEW i \in DOMAIN calls, NEW w \in Range(calls[i].writes),
                        w # w1
                 PROVE  w \in WritesOf(left)
      BY WritesOfMeans
    <3>1. w \in Range(left[i].writes)
      <4>1. CASE i = 1
        <5>1. w \in Range(call.writes)
          BY <1>6, <4>1
        <5>2. w \in Range(rest)
          BY <1>3, <5>1
        <5> QED BY <2>3, <4>1, <5>2
      <4>2. CASE i # 1
        BY <2>3, <4>2
      <4> QED BY <4>1, <4>2
    <3> QED BY <2>3, <3>1, WritesOfMeans
  <2>6. WritesOf(left) \cup {w1} \subseteq WritesOf(calls)
    <3>1. WritesOf(left) \subseteq WritesOf(calls)
      <4> SUFFICES ASSUME NEW w, NEW i \in DOMAIN left, w \in Range(left[i].writes)
                   PROVE  w \in WritesOf(calls)
        BY WritesOfMeans, Zenon
      <4>1. PICK j \in DOMAIN calls : Range(left[i].writes) \subseteq Range(calls[j].writes)
        BY <2>4
      <4>2. w \in Range(calls[j].writes)
        BY <4>1
      <4> QED BY <4>2, WritesOfMeans, Zenon
    <3>2. w1 \in WritesOf(calls)
      BY <1>1, <1>3, <1>6, WritesOfMeans
    <3> QED BY <3>1, <3>2
  <2>7. WritesOf(calls) = WritesOf(left) \cup {w1}
    BY <2>5, <2>6, Zenon
  <2> QED
    BY <1>1, <1>3, <1>5, <1>6, <2>3, <2>4, <2>7, Zenon
<1> QED BY <1>7, <1>8

(* The writes of one port call cover the keys of its field.                   *)
LEMMA PortCallIs ==
    ASSUME NEW f \in Fields, NEW values, candidate # "cloudkit",
           \A k \in FieldKeys[f] : ValueOK(k, values[k])
    PROVE  /\ PortCall(f, values) \in Calls /\ PortCall(f, values).field = f
           /\ PortCall(f, values).writes # <<>>
           /\ \A w \in Range(PortCall(f, values).writes) :
                 DOMAIN w \subseteq FieldKeys[f] /\ \A k \in DOMAIN w : w[k] = values[k]
           /\ UNION {DOMAIN w : w \in Range(PortCall(f, values).writes)} = FieldKeys[f]
<1> DEFINE ws == FieldWrites(f, values)
           one(k) == Put(k, values[k])
           Seen(seq) == /\ seq \in Seq(Writes) /\ seq # <<>>
                        /\ \A w \in Range(seq) :
                             DOMAIN w \subseteq FieldKeys[f] /\ \A k \in DOMAIN w : w[k] = values[k]
                        /\ UNION {DOMAIN w : w \in Range(seq)} = FieldKeys[f]
<1>1. \A k \in FieldKeys[f] : /\ one(k) \in Writes /\ DOMAIN one(k) = {k} /\ one(k)[k] = values[k]
  <2> TAKE k \in FieldKeys[f]
  <2>1. k \in Keys
    BY DEF FieldKeys, Fields, Keys, Secrets
  <2>2. values[k] \in {"off", "file", "webdav", "cloud", "cloudkit", "selfhosted", "dropbox"}
                        \cup 0..(MaxCommits + 1)
    BY DEF ValueOK
  <2>3. one(k) = [x \in {k} |-> values[k]]
    BY DEF Put
  <2>4. {k} \in SUBSET Keys
    BY <2>1
  <2>5. one(k) \in [{k} -> {"off", "file", "webdav", "cloud", "cloudkit", "selfhosted", "dropbox"}
                            \cup 0..(MaxCommits + 1)]
    BY <2>2, <2>3
  <2>6. one(k) \in Writes
    BY <2>4, <2>5, Zenon DEF Writes
  <2> QED BY <2>3, <2>6
<1>2. \A a, b : /\ Range(<<a, b>>) = {a, b} /\ Range(<<a>>) = {a}
  BY DEF Range
<1>3. ASSUME NEW a, NEW b, FieldKeys[f] = {a, b} PROVE Seen(<<one(a), one(b)>>)
  <2>1. one(a) \in Writes /\ one(b) \in Writes
    BY <1>1, <1>3
  <2> HIDE DEF one
  <2>2. <<one(a), one(b)>> \in Seq(Writes) /\ <<one(a), one(b)>> # <<>>
    BY <2>1
  <2>3. Range(<<one(a), one(b)>>) = {one(a), one(b)}
    BY <1>2
  <2> QED BY <1>1, <1>3, <2>2, <2>3
<1>4. ASSUME NEW a, FieldKeys[f] = {a} PROVE Seen(<<one(a)>>)
  <2>1. one(a) \in Writes
    BY <1>1, <1>4
  <2> HIDE DEF one
  <2>2. <<one(a)>> \in Seq(Writes) /\ <<one(a)>> # <<>>
    BY <2>1
  <2>3. Range(<<one(a)>>) = {one(a)}
    BY <1>2
  <2> QED BY <1>1, <1>4, <2>2, <2>3
<1>5. Seen(ws)
  <2> HIDE DEF Seen, one
  <2>1. CASE f = "syncPath"
    <3>1. FieldKeys[f] = {"path", "bookmark"}
      BY <2>1 DEF FieldKeys
    <3>2. CASE values["path"] # 0 /\ values["bookmark"] # 0
      <4> DEFINE w == [path |-> values["path"], bookmark |-> values["bookmark"]]
      <4>1. ws = <<w>>
        BY <2>1, <3>2 DEF FieldWrites
      <4>2. DOMAIN w = {"path", "bookmark"} /\ w["path"] = values["path"] /\ w["bookmark"] = values["bookmark"]
        OBVIOUS
      <4>3. w \in Writes
        <5>1. /\ values["path"] \in 0..(MaxCommits + 1) /\ values["bookmark"] \in 0..(MaxCommits + 1)
          BY <3>1 DEF ValueOK
        <5>2. {"path", "bookmark"} \in SUBSET Keys
          BY DEF Keys
        <5>3. w \in [{"path", "bookmark"} ->
                       {"off", "file", "webdav", "cloud", "cloudkit", "selfhosted", "dropbox"}
                        \cup 0..(MaxCommits + 1)]
          BY <5>1
        <5> QED BY <5>2, <5>3 DEF Writes
      <4> HIDE DEF w
      <4>4. <<w>> \in Seq(Writes) /\ <<w>> # <<>>
        BY <4>3
      <4>5. Range(<<w>>) = {w}
        BY <1>2
      <4> QED BY <3>1, <4>1, <4>2, <4>4, <4>5 DEF Seen
    <3>3. CASE ~(values["path"] # 0 /\ values["bookmark"] # 0)
      <4>1. ws = <<one("path"), one("bookmark")>>
        BY <2>1, <3>3 DEF FieldWrites, one
      <4> QED BY <1>3, <3>1, <4>1
    <3> QED BY <3>2, <3>3
  <2>2. CASE f = "webdav"
    <3>1. FieldKeys[f] = {"webdav", "password"}
      BY <2>2 DEF FieldKeys
    <3>2. ws = <<one("webdav"), one("password")>>
      BY <2>2 DEF FieldWrites, one
    <3> QED BY <1>3, <3>1, <3>2
  <2>3. CASE f = "cloud"
    <3>1. FieldKeys[f] = {"cloud", "token"}
      BY <2>3 DEF FieldKeys
    <3>2. ws = <<one("cloud"), one("token")>>
      BY <2>3 DEF FieldWrites, one
    <3> QED BY <1>3, <3>1, <3>2
  <2>4. CASE f = "cloudProvider"
    <3>1. FieldKeys[f] = {"provider"}
      BY <2>4 DEF FieldKeys
    <3>2. ws = <<one("provider")>>
      BY <2>4 DEF FieldWrites, one
    <3> QED BY <1>4, <3>1, <3>2
  <2> QED BY <2>1, <2>2, <2>3, <2>4 DEF Fields
<1> HIDE DEF ws
<1>6. PortCall(f, values) = [field |-> f, writes |-> ws]
  BY DEF PortCall, ws
<1>7. ws \in Seq(Writes)
  BY <1>5
<1>8. PortCall(f, values) \in Calls
  BY <1>6, <1>7 DEF Calls
<1> QED
  BY <1>5, <1>6, <1>8

-----------------------------------------------------------------------------
(* The inductive invariant and what the calls of the port do to it *)

WritesAreCalls == pc \in {"transport", "restoring"} => writes \in Seq(Calls)

ConfigurationInv == TransactionInv /\ NoCloudkit /\ WritesAreCalls

Backends == {"off", "file", "webdav", "cloud", "cloudkit"}

(* The stored keys: each plain one belongs to one field of a candidate. *)
LEMMA KeysAre ==
    /\ Keys = Plain \cup {"backend", "dropbox"} /\ "backend" \notin Plain /\ "dropbox" \notin Plain
    /\ "provider" \in Plain /\ "webdav" \in Plain /\ Secrets \subseteq Plain
    /\ \A k \in Plain : \E f \in Fields : k \in FieldKeys[f]
    /\ \A f \in Fields : FieldKeys[f] \subseteq Plain
    /\ \A f, g \in Fields : f # g => FieldKeys[f] \cap FieldKeys[g] = {}
    /\ Secrets = {"password", "token"}
    /\ Keys \ {"dropbox"} = Plain \cup {"backend"}
<1>1. Plain = {"path", "bookmark", "webdav", "provider", "cloud", "password", "token"}
  BY DEF Plain, Keys, Secrets
<1>2. /\ FieldKeys["syncPath"] = {"path", "bookmark"} /\ FieldKeys["webdav"] = {"webdav", "password"}
      /\ FieldKeys["cloud"] = {"cloud", "token"} /\ FieldKeys["cloudProvider"] = {"provider"}
  BY DEF FieldKeys
<1>3. Keys = Plain \cup {"backend", "dropbox"} /\ Secrets = {"password", "token"}
  BY <1>1 DEF Keys, Secrets
<1>4. \A k \in Plain : \E f \in Fields : k \in FieldKeys[f]
  BY <1>1, <1>2 DEF Fields
<1>5. \A f \in Fields : FieldKeys[f] \subseteq Plain
  BY <1>1, <1>2 DEF Fields
<1>6. \A f, g \in Fields : f # g => FieldKeys[f] \cap FieldKeys[g] = {}
  BY <1>2 DEF Fields
<1> QED
  BY <1>1, <1>3, <1>4, <1>5, <1>6

(* What the invariant says of the types of stored and remembered values. *)
LEMMA StoredTyped ==
    ASSUME ConfigurationInv
    PROVE  /\ WellTyped(stored, Keys) /\ WellTyped(before, Keys)
           /\ WellTyped(previous.values, Keys \ {"dropbox"}) /\ previous.opaque \subseteq Secrets
           /\ stored = [k \in Keys |-> stored[k]] /\ before = [k \in Keys |-> before[k]]
           /\ previous.values = [k \in Keys \ {"dropbox"} |-> previous.values[k]]
           /\ \A k \in Keys : ValueOK(k, stored[k]) /\ ValueOK(k, before[k])
           /\ \A k \in Keys \ {"dropbox"} : ValueOK(k, previous.values[k])
           /\ faults \in 0..MaxFaults /\ commits \in 0..MaxCommits /\ MaxFaults \in Nat
           /\ MaxCommits \in Nat
<1>1. /\ WellTyped(stored, Keys) /\ WellTyped(before, Keys)
      /\ WellTyped(previous.values, Keys \ {"dropbox"}) /\ previous.opaque \subseteq Secrets
      /\ faults \in 0..MaxFaults /\ commits \in 0..MaxCommits
  BY DEF ConfigurationInv, TransactionInv, TypeOK
<1>2. {"backend", "provider"} \subseteq Keys \ {"dropbox"}
  BY DEF Keys
<1>3. {"backend", "provider"} \subseteq Keys
  BY <1>2
<1>4. stored = [k \in Keys |-> stored[k]] /\ \A k \in Keys : ValueOK(k, stored[k])
  BY <1>1, <1>3, WellTypedMeans
<1>5. before = [k \in Keys |-> before[k]] /\ \A k \in Keys : ValueOK(k, before[k])
  BY <1>1, <1>3, WellTypedMeans
<1>6. /\ previous.values = [k \in Keys \ {"dropbox"} |-> previous.values[k]]
      /\ \A k \in Keys \ {"dropbox"} : ValueOK(k, previous.values[k])
  BY <1>1, <1>2, WellTypedMeans
<1> QED
  BY <1>1, <1>4, <1>5, <1>6, ConfigurationConstants

(* The number of secrets a reading misses. *)
LEMMA UnreadCount ==
    ASSUME NEW unread \in SUBSET Secrets
    PROVE  Cardinality(unread) \in Nat /\ (unread # {} => Cardinality(unread) > 0)
           /\ (unread = {} => Cardinality(unread) = 0)
<1>1. IsFiniteSet(Secrets)
  <2>1. IsFiniteSet({"password", "token"})
    <3>1. IsFiniteSet({"password"})
      BY FS_Singleton
    <3>2. {"password", "token"} = {"password"} \cup {"token"}
      OBVIOUS
    <3> QED BY <3>1, <3>2, FS_AddElement
  <2> QED BY <2>1 DEF Secrets
<1>2. IsFiniteSet(unread)
  BY <1>1, FS_Subset
<1> QED
  BY <1>2, FS_CardinalityType, FS_EmptySet


(* A snapshot holds what is stored, but for the secrets it could not read. *)
LEMMA SnapshotIs ==
    ASSUME NEW unread \in SUBSET Secrets, WellTyped(stored, Keys), stored["provider"] # "cloudkit"
    PROVE  /\ WellTyped(Snapshot(unread).values, Keys \ {"dropbox"})
           /\ Snapshot(unread).opaque = unread
           /\ Snapshot(unread).values["provider"] # "cloudkit"
           /\ \A k \in (Plain \cup {"backend"}) \ unread : Snapshot(unread).values[k] = stored[k]
<1> DEFINE snap == Snapshot(unread)
           ks == Keys \ {"dropbox"}
<1>1. \A k \in Keys : ValueOK(k, stored[k])
  BY WellTypedMeans DEF Keys
<1>2. snap.opaque = unread
  BY DEF Snapshot
<1>3. snap.values = [k \in ks |-> IF k \in unread THEN 0
                     ELSE IF k = "provider" /\ stored[k] # "dropbox" THEN "selfhosted" ELSE stored[k]]
  BY Zenon DEF Snapshot
<1>4. stored["provider"] \in {"selfhosted", "dropbox"}
  BY DEF WellTyped
<1>5. unread \subseteq Plain /\ "provider" \notin unread /\ "backend" \notin unread
      /\ ks = Plain \cup {"backend"} /\ ks \subseteq Keys
  BY KeysAre
<1> HIDE DEF snap, ks
<1>6. \A k \in ks \ unread : snap.values[k] = stored[k]
  BY <1>3, <1>4
<1>7. \A k \in unread : snap.values[k] = 0
  BY <1>3, <1>5
<1>8. \A k \in ks : ValueOK(k, snap.values[k])
  <2> TAKE k \in ks
  <2>1. CASE k \in unread
    BY <1>5, <1>7, <2>1, ConfigurationConstants DEF ValueOK
  <2>2. CASE k \notin unread
    BY <1>1, <1>5, <1>6, <2>2
  <2> QED BY <2>1, <2>2
<1>9. snap.values = [k \in ks |-> snap.values[k]]
  BY <1>3
<1>10. {"backend", "provider"} \subseteq ks
  BY <1>5, KeysAre
<1>11. WellTyped(snap.values, ks)
  BY <1>8, <1>9, <1>10, WellTypedMeans
<1>12. snap.values["provider"] # "cloudkit"
  BY <1>4, <1>5, <1>6, <1>10
<1> QED
  BY <1>2, <1>5, <1>6, <1>11, <1>12 DEF snap, ks

(* Writing the backend stores it, or fails before or after it did. *)
LEMMA WriteBackendEffect ==
    ASSUME ConfigurationInv, NEW p, NEW b \in Backends, NEW done, NEW failed,
           WriteBackend(p, b, done, failed)
    PROVE  /\ pc = p /\ UNCHANGED <<transaction, writes, errors, outcome>>
           /\ WellTyped(stored, Keys)' /\ \A k \in Keys \ {"backend"} : stored'[k] = stored[k]
           /\ faults' \in 0..MaxFaults
           /\ \/ pc' = done /\ stored'["backend"] = b /\ faults' = faults
              \/ /\ pc' = failed /\ stored'["backend"] \in {b, stored["backend"]}
                 /\ faults' = faults + 1
<1> DEFINE new == Overwrite(stored, Put("backend", b))
<1>1. /\ WellTyped(stored, Keys) /\ faults \in 0..MaxFaults /\ MaxFaults \in Nat
  BY StoredTyped
<1>2. /\ WellTyped(new, Keys) /\ new["backend"] = b
      /\ \A k \in Keys \ {"backend"} : new[k] = stored[k]
  <2>1. "backend" \in Keys /\ ValueOK("backend", b)
    BY DEF Keys, ValueOK, Backends
  <2> QED BY <1>1, <2>1, PutTyped
<1> HIDE DEF new
<1>3. \/ stored' = new /\ faults' = faults /\ pc' = done
      \/ stored' \in {stored, new} /\ faults < MaxFaults /\ faults' = faults + 1 /\ pc' = failed
  BY DEF WriteBackend, WriteDone, WriteFails, Fault, To, new
<1>4. pc = p /\ UNCHANGED <<transaction, writes, errors, outcome>>
  BY DEF WriteBackend, To
<1>5. WellTyped(stored, Keys)'
  BY <1>1, <1>2, <1>3 DEF WellTyped
<1> QED
  BY <1>1, <1>2, <1>3, <1>4, <1>5

(* Reading back goes on only when the snapshot matches. *)
LEMMA ReadBackEffect ==
    ASSUME ConfigurationInv, NEW p, NEW secrets, NEW values, NEW opaque, NEW same, NEW failed,
           ReadBack(p, secrets, values, opaque, same, failed)
    PROVE  /\ pc = p /\ UNCHANGED <<transaction, writes, errors, outcome, stored>>
           /\ faults' \in 0..MaxFaults /\ faults' >= faults
           /\ \/ pc' = failed /\ faults' > faults
              \/ pc' = failed /\ ~ConfigurationMatches(Snapshot({}), values, opaque)
              \/ /\ pc' = same
                 /\ \E unread \in SUBSET Secrets :
                       ConfigurationMatches(Snapshot(unread), values, opaque)
<1>1. faults \in 0..MaxFaults /\ MaxFaults \in Nat
  BY StoredTyped
<1>2. pc = p /\ UNCHANGED <<transaction, writes, errors, outcome, stored>>
  BY DEF ReadBack, ReadFails, ReadDone, To
<1>3. CASE ReadFails /\ To(failed)
  BY <1>1, <1>2, <1>3 DEF ReadFails, Fault, To
<1>4. ASSUME NEW unread \in SUBSET Secrets, ReadDone(unread, secrets),
             To(IF ConfigurationMatches(Snapshot(unread), values, opaque) THEN same ELSE failed)
      PROVE  /\ faults' \in 0..MaxFaults /\ faults' >= faults
             /\ \/ pc' = failed /\ faults' > faults
                \/ pc' = failed /\ ~ConfigurationMatches(Snapshot({}), values, opaque)
                \/ pc' = same /\ ConfigurationMatches(Snapshot(unread), values, opaque)
  <2>1. /\ faults + Cardinality(unread) <= MaxFaults /\ faults' = faults + Cardinality(unread)
    BY <1>4 DEF ReadDone
  <2>2. pc' = IF ConfigurationMatches(Snapshot(unread), values, opaque) THEN same ELSE failed
    BY <1>4 DEF To
  <2>3. Cardinality(unread) \in Nat /\ (unread # {} => Cardinality(unread) > 0)
    BY UnreadCount
  <2>4. CASE unread = {}
    BY <1>1, <2>1, <2>2, <2>3, <2>4
  <2>5. CASE unread # {}
    BY <1>1, <2>1, <2>2, <2>3, <2>5
  <2> QED BY <2>4, <2>5
<1> QED
  BY <1>2, <1>3, <1>4 DEF ReadBack

-----------------------------------------------------------------------------
(* What most steps leave alone *)

(* The parts of the invariant a step of the transaction cannot disturb. *)
LEMMA Frame ==
    ASSUME ConfigurationInv, pc # "idle",
           UNCHANGED <<commits, candidate, previous, required, proven, before>>,
           WellTyped(stored, Keys)', stored'["provider"] # "cloudkit",
           faults' \in 0..MaxFaults, faults' >= faults, pc' \in Points, touched' \subseteq Fields,
           errors' \subseteq {"disable", "credentials", "restore"},
           outcome' \in {"none", "committed", "failed", "disabled", "crashed"}
    PROVE  TypeOK' /\ NoCloudkit' /\ SnapshotTrue' /\ BothProven'
<1>1. TypeOK'
  BY DEF ConfigurationInv, TransactionInv, TypeOK, WellTyped
<1>2. NoCloudkit'
  BY DEF ConfigurationInv, NoCloudkit
<1>3. SnapshotTrue'
  <2>1. faults \in 0..MaxFaults /\ MaxFaults \in Nat
    BY StoredTyped
  <2> QED BY <2>1 DEF ConfigurationInv, TransactionInv, SnapshotTrue
<1>4. BothProven'
  BY DEF ConfigurationInv, TransactionInv, BothProven, ProvenSetup, Used, UsedKeys
<1> QED BY <1>1, <1>2, <1>3, <1>4

(* Fields the transaction has not touched keep what they had. *)
LEMMA UntouchedFrame ==
    ASSUME ConfigurationInv, pc # "idle", UNCHANGED <<candidate, tokensBefore, before>>,
           touched \subseteq touched', \A k \in Keys \ {"backend"} : stored'[k] = stored[k]
    PROVE  UntouchedKept' /\ stored'["provider"] # "cloudkit"
<1>1. \A f \in Fields : FieldKeys[f] \subseteq Keys \ {"backend"}
  BY KeysAre
<1>2. "provider" \in Keys \ {"backend"} /\ "dropbox" \in Keys \ {"backend"}
  BY DEF Keys
<1>3. UntouchedKept
  BY DEF ConfigurationInv, TransactionInv
<1>4. \A f \in Fields \ touched' : \A k \in FieldKeys[f] : stored'[k] = before'[k]
  BY <1>1, <1>3 DEF UntouchedKept
<1>5. IF tokensBefore' = <<>> THEN stored'["dropbox"] = before'["dropbox"]
      ELSE tokensBefore' = <<before'["dropbox"]>> /\ candidate' = "dropbox"
  BY <1>2, <1>3 DEF UntouchedKept
<1> QED
  BY <1>2, <1>4, <1>5 DEF UntouchedKept, ConfigurationInv, NoCloudkit

(* The keys a provider uses are stored keys. *)
LEMMA UsedKeysAreKeys ==
    ASSUME NEW values
    PROVE  UsedKeys(values) \subseteq Keys \ {"backend"}
  BY DEF UsedKeys, Keys, Secrets

(* The flag switched off, or left as it is. *)
LEMMA ActiveFrame ==
    ASSUME ConfigurationInv, proven \subseteq proven',
           \A k \in Keys \ {"backend"} : stored'[k] = stored[k],
           stored'["backend"] \in {"off", stored["backend"]}
    PROVE  ActiveIsProven'
<1> SUFFICES ASSUME stored'["backend"] # "off" PROVE Used(stored)' \in proven'
  BY DEF ActiveIsProven
<1>1. stored'["backend"] = stored["backend"] /\ stored'["provider"] = stored["provider"]
  BY DEF Keys
<1>2. \A k \in UsedKeys(stored) : stored[k] = stored'[k]
  BY UsedKeysAreKeys
<1>3. Used(stored) = Used(stored')
  BY <1>1, <1>2, UsedSame
<1>4. Used(stored) \in proven
  BY <1>1 DEF ConfigurationInv, TransactionInv, ActiveIsProven
<1>5. Used(stored)' = Used(stored')
  BY Zenon DEF Used, UsedKeys
<1> QED
  BY <1>3, <1>4, <1>5

(* With sync off nothing active needs a proof. *)
LEMMA ActiveOff ==
    ASSUME stored'["backend"] = "off"
    PROVE  ActiveIsProven'
  BY DEF ActiveIsProven

Restoring == {"restore", "restorable", "restoring", "reactivate", "reactivated", "rolledBack"}
Committing == {"require", "disable", "disabled", "transport", "promote", "saveTokens", "promoted",
               "activate", "activated"}

(* A commit that fails goes to its rollback, with a failure to account for. *)
LEMMA ToUndo ==
    ASSUME ConfigurationInv, pc \in Committing, pc' = "undo", TypeOK',
           UNCHANGED <<previous, errors, outcome>>,
           \/ faults' > faults
           \/ faults' = faults /\ faults > 0 /\ touched' = {}
    PROVE  /\ OutcomeIsTrue' /\ OneFaultIsUndone' /\ FlagInv' /\ CandidateWritten'
           /\ RollbackInv' /\ WritesAreCalls'
<1>1. faults \in 0..MaxFaults /\ MaxFaults \in Nat /\ faults' \in 0..MaxFaults
  BY StoredTyped DEF TypeOK
<1>2. errors = {}
  BY DEF ConfigurationInv, TransactionInv, RollbackInv, Committing
<1>3. faults' > 0 /\ (faults' = 1 => touched' = {} \/ previous'.opaque = {})
  BY <1>1 DEF ConfigurationInv, TransactionInv, SnapshotTrue, Committing
<1>4. RollbackInv'
  BY <1>2, <1>3 DEF RollbackInv
<1>5. OneFaultIsUndone'
  BY <1>1 DEF ConfigurationInv, TransactionInv, OneFaultIsUndone
<1>6. OutcomeIsTrue' /\ FlagInv' /\ CandidateWritten' /\ WritesAreCalls'
  BY DEF OutcomeIsTrue, FlagInv, CandidateWritten, WritesAreCalls
<1> QED BY <1>4, <1>5, <1>6

(* A step that moves on with nothing to account for. *)
LEMMA OutcomeFrame ==
    ASSUME ConfigurationInv, pc' # "idle", outcome' \in {"none", outcome}, faults' >= faults,
           faults' \in 0..MaxFaults
    PROVE  OutcomeIsTrue' /\ OneFaultIsUndone'
<1>1. faults \in 0..MaxFaults /\ MaxFaults \in Nat
  BY StoredTyped
<1> QED
  BY <1>1 DEF ConfigurationInv, TransactionInv, OneFaultIsUndone, OutcomeIsTrue

-----------------------------------------------------------------------------
(* The initial state *)

(* A device that was never configured, or has old values, is well typed. *)
LEMMA UnsetTyped ==
    ASSUME NEW used, used \in {Unset, [Unset EXCEPT !["path"] = 1, !["webdav"] = 1,
                !["password"] = 1, !["cloud"] = 1, !["token"] = 1, !["dropbox"] = 1]}
    PROVE  WellTyped(used, Keys) /\ used["provider"] = "selfhosted"
<1>1. /\ Unset = [k \in Keys |-> Unset[k]] /\ Unset["backend"] = "off"
      /\ Unset["provider"] = "selfhosted"
      /\ \A k \in Keys \ {"backend", "provider"} : Unset[k] = 0
  BY DEF Unset, Keys, Secrets
<1>2. CASE used = Unset
  BY <1>1, <1>2, ConfigurationConstants DEF WellTyped
<1>3. CASE used = [Unset EXCEPT !["path"] = 1, !["webdav"] = 1,
                !["password"] = 1, !["cloud"] = 1, !["token"] = 1, !["dropbox"] = 1]
  <2>1. /\ used = [k \in Keys |-> used[k]] /\ used["backend"] = "off"
        /\ used["provider"] = "selfhosted"
        /\ \A k \in Keys \ {"backend", "provider"} : used[k] \in {0, 1}
    BY <1>1, <1>3 DEF Keys, Secrets
  <2> QED BY <2>1, ConfigurationConstants DEF WellTyped
<1> QED BY <1>2, <1>3

(* What a proven candidate writes is well typed. *)
LEMMA ProvenSetupTyped ==
    ASSUME NEW c \in Setups \ {"cloudkit"}, NEW n \in 0..(MaxCommits + 1), NEW used,
           WellTyped(used, Keys), used["provider"] # "cloudkit"
    PROVE  /\ DOMAIN ProvenSetup(c, n, used) \subseteq Keys
           /\ \A k \in DOMAIN ProvenSetup(c, n, used) :
                 /\ ValueOK(k, ProvenSetup(c, n, used)[k])
                 /\ k = "provider" => ProvenSetup(c, n, used)[k] # "cloudkit"
<1> DEFINE new == NewValues(c, n, used)
           first == Overwrite(used, new)
           last == [backend |-> BackendOf(c), dropbox |-> n]
           whole == Overwrite(first, last)
<1>1. \A k \in Keys : ValueOK(k, used[k])
  BY WellTypedMeans DEF Keys
<1>2. Secrets \subseteq Keys
  BY DEF Keys
<1>3. \A k \in DOMAIN new : ValueOK(k, new[k]) /\ (k = "provider" => new[k] # "cloudkit")
  BY <1>1, <1>2, NewValuesAre
<1> HIDE DEF new
<1>4. /\ WellTyped(first, Keys)
      /\ \A k \in Keys : first[k] = IF k \in DOMAIN new THEN new[k] ELSE used[k]
  BY <1>3, OverwriteTyped
<1>5. BackendOf(c) \in Backends
  BY DEF BackendOf, Backends
<1>6. DOMAIN last = {"backend", "dropbox"} /\ \A k \in DOMAIN last : ValueOK(k, last[k])
  BY <1>5 DEF ValueOK, Backends
<1> HIDE DEF first, last
<1>7. /\ WellTyped(whole, Keys)
      /\ \A k \in Keys : whole[k] = IF k \in DOMAIN last THEN last[k] ELSE first[k]
  BY <1>4, <1>6, OverwriteTyped
<1> HIDE DEF whole
<1>8. "provider" \in Keys /\ "backend" \in Keys
  BY DEF Keys
<1>9. whole["provider"] # "cloudkit"
  BY <1>3, <1>4, <1>6, <1>7, <1>8
<1>10. \A k \in Keys : ValueOK(k, whole[k])
  BY <1>7, WellTypedMeans DEF Keys
<1>11. ProvenSetup(c, n, used) = Used(whole)
  BY DEF ProvenSetup, whole, first, last, new
<1>12. /\ DOMAIN Used(whole) = UsedKeys(whole) \cup {"backend"}
       /\ \A k \in DOMAIN Used(whole) : Used(whole)[k] = whole[k]
  BY DEF Used
<1>13. DOMAIN Used(whole) \subseteq Keys
  BY <1>8, <1>12, UsedKeysAreKeys
<1> QED
  BY <1>9, <1>10, <1>11, <1>12, <1>13

(* The invariant holds of every configuration a device can start with. *)
LEMMA InitConfiguration ==
    ASSUME Supported, Init
    PROVE  ConfigurationInv
<1>1. PICK c \in InitialSetups, used \in {Unset, [Unset EXCEPT !["path"] = 1, !["webdav"] = 1,
                !["password"] = 1, !["cloud"] = 1, !["token"] = 1, !["dropbox"] = 1]} :
          stored = [Overwrite(used, ProvenSetup(c, 1, used)) EXCEPT
                       !["provider"] = IF c = "cloudkit" THEN "cloudkit" ELSE @]
  BY DEF Init
<1>2. c \in Setups \ {"cloudkit"}
  BY ConfigurationConstants DEF Supported
<1>3. WellTyped(used, Keys) /\ used["provider"] # "cloudkit"
  BY UnsetTyped
<1>4. 1 \in 0..(MaxCommits + 1)
  BY ConfigurationConstants
<1>5. PICK w : w = ProvenSetup(c, 1, used)
  OBVIOUS
<1>6. /\ DOMAIN w \subseteq Keys
      /\ \A k \in DOMAIN w : ValueOK(k, w[k]) /\ (k = "provider" => w[k] # "cloudkit")
  BY <1>2, <1>3, <1>4, <1>5, ProvenSetupTyped
<1>7. PICK o : o = Overwrite(used, w)
  OBVIOUS
<1>8. /\ WellTyped(o, Keys)
      /\ \A k \in Keys : o[k] = IF k \in DOMAIN w THEN w[k] ELSE used[k]
  BY <1>3, <1>6, <1>7, OverwriteTyped
<1>9. stored = [o EXCEPT !["provider"] = @]
  BY <1>1, <1>2, <1>5, <1>7
<1>10. o = [k \in Keys |-> o[k]]
  BY <1>8 DEF WellTyped
<1>11. stored = o
  BY <1>9, <1>10
<1>12. stored["provider"] # "cloudkit" /\ WellTyped(stored, Keys)
  BY <1>3, <1>6, <1>8, <1>11 DEF Keys
<1>13. /\ proven = {Used(stored)} /\ before = stored /\ pc = "idle" /\ commits = 0
       /\ candidate = "file" /\ outcome = "none" /\ faults = 0 /\ touched = {} /\ required = {}
       /\ errors = {} /\ previous = [values |-> [k \in Keys \ {"dropbox"} |-> Unset[k]], opaque |-> {}]
  BY DEF Init
<1>14. /\ WellTyped(previous.values, Keys \ {"dropbox"}) /\ previous.opaque = {}
       /\ previous.values["provider"] # "cloudkit"
  <2>1. WellTyped(Unset, Keys) /\ Unset["provider"] = "selfhosted"
    BY UnsetTyped
  <2>2. previous.values = [k \in Keys \ {"dropbox"} |-> Unset[k]] /\ previous.opaque = {}
    BY <1>13
  <2>3. \A k \in Keys \ {"dropbox"} : previous.values[k] = Unset[k]
    BY <2>2
  <2> QED BY <2>1, <2>2, <2>3 DEF WellTyped, Keys
<1>15. TypeOK
  BY <1>12, <1>13, <1>14, ConfigurationConstants DEF TypeOK, Points, Setups
<1>16. NoCloudkit /\ WritesAreCalls
  BY <1>12, <1>13, <1>14 DEF NoCloudkit, WritesAreCalls
<1>17. ActiveIsProven /\ OutcomeIsTrue /\ OneFaultIsUndone
  BY <1>13 DEF ActiveIsProven, OutcomeIsTrue, OneFaultIsUndone
<1>18. /\ SnapshotTrue /\ BothProven /\ UntouchedKept /\ FlagInv /\ CandidateWritten
       /\ RollbackInv
  BY <1>13 DEF SnapshotTrue, BothProven, UntouchedKept, FlagInv, CandidateWritten, RollbackInv
<1> QED
  BY <1>15, <1>16, <1>17, <1>18 DEF ConfigurationInv, TransactionInv

-----------------------------------------------------------------------------
(* The commit *)

(* Taking the snapshot starts the transaction within the invariant. *)
LEMMA BeginStep ==
    ASSUME Supported, ConfigurationInv, NEW c \in Candidates, Begin(c)
    PROVE  ConfigurationInv'
<1>1. /\ commits < MaxCommits /\ commits' = commits + 1 /\ candidate' = c /\ touched' = {}
      /\ tokensBefore' = <<>> /\ errors' = {} /\ before' = stored /\ pc = "idle"
      /\ proven' = proven \cup {ProvenSetup(c, commits + 2, stored)}
  BY DEF Begin
<1>2. c \in Setups \ {"cloudkit"}
  BY ConfigurationConstants DEF Supported
<1>3. /\ WellTyped(stored, Keys) /\ faults \in 0..MaxFaults /\ commits \in 0..MaxCommits
      /\ MaxFaults \in Nat /\ MaxCommits \in Nat /\ commits' \in 0..MaxCommits
  BY <1>1, StoredTyped
<1>4. stored' = stored /\ WellTyped(stored, Keys)' /\ WellTyped(before, Keys)'
      /\ stored["provider"] # "cloudkit"
  BY <1>1, <1>3 DEF Begin, ReadFails, ReadDone, WellTyped, ConfigurationInv, NoCloudkit
<1>5. proven \subseteq proven' /\ commits + 2 = commits' + 1
  BY <1>1, <1>3
<1>6. ActiveIsProven'
  BY <1>4, <1>5, ActiveFrame
<1>7. CASE /\ ReadFails
           /\ pc' = "idle" /\ outcome' = "failed" /\ UNCHANGED <<previous, required>>
  <2>1. faults' \in 0..MaxFaults
    BY <1>3, <1>7 DEF ReadFails, Fault
  <2>2. TypeOK'
    BY <1>1, <1>2, <1>3, <1>4, <1>7, <2>1
    DEF ConfigurationInv, TransactionInv, TypeOK, Points, WellTyped
  <2>3. NoCloudkit' /\ WritesAreCalls'
    BY <1>1, <1>2, <1>4, <1>7 DEF ConfigurationInv, NoCloudkit, WritesAreCalls
  <2>4. OutcomeIsTrue' /\ OneFaultIsUndone'
    BY <1>1, <1>4, <1>7 DEF OutcomeIsTrue, OneFaultIsUndone
  <2>5. /\ SnapshotTrue' /\ BothProven' /\ UntouchedKept' /\ FlagInv' /\ CandidateWritten'
        /\ RollbackInv'
    BY <1>7 DEF SnapshotTrue, BothProven, UntouchedKept, FlagInv, CandidateWritten, RollbackInv
  <2> QED
    BY <1>6, <2>2, <2>3, <2>4, <2>5 DEF ConfigurationInv, TransactionInv
<1>8. ASSUME NEW unread \in SUBSET Secrets, ReadDone(unread, {}), previous' = Snapshot(unread),
             required' = SecretRequirements(c, Snapshot(unread).values),
             pc' = IF required' # {} THEN "require" ELSE "disable", outcome' = "none"
      PROVE  ConfigurationInv'
  <2>1. /\ WellTyped(previous.values, Keys \ {"dropbox"})' /\ previous'.opaque = unread
        /\ previous'.values["provider"] # "cloudkit"
        /\ \A k \in (Plain \cup {"backend"}) \ unread : previous'.values[k] = stored[k]
    <3> DEFINE snap == Snapshot(unread)
    <3>1. /\ WellTyped(snap.values, Keys \ {"dropbox"}) /\ snap.opaque = unread
          /\ snap.values["provider"] # "cloudkit"
          /\ \A k \in (Plain \cup {"backend"}) \ unread : snap.values[k] = stored[k]
      BY <1>3, <1>4, SnapshotIs
    <3>2. previous' = snap
      BY <1>8
    <3> HIDE DEF snap
    <3> QED BY <3>1, <3>2 DEF WellTyped
  <2>2. faults' \in 0..MaxFaults /\ (unread # {} => faults' > 0)
    BY <1>3, <1>8, UnreadCount DEF ReadDone
  <2>3. required' \subseteq Secrets
    BY <1>8 DEF SecretRequirements, Carried, Secrets
  <2>4. pc' \in {"require", "disable"}
    BY <1>8
  <2>5. TypeOK'
    BY <1>1, <1>2, <1>3, <1>4, <1>8, <2>1, <2>2, <2>3, <2>4 DEF TypeOK, Points
  <2>6. NoCloudkit' /\ WritesAreCalls'
    BY <1>1, <1>2, <1>4, <2>1, <2>4 DEF NoCloudkit, WritesAreCalls
  <2>7. OutcomeIsTrue' /\ OneFaultIsUndone'
    BY <1>8, <2>4 DEF OutcomeIsTrue, OneFaultIsUndone
  <2>8. SnapshotTrue'
    BY <1>1, <2>1, <2>2, KeysAre DEF SnapshotTrue
  <2>9. BothProven'
    <3>1. before'["backend"] # "off" => Used(before)' \in proven'
      <4>1. stored["backend"] # "off" => Used(stored) \in proven
        BY DEF ConfigurationInv, TransactionInv, ActiveIsProven
      <4>2. Used(before)' = Used(stored)
        BY <1>1, Zenon DEF Used, UsedKeys
      <4> QED BY <1>1, <1>5, <4>1, <4>2
    <3>2. ProvenSetup(candidate, commits + 1, before)' = ProvenSetup(c, commits + 2, stored)
      <4>1. candidate' = c /\ before' = stored /\ (commits + 1)' = commits + 2
        BY <1>1, <1>5
      <4> QED BY <4>1 DEF ProvenSetup
    <3> QED BY <1>1, <3>1, <3>2 DEF BothProven
  <2>10. UntouchedKept' /\ FlagInv' /\ CandidateWritten' /\ RollbackInv'
    BY <1>1, <1>4, <2>4, KeysAre DEF UntouchedKept, FlagInv, CandidateWritten, RollbackInv
  <2> QED
    BY <1>6, <2>5, <2>6, <2>7, <2>8, <2>9, <2>10 DEF ConfigurationInv, TransactionInv
<1> QED
  BY <1>7, <1>8 DEF Begin

(* Until the flag is switched off nothing has changed. *)
LEMMA AsBefore ==
    ASSUME ConfigurationInv, pc \in {"require", "disable"}
    PROVE  \A k \in Keys : stored[k] = before[k]
<1>1. touched = {} /\ tokensBefore = <<>> /\ stored["backend"] = before["backend"]
  BY DEF ConfigurationInv, TransactionInv, FlagInv
<1>2. /\ \A f \in Fields : \A k \in FieldKeys[f] : stored[k] = before[k]
      /\ stored["dropbox"] = before["dropbox"]
  BY <1>1 DEF ConfigurationInv, TransactionInv, UntouchedKept
<1>3. \A k \in Plain : stored[k] = before[k]
  BY <1>2, KeysAre
<1> QED
  BY <1>1, <1>2, <1>3, KeysAre

(* Checking the prerequisites keeps the invariant. *)
LEMMA RequireStep ==
    ASSUME ConfigurationInv, Require
    PROVE  ConfigurationInv'
<1>1. /\ pc = "require" /\ stored' = stored
      /\ UNCHANGED <<commits, candidate, touched, tokensBefore, proven, required, before, writes, errors>>
  BY DEF Require, ReadFails, ReadDone, End, To
<1>2. /\ WellTyped(stored, Keys) /\ faults \in 0..MaxFaults /\ commits \in 0..MaxCommits
      /\ MaxFaults \in Nat /\ WellTyped(stored, Keys)' /\ WellTyped(before, Keys)'
  BY <1>1, StoredTyped DEF WellTyped
<1>3. \A k \in Keys : stored[k] = before[k]
  BY <1>1, AsBefore
<1>4. stored["provider"] # "cloudkit"
  BY DEF ConfigurationInv, NoCloudkit
<1>5. ActiveIsProven'
  BY <1>1, ActiveFrame
<1>6. touched = {} /\ tokensBefore = <<>> /\ errors = {}
  BY <1>1 DEF ConfigurationInv, TransactionInv, FlagInv, RollbackInv
<1>7. CASE ReadFails /\ End("failed") /\ UNCHANGED previous
  <2>1. faults' \in 0..MaxFaults /\ faults' >= faults /\ pc' = "idle" /\ outcome' = "failed"
    BY <1>2, <1>7 DEF ReadFails, Fault, End
  <2>2. TypeOK' /\ NoCloudkit' /\ SnapshotTrue' /\ BothProven'
    BY <1>1, <1>2, <1>4, <1>6, <1>7, <2>1, Frame DEF Points
  <2>3. OutcomeIsTrue' /\ OneFaultIsUndone' /\ WritesAreCalls'
    BY <1>1, <1>3, <2>1 DEF OutcomeIsTrue, OneFaultIsUndone, WritesAreCalls
  <2>4. UntouchedKept' /\ FlagInv' /\ CandidateWritten' /\ RollbackInv'
    BY <2>1 DEF UntouchedKept, FlagInv, CandidateWritten, RollbackInv
  <2> QED
    BY <1>5, <2>2, <2>3, <2>4 DEF ConfigurationInv, TransactionInv
<1>8. ASSUME NEW unread \in SUBSET Secrets, ReadDone(unread, required), previous' = Snapshot(unread),
             To("disable")
      PROVE  ConfigurationInv'
  <2>1. /\ WellTyped(previous.values, Keys \ {"dropbox"})' /\ previous'.opaque = unread
        /\ previous'.values["provider"] # "cloudkit"
        /\ \A k \in (Plain \cup {"backend"}) \ unread : previous'.values[k] = stored[k]
    <3> DEFINE snap == Snapshot(unread)
    <3>1. /\ WellTyped(snap.values, Keys \ {"dropbox"}) /\ snap.opaque = unread
          /\ snap.values["provider"] # "cloudkit"
          /\ \A k \in (Plain \cup {"backend"}) \ unread : snap.values[k] = stored[k]
      BY <1>2, <1>4, SnapshotIs
    <3>2. previous' = snap
      BY <1>8
    <3> HIDE DEF snap
    <3> QED BY <3>1, <3>2 DEF WellTyped
  <2>2. /\ faults' \in 0..MaxFaults /\ (unread # {} => faults' > 0) /\ faults' >= faults
        /\ pc' = "disable" /\ outcome' = outcome
    BY <1>2, <1>8, UnreadCount DEF ReadDone, To
  <2>3. TypeOK'
    BY <1>1, <1>2, <2>1, <2>2 DEF ConfigurationInv, TransactionInv, TypeOK, Points
  <2>4. NoCloudkit' /\ WritesAreCalls'
    BY <1>1, <2>1, <2>2 DEF ConfigurationInv, NoCloudkit, WritesAreCalls
  <2>5. OutcomeIsTrue' /\ OneFaultIsUndone'
    BY <2>2, OutcomeFrame
  <2>6. SnapshotTrue'
    BY <1>1, <1>3, <2>1, <2>2, KeysAre DEF SnapshotTrue
  <2>7. BothProven'
    BY <1>1 DEF ConfigurationInv, TransactionInv, BothProven, ProvenSetup, Used, UsedKeys
  <2>8. UntouchedKept'
    BY <1>1, UntouchedFrame
  <2>9. FlagInv' /\ CandidateWritten' /\ RollbackInv'
    BY <1>1, <1>6, <2>2 DEF ConfigurationInv, TransactionInv, FlagInv, CandidateWritten, RollbackInv
  <2> QED
    BY <1>5, <2>3, <2>4, <2>5, <2>6, <2>7, <2>8, <2>9 DEF ConfigurationInv, TransactionInv
<1> QED
  BY <1>7, <1>8 DEF Require

(* Switching sync off keeps the invariant. *)
LEMMA DisableStep ==
    ASSUME ConfigurationInv, Disable
    PROVE  ConfigurationInv'
<1>1. /\ pc = "disable" /\ UNCHANGED <<transaction, writes, errors, outcome>>
      /\ WellTyped(stored, Keys)' /\ \A k \in Keys \ {"backend"} : stored'[k] = stored[k]
      /\ faults' \in 0..MaxFaults
      /\ \/ pc' = "disabled" /\ stored'["backend"] = "off" /\ faults' = faults
         \/ pc' = "undo" /\ stored'["backend"] \in {"off", stored["backend"]} /\ faults' = faults + 1
  <2>1. "off" \in Backends
    BY DEF Backends
  <2> QED BY <2>1, WriteBackendEffect, Zenon DEF Disable
<1>2. faults \in 0..MaxFaults /\ MaxFaults \in Nat
  BY StoredTyped
<1>3. UntouchedKept' /\ stored'["provider"] # "cloudkit"
  BY <1>1, UntouchedFrame DEF transaction
<1>4. touched = {} /\ tokensBefore = <<>> /\ errors = {}
  BY <1>1 DEF ConfigurationInv, TransactionInv, FlagInv, RollbackInv
<1>5. TypeOK' /\ NoCloudkit' /\ SnapshotTrue' /\ BothProven'
  <2>1. /\ touched' \subseteq Fields /\ errors' \subseteq {"disable", "credentials", "restore"}
        /\ outcome' \in {"none", "committed", "failed", "disabled", "crashed"}
        /\ pc' \in Points /\ faults' >= faults
    BY <1>1, <1>2, <1>4 DEF transaction, ConfigurationInv, TransactionInv, TypeOK, Points
  <2> QED BY <1>1, <1>3, <2>1, Frame DEF transaction
<1>6. ActiveIsProven'
  BY <1>1, ActiveFrame DEF transaction
<1>7. CASE pc' = "disabled"
  <2>1. OutcomeIsTrue' /\ OneFaultIsUndone'
    BY <1>1, <1>2, <1>7, OutcomeFrame
  <2>2. FlagInv' /\ CandidateWritten' /\ RollbackInv' /\ WritesAreCalls'
    BY <1>1, <1>4, <1>7 DEF transaction, FlagInv, CandidateWritten, RollbackInv, WritesAreCalls
  <2> QED
    BY <1>3, <1>5, <1>6, <2>1, <2>2 DEF ConfigurationInv, TransactionInv
<1>8. CASE pc' = "undo"
  <2>1. faults' > faults
    BY <1>1, <1>2, <1>8
  <2>2. /\ OutcomeIsTrue' /\ OneFaultIsUndone' /\ FlagInv' /\ CandidateWritten'
        /\ RollbackInv' /\ WritesAreCalls'
    BY <1>1, <1>5, <1>8, <2>1, ToUndo DEF Committing, transaction
  <2> QED
    BY <1>3, <1>5, <1>6, <2>2 DEF ConfigurationInv, TransactionInv
<1> QED BY <1>1, <1>7, <1>8

(* Calls that write nothing but the values of their own fields. *)
CallsFor(calls, values) ==
    \A i \in DOMAIN calls :
        /\ calls[i].field \in Fields /\ calls[i].writes # <<>>
        /\ \A w \in Range(calls[i].writes) :
              DOMAIN w \subseteq FieldKeys[calls[i].field] /\ \A k \in DOMAIN w : w[k] = values[k]
KeysOf(calls) == UNION {DOMAIN w : w \in WritesOf(calls)}
CalledFields(calls) == {calls[i].field : i \in DOMAIN calls}

(* The pending fields are those the remaining writes name. *)
LEMMA PendingIs ==
    /\ Pending = KeysOf(writes) /\ \A values : PendingFor(values) <=> CallsFor(writes, values)
  BY Zenon DEF Pending, PendingWrites, KeysOf, WritesOf, PendingFor, CallsFor

(* What is to be promoted is well typed. *)
LEMMA TargetTyped ==
    ASSUME ConfigurationInv, pc # "idle"
    PROVE  /\ candidate \in Setups \ {"cloudkit"} /\ commits + 1 \in 0..(MaxCommits + 1)
           /\ DOMAIN Target \subseteq Plain
           /\ \A k \in DOMAIN Target :
                 ValueOK(k, Target[k]) /\ (k = "provider" => Target[k] # "cloudkit")
<1>1. candidate \in Setups \ {"cloudkit"}
  BY DEF ConfigurationInv, TransactionInv, TypeOK, NoCloudkit
<1>2. commits + 1 \in 0..(MaxCommits + 1) /\ \A k \in Keys : ValueOK(k, before[k])
  BY StoredTyped
<1>3. \A s \in Secrets : ValueOK(s, before[s])
  BY <1>2 DEF Keys
<1> QED
  BY <1>1, <1>2, <1>3, NewValuesAre DEF Target

(* The disabled candidate that the code compares with: the target, and what   *)
(* it read of the rest.                                                       *)
LEMMA ExpectedIs ==
    ASSUME ConfigurationInv, pc # "idle", Carried(candidate) \cap previous.opaque = {}
    PROVE  /\ \A k \in Plain : ExpectedValues[k] = IF k \in DOMAIN Target THEN Target[k]
                                                    ELSE previous.values[k]
           /\ ExpectedValues["backend"] = "off"
           /\ ExpectedValues = [k \in Plain \cup {"backend"} |-> ExpectedValues[k]]
           /\ ExpectedOpaque = previous.opaque \ DOMAIN Target
<1>1. candidate \in Setups /\ DOMAIN Target \subseteq Plain
  BY TargetTyped
<1>2. \A s \in Carried(candidate) : previous.values[s] = before[s]
  <2>1. Carried(candidate) \subseteq Secrets
    BY DEF Carried, Secrets
  <2>2. Secrets \subseteq Keys \ {"dropbox"}
    BY DEF Secrets, Keys
  <2> QED
    BY <2>1, <2>2 DEF ConfigurationInv, TransactionInv, SnapshotTrue
<1>3. NewValues(candidate, commits + 1, previous.values) = Target
  BY <1>1, <1>2, NewValuesCarry DEF Target
<1>4. previous.values = [k \in Plain \cup {"backend"} |-> previous.values[k]]
  BY StoredTyped, KeysAre
<1>9. PICK o : o = Overwrite(previous.values, Target)
  OBVIOUS
<1>10. PICK ks : ks = Plain \cup {"backend"}
  OBVIOUS
<1>11. /\ Overwrite(previous.values, Target) = [k \in ks |-> Overwrite(previous.values, Target)[k]]
       /\ \A k \in ks : Overwrite(previous.values, Target)[k] = IF k \in DOMAIN Target THEN Target[k]
                                                  ELSE previous.values[k]
  <2>1. previous.values = [k \in ks |-> previous.values[k]]
    BY <1>4, <1>10
  <2>2. DOMAIN previous.values = ks
    BY <2>1
  <2> QED BY <2>2 DEF Overwrite
<1>5. /\ o = [k \in Plain \cup {"backend"} |-> o[k]]
      /\ \A k \in Plain \cup {"backend"} : o[k] = IF k \in DOMAIN Target THEN Target[k]
                                                  ELSE previous.values[k]
  BY <1>9, <1>10, <1>11
<1>6. ExpectedValues = [o EXCEPT !["backend"] = "off"]
  BY <1>3, <1>9, Zenon DEF ExpectedValues, Disabled
<1>7. ExpectedOpaque = previous.opaque \ DOMAIN Target
  BY <1>3, Zenon DEF ExpectedOpaque
<1>8. "backend" \notin Plain
  BY KeysAre
<1> QED
  BY <1>5, <1>6, <1>7, <1>8

(* The calls of a candidate write what is to be promoted. *)
LEMMA CandidateCallsAre ==
    ASSUME ConfigurationInv, pc # "idle", Carried(candidate) \cap previous.opaque = {}
    PROVE  /\ CandidateCalls \in Seq(Calls) /\ CallsFor(CandidateCalls, Target)
           /\ KeysOf(CandidateCalls) = DOMAIN Target
<1>1. /\ candidate \in Setups \ {"cloudkit"} /\ DOMAIN Target \subseteq Plain
      /\ \A k \in DOMAIN Target : ValueOK(k, Target[k])
  BY TargetTyped
<1>2. \A k \in DOMAIN Target : ExpectedValues[k] = Target[k]
  BY <1>1, ExpectedIs
<1> DEFINE fs == FieldsOf(candidate)
           call(f) == PortCall(f, ExpectedValues)
<1>3. /\ fs \in Seq(Fields) /\ Len(fs) \in Nat /\ DOMAIN fs = 1..Len(fs)
      /\ \A k : k \in DOMAIN Target <=> \E i \in DOMAIN fs : k \in FieldKeys[fs[i]]
  <2>1. /\ FieldKeys["syncPath"] = {"path", "bookmark"} /\ FieldKeys["webdav"] = {"webdav", "password"}
        /\ FieldKeys["cloud"] = {"cloud", "token"} /\ FieldKeys["cloudProvider"] = {"provider"}
    BY DEF FieldKeys
  <2>2. CASE candidate \in {"file", "bookmark"}
    <3>1. fs = <<"syncPath">>
      BY <2>2 DEF FieldsOf, BackendOf
    <3>2. DOMAIN Target = {"path", "bookmark"}
      BY <2>2 DEF Target, NewValues
    <3> QED BY <2>1, <3>1, <3>2 DEF Fields
  <2>3. CASE candidate \in {"webdav", "webdavKeep"}
    <3>1. fs = <<"webdav">>
      BY <2>3 DEF FieldsOf, BackendOf
    <3>2. DOMAIN Target = {"webdav", "password"}
      BY <2>3 DEF Target, NewValues
    <3> QED BY <2>1, <3>1, <3>2 DEF Fields
  <2>4. CASE candidate \in {"selfhosted", "selfhostedKeep"}
    <3>1. fs = <<"cloud", "cloudProvider">>
      BY <2>4 DEF FieldsOf, BackendOf
    <3>2. DOMAIN Target = {"cloud", "token", "provider"}
      BY <2>4 DEF Target, NewValues
    <3> QED BY <2>1, <3>1, <3>2 DEF Fields
  <2>5. CASE candidate = "dropbox"
    <3>1. fs = <<"cloudProvider">>
      BY <2>5 DEF FieldsOf, BackendOf
    <3>2. DOMAIN Target = {"provider"}
      BY <2>5 DEF Target, NewValues
    <3> QED BY <2>1, <3>1, <3>2 DEF Fields
  <2> QED BY <1>1, <2>2, <2>3, <2>4, <2>5 DEF Setups
<1> HIDE DEF fs
<1>4. CandidateCalls = [i \in DOMAIN fs |-> call(fs[i])]
  BY DEF CandidateCalls, fs
<1>5. ASSUME NEW i \in DOMAIN fs
      PROVE  /\ call(fs[i]) \in Calls /\ call(fs[i]).field = fs[i] /\ call(fs[i]).writes # <<>>
             /\ \A w \in Range(call(fs[i]).writes) :
                   DOMAIN w \subseteq FieldKeys[fs[i]] /\ \A k \in DOMAIN w : w[k] = Target[k]
             /\ UNION {DOMAIN w : w \in Range(call(fs[i]).writes)} = FieldKeys[fs[i]]
  <2>1. fs[i] \in Fields
    BY <1>3
  <2>2. \A k \in FieldKeys[fs[i]] : k \in DOMAIN Target /\ ValueOK(k, ExpectedValues[k])
    BY <1>1, <1>2, <1>3
  <2>3. /\ call(fs[i]) \in Calls /\ call(fs[i]).field = fs[i] /\ call(fs[i]).writes # <<>>
        /\ \A w \in Range(call(fs[i]).writes) :
             DOMAIN w \subseteq FieldKeys[fs[i]] /\ \A k \in DOMAIN w : w[k] = ExpectedValues[k]
        /\ UNION {DOMAIN w : w \in Range(call(fs[i]).writes)} = FieldKeys[fs[i]]
    BY <1>1, <2>1, <2>2, PortCallIs
  <2> HIDE DEF call
  <2> QED BY <1>2, <2>2, <2>3
<1> HIDE DEF call
<1>6. DOMAIN CandidateCalls = DOMAIN fs /\ \A i \in DOMAIN fs : CandidateCalls[i] = call(fs[i])
  BY <1>4
<1>7. CandidateCalls \in Seq(Calls)
  BY <1>3, <1>4, <1>5
<1>8. CallsFor(CandidateCalls, Target)
  BY <1>3, <1>5, <1>6 DEF CallsFor
<1>9. ASSUME NEW k PROVE k \in KeysOf(CandidateCalls) <=> k \in DOMAIN Target
  <2>1. k \in KeysOf(CandidateCalls) <=>
          \E i \in DOMAIN fs : \E w \in Range(call(fs[i]).writes) : k \in DOMAIN w
    <3>1. \A w : w \in WritesOf(CandidateCalls) <=>
                 \E i \in DOMAIN fs : w \in Range(call(fs[i]).writes)
      BY <1>6, WritesOfMeans
    <3> QED BY <3>1, Zenon DEF KeysOf
  <2>2. \A i \in DOMAIN fs :
          (\E w \in Range(call(fs[i]).writes) : k \in DOMAIN w) <=> k \in FieldKeys[fs[i]]
    <3> TAKE i \in DOMAIN fs
    <3>1. UNION {DOMAIN w : w \in Range(call(fs[i]).writes)} = FieldKeys[fs[i]]
      BY <1>5
    <3>2. k \in UNION {DOMAIN w : w \in Range(call(fs[i]).writes)} <=>
            \E w \in Range(call(fs[i]).writes) : k \in DOMAIN w
      BY Zenon
    <3> QED BY <3>1, <3>2
  <2> QED BY <1>3, <2>1, <2>2
<1> QED
  BY <1>7, <1>8, <1>9

(* The pending fields after a step are those its writes name. *)
LEMMA PendingIsPrimed ==
    /\ Pending' = KeysOf(writes') /\ \A values : PendingFor(values)' <=> CallsFor(writes', values)
  BY Zenon DEF Pending, PendingWrites, KeysOf, WritesOf, PendingFor, CallsFor

(* The target stays while its candidate and its commit do. *)
LEMMA TargetKept ==
    ASSUME UNCHANGED <<commits, candidate, before>>
    PROVE  Target' = Target
  BY DEF Target

(* The next write of the first call: what the store holds after it, and what  *)
(* is left to write.                                                          *)
LEMMA NextWriteEffect ==
    ASSUME ConfigurationInv, pc \in {"transport", "restoring"}, writes # <<>>, NEW values,
           CallsFor(writes, values),
           \A k \in KeysOf(writes) : /\ k \in Plain /\ ValueOK(k, values[k])
                                     /\ k = "provider" => values[k] # "cloudkit",
           NEW new, new = Overwrite(stored, NextWrite),
           NEW left,
           left = IF Tail(Head(writes).writes) = <<>> THEN Tail(writes)
                  ELSE [writes EXCEPT ![1].writes = Tail(Head(writes).writes)]
    PROVE  /\ WellTyped(new, Keys) /\ new["provider"] # "cloudkit"
           /\ new["backend"] = stored["backend"] /\ new["dropbox"] = stored["dropbox"]
           /\ Head(writes).field \in Fields /\ Head(writes) = writes[1] /\ 1 \in DOMAIN writes
           /\ DOMAIN NextWrite \subseteq FieldKeys[Head(writes).field]
           /\ DOMAIN NextWrite \subseteq KeysOf(writes)
           /\ \A k \in Keys : new[k] = IF k \in DOMAIN NextWrite THEN values[k] ELSE stored[k]
           /\ left \in Seq(Calls) /\ CallsFor(left, values)
           /\ KeysOf(writes) = KeysOf(left) \cup DOMAIN NextWrite
           /\ CalledFields(left) \subseteq CalledFields(writes)
<1>1. /\ writes \in Seq(Calls) /\ \A i \in DOMAIN writes : writes[i].writes # <<>>
  BY DEF ConfigurationInv, WritesAreCalls, CallsFor
<1>2. /\ left \in Seq(Calls)
      /\ \A i \in DOMAIN left : \E j \in DOMAIN writes :
            /\ left[i].field = writes[j].field /\ left[i].writes # <<>>
            /\ Range(left[i].writes) \subseteq Range(writes[j].writes)
      /\ WritesOf(writes) = WritesOf(left) \cup {NextWrite}
      /\ NextWrite \in Range(writes[1].writes) /\ 1 \in DOMAIN writes /\ Head(writes) = writes[1]
  BY <1>1, NextCall, Zenon DEF NextWrite
<1>3. PICK w : w = NextWrite
  OBVIOUS
<1>4. /\ writes[1].field \in Fields /\ DOMAIN w \subseteq FieldKeys[writes[1].field]
      /\ \A k \in DOMAIN w : w[k] = values[k]
  BY <1>2, <1>3 DEF CallsFor
<1>5. KeysOf(writes) = KeysOf(left) \cup DOMAIN w
  <2>1. \A calls, k : k \in KeysOf(calls) <=> \E x \in WritesOf(calls) : k \in DOMAIN x
    BY Zenon DEF KeysOf
  <2>2. \A x : x \in WritesOf(writes) <=> x \in WritesOf(left) \/ x = w
    BY <1>2, <1>3, Zenon
  <2>3. \A k : k \in KeysOf(writes) <=> k \in KeysOf(left) \/ k \in DOMAIN w
    BY <2>1, <2>2, Zenon
  <2> QED BY <2>3
<1>6. \A k \in DOMAIN w : /\ k \in Plain /\ ValueOK(k, w[k]) /\ w[k] = values[k]
                          /\ k = "provider" => w[k] # "cloudkit"
  BY <1>4, <1>5
<1>7. WellTyped(stored, Keys) /\ stored["provider"] # "cloudkit"
  BY StoredTyped DEF ConfigurationInv, NoCloudkit
<1>8. /\ WellTyped(new, Keys)
      /\ \A k \in Keys : new[k] = IF k \in DOMAIN w THEN w[k] ELSE stored[k]
  BY <1>3, <1>6, <1>7, OverwriteTyped
<1>9. \A k \in Keys : new[k] = IF k \in DOMAIN w THEN values[k] ELSE stored[k]
  BY <1>6, <1>8
<1>10. /\ new["backend"] = stored["backend"] /\ new["dropbox"] = stored["dropbox"]
       /\ new["provider"] # "cloudkit"
  BY <1>6, <1>7, <1>8, KeysAre
<1>11. CallsFor(left, values)
  <2> SUFFICES ASSUME NEW i \in DOMAIN left
               PROVE  /\ left[i].field \in Fields /\ left[i].writes # <<>>
                      /\ \A x \in Range(left[i].writes) :
                            DOMAIN x \subseteq FieldKeys[left[i].field] /\ \A k \in DOMAIN x : x[k] = values[k]
    BY Zenon DEF CallsFor
  <2>1. PICK j \in DOMAIN writes :
            /\ left[i].field = writes[j].field /\ left[i].writes # <<>>
            /\ Range(left[i].writes) \subseteq Range(writes[j].writes)
    BY <1>2, Zenon
  <2>2. /\ writes[j].field \in Fields
        /\ \A x \in Range(writes[j].writes) :
             DOMAIN x \subseteq FieldKeys[writes[j].field] /\ \A k \in DOMAIN x : x[k] = values[k]
    BY Zenon DEF CallsFor
  <2> QED BY <2>1, <2>2, Zenon
<1>12. \A i \in DOMAIN left : \E j \in DOMAIN writes : left[i].field = writes[j].field
  <2> TAKE i \in DOMAIN left
  <2>1. PICK j \in DOMAIN writes :
            /\ left[i].field = writes[j].field /\ left[i].writes # <<>>
            /\ Range(left[i].writes) \subseteq Range(writes[j].writes)
    BY <1>2, Zenon
  <2>2. left[i].field = writes[j].field
    BY <2>1
  <2> QED BY <2>2, Zenon
<1>13. DOMAIN w \subseteq KeysOf(writes)
  BY <1>5
<1>14. CalledFields(left) \subseteq CalledFields(writes)
  <2> SUFFICES ASSUME NEW i \in DOMAIN left PROVE left[i].field \in CalledFields(writes)
    BY Zenon DEF CalledFields
  <2>1. PICK j \in DOMAIN writes : left[i].field = writes[j].field
    BY <1>12
  <2>2. writes[j].field \in CalledFields(writes)
    BY Zenon DEF CalledFields
  <2> QED BY <2>1, <2>2
<1> QED
  BY <1>2, <1>3, <1>4, <1>5, <1>8, <1>9, <1>10, <1>11, <1>13, <1>14, Zenon

(* With every secret read, nothing differs from before but the flag. *)
LEMMA NothingChanged ==
    ASSUME ConfigurationInv, pc = "disabled"
    PROVE  ChangedFields(Snapshot({}), Disabled(previous.values), previous.opaque) = {}
<1>1. touched = {} /\ {} \in SUBSET Secrets
  BY DEF ConfigurationInv, TransactionInv, FlagInv
<1>2. WellTyped(stored, Keys) /\ stored["provider"] # "cloudkit"
  BY StoredTyped DEF ConfigurationInv, NoCloudkit
<1>3. /\ Snapshot({}).opaque = {}
      /\ \A k \in Plain : Snapshot({}).values[k] = stored[k]
  <2>1. /\ Snapshot({}).opaque = {}
        /\ \A k \in (Plain \cup {"backend"}) \ {} : Snapshot({}).values[k] = stored[k]
    BY <1>1, <1>2, SnapshotIs
  <2> QED BY <2>1
<1>4. \A k \in Plain : Disabled(previous.values)[k] = previous.values[k]
  <2>1. previous.values = [k \in Plain \cup {"backend"} |-> previous.values[k]]
    BY StoredTyped, KeysAre
  <2> QED BY <2>1, KeysAre DEF Disabled
<1>5. \A k \in Plain : stored[k] = before[k]
  <2>1. \A f \in Fields : \A k \in FieldKeys[f] : stored[k] = before[k]
    BY <1>1 DEF ConfigurationInv, TransactionInv, UntouchedKept
  <2> QED BY <2>1, KeysAre
<1>6. \A k \in Plain : k \notin previous.opaque => previous.values[k] = before[k]
  BY KeysAre DEF ConfigurationInv, TransactionInv, SnapshotTrue
<1>7. \A k \in Plain : Matches(Snapshot({}), Disabled(previous.values), previous.opaque, k)
  BY <1>3, <1>4, <1>5, <1>6, Zenon DEF Matches
<1>8. \A f \in Fields : \A k \in FieldKeys[f] :
          Matches(Snapshot({}), Disabled(previous.values), previous.opaque, k)
  BY <1>7, KeysAre
<1> QED
  BY <1>8, Zenon DEF ChangedFields

(* Checking that sync is off keeps the invariant. *)
LEMMA VerifyDisabledStep ==
    ASSUME ConfigurationInv, VerifyDisabled
    PROVE  ConfigurationInv'
<1>1. /\ pc = "disabled" /\ UNCHANGED <<stored, errors, outcome>>
      /\ UNCHANGED <<commits, candidate, previous, tokensBefore, proven, required, before>>
  BY DEF VerifyDisabled, ReadFails, ReadDone, To
<1>2. /\ touched = {} /\ tokensBefore = <<>> /\ stored["backend"] = "off" /\ errors = {}
  BY <1>1 DEF ConfigurationInv, TransactionInv, FlagInv, RollbackInv
<1>3. /\ WellTyped(stored, Keys) /\ WellTyped(stored, Keys)' /\ faults \in 0..MaxFaults
      /\ MaxFaults \in Nat /\ stored["provider"] # "cloudkit"
  BY <1>1, StoredTyped DEF WellTyped, ConfigurationInv, NoCloudkit
<1>4. /\ faults' \in 0..MaxFaults /\ faults' >= faults /\ touched' \subseteq Fields
      /\ \/ pc' = "undo" /\ faults' > faults
         \/ pc' = "undo" /\ faults' = faults /\ faults > 0 /\ touched' = {}
         \/ /\ pc' = "transport" /\ writes' = CandidateCalls
            /\ Carried(candidate) \cap previous.opaque = {}
  <2>1. CASE ReadFails /\ To("undo") /\ UNCHANGED touched
    BY <1>2, <1>3, <2>1 DEF ReadFails, Fault, To
  <2>2. ASSUME NEW unread \in SUBSET Secrets, ReadDone(unread, required),
               NEW changed,
               changed = ChangedFields(Snapshot(unread), Disabled(previous.values), previous.opaque),
               touched' = changed,
               IF \/ stored["backend"] # "off" \/ changed # {}
                  \/ Carried(candidate) \cap previous.opaque # {}
               THEN To("undo")
               ELSE pc' = "transport" /\ writes' = CandidateCalls /\ UNCHANGED <<errors, outcome>>
        PROVE  /\ faults' \in 0..MaxFaults /\ faults' >= faults /\ touched' \subseteq Fields
               /\ \/ pc' = "undo" /\ faults' > faults
                  \/ pc' = "undo" /\ faults' = faults /\ faults > 0 /\ touched' = {}
                  \/ /\ pc' = "transport" /\ writes' = CandidateCalls
                     /\ Carried(candidate) \cap previous.opaque = {}
    <3>1. /\ faults' \in 0..MaxFaults /\ faults' >= faults /\ (unread # {} => faults' > faults)
          /\ (unread = {} => faults' = faults)
      BY <1>3, <2>2, UnreadCount DEF ReadDone
    <3>2. touched' \subseteq Fields
      BY <2>2 DEF ChangedFields
    <3>3. unread = {} => changed = {}
      BY <1>1, <2>2, NothingChanged
    <3>4. previous.opaque # {} => faults > 0
      BY <1>1 DEF ConfigurationInv, TransactionInv, SnapshotTrue
    <3>5. CASE unread # {}
      BY <2>2, <3>1, <3>2, <3>5 DEF To
    <3>6. CASE unread = {}
      BY <1>2, <2>2, <3>1, <3>2, <3>3, <3>4, <3>6 DEF To
    <3> QED BY <3>5, <3>6
  <2> QED
    BY <2>1, <2>2 DEF VerifyDisabled
<1>5. TypeOK' /\ NoCloudkit' /\ SnapshotTrue' /\ BothProven'
  <2>1. /\ errors' \subseteq {"disable", "credentials", "restore"} /\ pc' \in Points
        /\ outcome' \in {"none", "committed", "failed", "disabled", "crashed"}
    BY <1>1, <1>4 DEF ConfigurationInv, TransactionInv, TypeOK, Points
  <2> QED BY <1>1, <1>3, <1>4, <2>1, Frame
<1>6. UntouchedKept'
  BY <1>1, <1>2, UntouchedFrame
<1>7. ActiveIsProven'
  BY <1>1, <1>2, ActiveOff
<1>8. CASE pc' = "undo"
  <2>1. /\ OutcomeIsTrue' /\ OneFaultIsUndone' /\ FlagInv' /\ CandidateWritten'
        /\ RollbackInv' /\ WritesAreCalls'
    BY <1>1, <1>4, <1>5, <1>8, ToUndo DEF Committing
  <2> QED
    BY <1>5, <1>6, <1>7, <2>1 DEF ConfigurationInv, TransactionInv
<1>9. CASE pc' = "transport"
  <2>1. writes' = CandidateCalls /\ Carried(candidate) \cap previous.opaque = {}
    BY <1>4, <1>9
  <2>2. /\ writes' \in Seq(Calls) /\ CallsFor(writes', Target) /\ KeysOf(writes') = DOMAIN Target
    BY <1>1, <2>1, CandidateCallsAre
  <2>3. Target' = Target
    BY <1>1, TargetKept
  <2>4. \A k \in Plain : stored[k] = before[k]
    <3>1. \A f \in Fields : \A k \in FieldKeys[f] : stored[k] = before[k]
      BY <1>1, <1>2 DEF ConfigurationInv, TransactionInv, UntouchedKept
    <3> QED BY <3>1, KeysAre
  <2>5. Pending' = DOMAIN Target /\ PendingFor(Target)'
    <3>1. PendingFor(Target)' <=> CallsFor(writes', Target')
      BY Zenon DEF PendingFor, CallsFor
    <3> QED BY <2>2, <2>3, <3>1, PendingIsPrimed
  <2>6. CandidateWritten'
    BY <1>1, <1>2, <1>9, <2>1, <2>3, <2>4, <2>5 DEF CandidateWritten, Plain
  <2>7. OutcomeIsTrue' /\ OneFaultIsUndone'
    BY <1>1, <1>4, <1>9, OutcomeFrame
  <2>8. FlagInv' /\ RollbackInv' /\ WritesAreCalls'
    BY <1>1, <1>2, <1>9, <2>2 DEF FlagInv, RollbackInv, WritesAreCalls
  <2> QED
    BY <1>5, <1>6, <1>7, <2>6, <2>7, <2>8 DEF ConfigurationInv, TransactionInv
<1> QED BY <1>4, <1>8, <1>9

(* A write of the candidate's transport keeps the invariant. *)
LEMMA WriteTransportStep ==
    ASSUME ConfigurationInv, WriteTransport
    PROVE  ConfigurationInv'
<1>1. /\ pc = "transport" /\ writes # <<>> /\ UNCHANGED <<errors, outcome>>
      /\ UNCHANGED <<commits, candidate, previous, tokensBefore, proven, required, before>>
      /\ touched' = touched \cup {Head(writes).field}
  BY DEF WriteTransport, To
<1>2. /\ errors = {} /\ stored["backend"] = "off" /\ tokensBefore = <<>>
  BY <1>1 DEF ConfigurationInv, TransactionInv, FlagInv, RollbackInv, CandidateWritten
<1>3. /\ faults \in 0..MaxFaults /\ MaxFaults \in Nat /\ WellTyped(stored, Keys)
      /\ stored["provider"] # "cloudkit"
  BY StoredTyped DEF ConfigurationInv, NoCloudkit
<1>4. PICK new, left :
        /\ new = Overwrite(stored, NextWrite)
        /\ left = IF Tail(Head(writes).writes) = <<>> THEN Tail(writes)
                  ELSE [writes EXCEPT ![1].writes = Tail(Head(writes).writes)]
  OBVIOUS
<1>5. /\ Carried(candidate) \cap previous.opaque = {} /\ CallsFor(writes, Target)
      /\ KeysOf(writes) \subseteq DOMAIN Target
      /\ \A k \in Plain : IF k \in DOMAIN Target THEN stored[k] = Target[k] \/ k \in KeysOf(writes)
                          ELSE stored[k] = before[k]
  BY <1>1, PendingIs DEF ConfigurationInv, TransactionInv, CandidateWritten, Plain
<1>6. /\ DOMAIN Target \subseteq Plain
      /\ \A k \in DOMAIN Target : ValueOK(k, Target[k]) /\ (k = "provider" => Target[k] # "cloudkit")
  BY <1>1, TargetTyped
<1>7. /\ WellTyped(new, Keys) /\ new["provider"] # "cloudkit"
      /\ new["backend"] = stored["backend"] /\ new["dropbox"] = stored["dropbox"]
      /\ Head(writes).field \in Fields
      /\ DOMAIN NextWrite \subseteq FieldKeys[Head(writes).field]
      /\ DOMAIN NextWrite \subseteq KeysOf(writes)
      /\ \A k \in Keys : new[k] = IF k \in DOMAIN NextWrite THEN Target[k] ELSE stored[k]
      /\ left \in Seq(Calls) /\ CallsFor(left, Target)
      /\ KeysOf(writes) = KeysOf(left) \cup DOMAIN NextWrite
  <2>1. \A k \in KeysOf(writes) : /\ k \in Plain /\ ValueOK(k, Target[k])
                                  /\ k = "provider" => Target[k] # "cloudkit"
    BY <1>5, <1>6
  <2>2. pc \in {"transport", "restoring"}
    BY <1>1
  <2>3. writes # <<>> /\ CallsFor(writes, Target) /\ new = Overwrite(stored, NextWrite)
        /\ left = IF Tail(Head(writes).writes) = <<>> THEN Tail(writes)
                  ELSE [writes EXCEPT ![1].writes = Tail(Head(writes).writes)]
    BY <1>1, <1>4, <1>5
  <2> HIDE DEF ConfigurationInv
  <2> QED BY <2>1, <2>2, <2>3, NextWriteEffect
<1>8. /\ faults' \in 0..MaxFaults /\ faults' >= faults /\ stored' \in {stored, new}
      /\ \/ pc' = "transport" /\ stored' = new /\ writes' = left
         \/ pc' = "undo" /\ faults' > faults
  BY <1>1, <1>3, <1>4 DEF WriteTransport, WriteNext, WriteFails, Fault, To
<1>9. /\ WellTyped(stored, Keys)' /\ stored'["provider"] # "cloudkit" /\ stored'["backend"] = "off"
      /\ stored'["dropbox"] = stored["dropbox"]
      /\ \A k \in Keys : k \notin DOMAIN NextWrite => stored'[k] = stored[k]
  BY <1>2, <1>3, <1>7, <1>8 DEF WellTyped
<1>10. TypeOK' /\ NoCloudkit' /\ SnapshotTrue' /\ BothProven'
  <2>1. /\ errors' \subseteq {"disable", "credentials", "restore"} /\ pc' \in Points
        /\ outcome' \in {"none", "committed", "failed", "disabled", "crashed"}
        /\ touched' \subseteq Fields
    BY <1>1, <1>7, <1>8 DEF ConfigurationInv, TransactionInv, TypeOK, Points
  <2> QED BY <1>1, <1>8, <1>9, <2>1, Frame
<1>11. UntouchedKept'
  <2>1. ASSUME NEW f \in Fields \ touched', NEW k \in FieldKeys[f] PROVE stored'[k] = before'[k]
    <3>1. f # Head(writes).field /\ f \in Fields \ touched
      BY <1>1, <2>1
    <3>2. k \notin DOMAIN NextWrite /\ k \in Keys
      BY <1>7, <3>1, KeysAre
    <3>3. stored[k] = before[k]
      BY <1>1, <3>1 DEF ConfigurationInv, TransactionInv, UntouchedKept
    <3> QED BY <1>1, <1>9, <3>2, <3>3
  <2>2. stored["dropbox"] = before["dropbox"]
    BY <1>1, <1>2 DEF ConfigurationInv, TransactionInv, UntouchedKept
  <2> QED BY <1>1, <1>2, <1>9, <2>1, <2>2 DEF UntouchedKept
<1>12. ActiveIsProven'
  BY <1>9, ActiveOff
<1>13. CASE pc' = "undo"
  <2>1. /\ OutcomeIsTrue' /\ OneFaultIsUndone' /\ FlagInv' /\ CandidateWritten'
        /\ RollbackInv' /\ WritesAreCalls'
    BY <1>1, <1>8, <1>10, <1>13, ToUndo DEF Committing
  <2> QED
    BY <1>10, <1>11, <1>12, <2>1 DEF ConfigurationInv, TransactionInv
<1>14. CASE pc' = "transport"
  <2>1. stored' = new /\ writes' = left
    BY <1>8, <1>14
  <2>2. Target' = Target
    BY <1>1, TargetKept
  <2>3. Pending' = KeysOf(left) /\ PendingFor(Target)'
    <3>1. PendingFor(Target)' <=> CallsFor(writes', Target')
      BY Zenon DEF PendingFor, CallsFor
    <3> QED BY <1>7, <2>1, <2>2, <3>1, PendingIsPrimed
  <2>4. \A k \in Plain : IF k \in DOMAIN Target THEN stored'[k] = Target[k] \/ k \in KeysOf(left)
                         ELSE stored'[k] = before[k]
    <3> TAKE k \in Plain
    <3>1. k \in Keys
      BY KeysAre
    <3>2. CASE k \in DOMAIN NextWrite
      BY <1>5, <1>7, <2>1, <3>1, <3>2
    <3>3. CASE k \notin DOMAIN NextWrite
      BY <1>5, <1>7, <2>1, <3>1, <3>3
    <3> QED BY <3>2, <3>3
  <2>5. CandidateWritten'
    BY <1>1, <1>2, <1>5, <1>7, <1>14, <2>2, <2>3, <2>4 DEF CandidateWritten, Plain
  <2>6. OutcomeIsTrue' /\ OneFaultIsUndone'
    BY <1>1, <1>8, <1>14, OutcomeFrame
  <2>7. FlagInv' /\ RollbackInv' /\ WritesAreCalls'
    BY <1>1, <1>2, <1>7, <1>9, <1>14, <2>1 DEF FlagInv, RollbackInv, WritesAreCalls
  <2> QED
    BY <1>10, <1>11, <1>12, <2>5, <2>6, <2>7 DEF ConfigurationInv, TransactionInv
<1> QED BY <1>8, <1>13, <1>14

Written == {"promote", "saveTokens", "promoted", "activate", "activated", "committed"}

(* Once its last write is done, the candidate is in place but for the flag    *)
(* and for tokens.                                                            *)
LEMMA CandidateStands ==
    ASSUME ConfigurationInv, pc \in Written \/ (pc = "transport" /\ writes = <<>>)
    PROVE  /\ Carried(candidate) \cap previous.opaque = {}
           /\ \A k \in Plain : stored[k] = IF k \in DOMAIN Target THEN Target[k] ELSE before[k]
<1>1. pc = "transport" => Pending = {}
  <2> SUFFICES ASSUME writes = <<>> PROVE KeysOf(writes) = {}
    BY PendingIs DEF Written
  <2>1. WritesOf(writes) = {}
    BY WritesOfMeans
  <2> QED BY <2>1, Zenon DEF KeysOf
<1>2. /\ Carried(candidate) \cap previous.opaque = {}
      /\ \A k \in Plain :
            IF k \in DOMAIN Target
            THEN stored[k] = Target[k] \/ (pc = "transport" /\ k \in Pending)
            ELSE stored[k] = before[k]
  BY DEF ConfigurationInv, TransactionInv, CandidateWritten, Written, Plain
<1> QED BY <1>1, <1>2

(* With every secret read, it is what the code expects to read back.          *)
LEMMA CandidateMatches ==
    ASSUME ConfigurationInv,
           pc \in {"promoted", "activated"} \/ (pc = "transport" /\ writes = <<>>),
           NEW values, \A k \in Plain : values[k] = ExpectedValues[k],
           values["backend"] = stored["backend"]
    PROVE  ConfigurationMatches(Snapshot({}), values, ExpectedOpaque)
<1>1. /\ Carried(candidate) \cap previous.opaque = {} /\ pc # "idle"
      /\ \A k \in Plain : stored[k] = IF k \in DOMAIN Target THEN Target[k] ELSE before[k]
  BY CandidateStands DEF Written
<1>2. /\ \A k \in Plain : values[k] = IF k \in DOMAIN Target THEN Target[k] ELSE previous.values[k]
      /\ ExpectedOpaque = previous.opaque \ DOMAIN Target
  BY <1>1, ExpectedIs
<1>3. /\ Snapshot({}).opaque = {}
      /\ \A k \in Plain \cup {"backend"} : Snapshot({}).values[k] = stored[k]
  <2>1. WellTyped(stored, Keys) /\ stored["provider"] # "cloudkit" /\ {} \in SUBSET Secrets
    BY StoredTyped DEF ConfigurationInv, NoCloudkit
  <2>2. /\ Snapshot({}).opaque = {}
        /\ \A k \in (Plain \cup {"backend"}) \ {} : Snapshot({}).values[k] = stored[k]
    BY <2>1, SnapshotIs
  <2> QED BY <2>2
<1>4. \A k \in Plain : k \notin previous.opaque => previous.values[k] = before[k]
  BY <1>1, KeysAre DEF ConfigurationInv, TransactionInv, SnapshotTrue
<1>5. ASSUME NEW k \in Plain PROVE Matches(Snapshot({}), values, ExpectedOpaque, k)
  <2>1. CASE k \in DOMAIN Target
    BY <1>1, <1>2, <1>3, <2>1 DEF Matches
  <2>2. CASE k \notin DOMAIN Target /\ k \in previous.opaque
    BY <1>2, <2>2 DEF Matches
  <2>3. CASE k \notin DOMAIN Target /\ k \notin previous.opaque
    BY <1>1, <1>2, <1>3, <1>4, <2>3 DEF Matches
  <2> QED BY <2>1, <2>2, <2>3
<1>6. Matches(Snapshot({}), values, ExpectedOpaque, "backend")
  BY <1>3 DEF Matches
<1> QED
  BY <1>5, <1>6, KeysAre DEF ConfigurationMatches

(* A step of the commit that only reads. *)
LEMMA ReadingFrame ==
    ASSUME ConfigurationInv, pc \in Committing, UNCHANGED <<transaction, writes, errors, outcome, stored>>,
           faults' \in 0..MaxFaults, faults' >= faults, pc' \in Points
    PROVE  /\ TypeOK' /\ NoCloudkit' /\ SnapshotTrue' /\ BothProven' /\ UntouchedKept'
           /\ ActiveIsProven'
<1>1. pc # "idle"
  BY DEF Committing
<1>2. UntouchedKept' /\ stored'["provider"] # "cloudkit"
  BY <1>1, UntouchedFrame DEF transaction
<1>3. WellTyped(stored, Keys)'
  BY StoredTyped DEF WellTyped
<1>4. TypeOK' /\ NoCloudkit' /\ SnapshotTrue' /\ BothProven'
  <2>1. /\ touched' \subseteq Fields /\ errors' \subseteq {"disable", "credentials", "restore"}
        /\ outcome' \in {"none", "committed", "failed", "disabled", "crashed"}
    BY DEF transaction, ConfigurationInv, TransactionInv, TypeOK
  <2> QED BY <1>1, <1>2, <1>3, <2>1, Frame DEF transaction
<1>5. ActiveIsProven'
  BY ActiveFrame DEF transaction
<1> QED BY <1>2, <1>4, <1>5

(* Reading the transport back keeps the invariant. *)
LEMMA VerifyTransportStep ==
    ASSUME ConfigurationInv, VerifyTransport
    PROVE  ConfigurationInv'
<1>1. /\ writes = <<>> /\ pc = "transport" /\ UNCHANGED <<transaction, writes, errors, outcome, stored>>
      /\ faults' \in 0..MaxFaults /\ faults' >= faults
      /\ \/ pc' = "undo" /\ faults' > faults
         \/ pc' = "undo" /\ ~ConfigurationMatches(Snapshot({}), ExpectedValues, ExpectedOpaque)
         \/ pc' = IF candidate = "dropbox" THEN "promote" ELSE "activate"
  BY ReadBackEffect DEF VerifyTransport
<1>2. /\ errors = {} /\ stored["backend"] = "off" /\ tokensBefore = <<>>
  BY <1>1 DEF ConfigurationInv, TransactionInv, FlagInv, RollbackInv, CandidateWritten
<1>3. /\ Carried(candidate) \cap previous.opaque = {}
      /\ \A k \in Plain : stored[k] = IF k \in DOMAIN Target THEN Target[k] ELSE before[k]
  BY <1>1, CandidateStands
<1>4. ConfigurationMatches(Snapshot({}), ExpectedValues, ExpectedOpaque)
  <2>1. ExpectedValues["backend"] = stored["backend"]
    BY <1>1, <1>2, <1>3, ExpectedIs
  <2> QED BY <1>1, <2>1, CandidateMatches
<1>5. /\ TypeOK' /\ NoCloudkit' /\ SnapshotTrue' /\ BothProven' /\ UntouchedKept'
      /\ ActiveIsProven'
  BY <1>1, ReadingFrame DEF Points, Committing
<1>6. CASE pc' = "undo"
  <2>1. faults' > faults
    BY <1>1, <1>4, <1>6
  <2>2. /\ OutcomeIsTrue' /\ OneFaultIsUndone' /\ FlagInv' /\ CandidateWritten'
        /\ RollbackInv' /\ WritesAreCalls'
    BY <1>1, <1>5, <1>6, <2>1, ToUndo DEF Committing, transaction
  <2> QED
    BY <1>5, <2>2 DEF ConfigurationInv, TransactionInv
<1>7. CASE pc' = IF candidate = "dropbox" THEN "promote" ELSE "activate"
  <2>1. Target' = Target
    BY <1>1, TargetKept DEF transaction
  <2>2. CandidateWritten'
    BY <1>1, <1>2, <1>3, <1>7, <2>1 DEF CandidateWritten, transaction, Plain
  <2>3. OutcomeIsTrue' /\ OneFaultIsUndone'
    BY <1>1, <1>7, OutcomeFrame
  <2>4. FlagInv' /\ RollbackInv' /\ WritesAreCalls'
    BY <1>1, <1>2, <1>7 DEF FlagInv, RollbackInv, WritesAreCalls
  <2> QED
    BY <1>5, <2>2, <2>3, <2>4 DEF ConfigurationInv, TransactionInv
<1> QED BY <1>1, <1>4, <1>6, <1>7

(* A write of the promotion keeps the invariant. *)
LEMMA PromoteStep ==
    ASSUME ConfigurationInv, Promote
    PROVE  ConfigurationInv'
<1>1. /\ pc = "promote" /\ UNCHANGED <<stored, writes, errors, outcome>>
      /\ UNCHANGED <<commits, candidate, previous, touched, proven, required, before>>
  BY DEF Promote, ReadFails, ReadDone, To
<1>2. /\ errors = {} /\ stored["backend"] = "off" /\ tokensBefore = <<>> /\ candidate = "dropbox"
  BY <1>1 DEF ConfigurationInv, TransactionInv, FlagInv, RollbackInv, CandidateWritten
<1>3. /\ faults \in 0..MaxFaults /\ MaxFaults \in Nat /\ WellTyped(stored, Keys)'
      /\ stored'["provider"] # "cloudkit"
  BY <1>1, StoredTyped DEF WellTyped, ConfigurationInv, NoCloudkit
<1>4. /\ faults' \in 0..MaxFaults /\ faults' >= faults
      /\ \/ pc' = "undo" /\ faults' > faults /\ tokensBefore' = tokensBefore
         \/ pc' = "saveTokens" /\ tokensBefore' = <<stored["dropbox"]>>
  <2>1. Cardinality({}) = 0
    BY FS_EmptySet
  <2> QED BY <1>3, <2>1 DEF Promote, ReadFails, ReadDone, Fault, To
<1>5. TypeOK' /\ NoCloudkit' /\ SnapshotTrue' /\ BothProven'
  <2>1. /\ touched' \subseteq Fields /\ errors' \subseteq {"disable", "credentials", "restore"}
        /\ outcome' \in {"none", "committed", "failed", "disabled", "crashed"} /\ pc' \in Points
    BY <1>1, <1>4 DEF ConfigurationInv, TransactionInv, TypeOK, Points
  <2> QED BY <1>1, <1>3, <1>4, <2>1, Frame
<1>6. UntouchedKept'
  <2>1. UntouchedKept
    BY DEF ConfigurationInv, TransactionInv
  <2>2. \A f \in Fields \ touched : \A k \in FieldKeys[f] : stored[k] = before[k]
    BY <1>1, <2>1 DEF UntouchedKept
  <2>3. stored["dropbox"] = before["dropbox"]
    BY <1>1, <1>2, <2>1 DEF UntouchedKept
  <2>4. \A x : <<x>> # <<>>
    OBVIOUS
  <2> QED BY <1>1, <1>2, <1>4, <2>2, <2>3, <2>4 DEF UntouchedKept
<1>7. ActiveIsProven'
  BY <1>1, <1>2, ActiveOff
<1>8. CASE pc' = "undo"
  <2>1. faults' > faults
    BY <1>4, <1>8
  <2>2. /\ OutcomeIsTrue' /\ OneFaultIsUndone' /\ FlagInv' /\ CandidateWritten'
        /\ RollbackInv' /\ WritesAreCalls'
    BY <1>1, <1>5, <1>8, <2>1, ToUndo DEF Committing
  <2> QED
    BY <1>5, <1>6, <1>7, <2>2 DEF ConfigurationInv, TransactionInv
<1>9. CASE pc' = "saveTokens"
  <2>1. Target' = Target
    BY <1>1, TargetKept
  <2>2. tokensBefore' # <<>>
    BY <1>4, <1>9
  <2>3. /\ Carried(candidate) \cap previous.opaque = {}
        /\ \A k \in Plain : stored[k] = IF k \in DOMAIN Target THEN Target[k] ELSE before[k]
    BY <1>1, CandidateStands DEF Written
  <2>4. CandidateWritten'
    BY <1>1, <1>2, <1>9, <2>1, <2>2, <2>3 DEF CandidateWritten, Plain
  <2>5. OutcomeIsTrue' /\ OneFaultIsUndone'
    BY <1>1, <1>4, <1>9, OutcomeFrame
  <2>6. FlagInv' /\ RollbackInv' /\ WritesAreCalls'
    BY <1>1, <1>2, <1>9 DEF FlagInv, RollbackInv, WritesAreCalls
  <2> QED
    BY <1>5, <1>6, <1>7, <2>4, <2>5, <2>6 DEF ConfigurationInv, TransactionInv
<1> QED BY <1>4, <1>8, <1>9

(* A write of the Dropbox tokens changes nothing else.                        *)
LEMMA TokensWritten ==
    ASSUME ConfigurationInv, NEW v \in 0..(MaxCommits + 1),
           WriteDone(Put("dropbox", v)) \/ WriteFails(Put("dropbox", v))
    PROVE  /\ WellTyped(stored, Keys)' /\ \A k \in Keys \ {"dropbox"} : stored'[k] = stored[k]
           /\ stored'["provider"] # "cloudkit" /\ faults' \in 0..MaxFaults /\ faults' >= faults
           /\ WriteDone(Put("dropbox", v)) => stored'["dropbox"] = v /\ faults' = faults
           /\ WriteFails(Put("dropbox", v)) => faults' = faults + 1
           /\ faults \in 0..MaxFaults /\ MaxFaults \in Nat
<1>1. WellTyped(stored, Keys) /\ faults \in 0..MaxFaults /\ MaxFaults \in Nat
  BY StoredTyped
<1>2. PICK new : new = Overwrite(stored, Put("dropbox", v))
  OBVIOUS
<1>3. /\ WellTyped(new, Keys) /\ new["dropbox"] = v
      /\ \A k \in Keys \ {"dropbox"} : new[k] = stored[k]
  <2>1. "dropbox" \in Keys /\ ValueOK("dropbox", v)
    BY DEF Keys, ValueOK
  <2> QED BY <1>1, <1>2, <2>1, PutTyped
<1>4. /\ WriteDone(Put("dropbox", v)) => stored' = new /\ faults' = faults
      /\ WriteFails(Put("dropbox", v)) =>
            stored' \in {stored, new} /\ faults < MaxFaults /\ faults' = faults + 1
  BY <1>2 DEF WriteDone, WriteFails, Fault
<1>5. stored' \in {stored, new}
  BY <1>4
<1>6. WellTyped(stored, Keys)'
  BY <1>1, <1>3, <1>5 DEF WellTyped
<1>7. stored'["provider"] # "cloudkit"
  BY <1>3, <1>5 DEF ConfigurationInv, NoCloudkit, Keys
<1> QED BY <1>1, <1>3, <1>4, <1>5, <1>6, <1>7

(* Saving Dropbox tokens keeps the invariant. *)
LEMMA SaveTokensStep ==
    ASSUME ConfigurationInv, SaveTokens
    PROVE  ConfigurationInv'
<1>1. /\ pc = "saveTokens" /\ UNCHANGED <<transaction, writes, errors, outcome>>
      /\ \/ WriteDone(Put("dropbox", commits + 1)) /\ pc' = "promoted"
         \/ WriteFails(Put("dropbox", commits + 1)) /\ pc' = "undo"
  BY DEF SaveTokens, To
<1>2. /\ errors = {} /\ stored["backend"] = "off" /\ tokensBefore # <<>> /\ candidate = "dropbox"
  BY <1>1 DEF ConfigurationInv, TransactionInv, FlagInv, RollbackInv, CandidateWritten
<1>3. commits + 1 \in 0..(MaxCommits + 1)
  BY StoredTyped
<1>4. /\ WellTyped(stored, Keys)' /\ \A k \in Keys \ {"dropbox"} : stored'[k] = stored[k]
      /\ stored'["provider"] # "cloudkit" /\ faults' \in 0..MaxFaults /\ faults' >= faults
      /\ faults \in 0..MaxFaults /\ MaxFaults \in Nat
      /\ \/ pc' = "promoted" /\ stored'["dropbox"] = commits + 1
         \/ pc' = "undo" /\ faults' = faults + 1
  BY <1>1, <1>3, TokensWritten
<1>5. TypeOK' /\ NoCloudkit' /\ SnapshotTrue' /\ BothProven'
  <2>1. /\ touched' \subseteq Fields /\ errors' \subseteq {"disable", "credentials", "restore"}
        /\ outcome' \in {"none", "committed", "failed", "disabled", "crashed"} /\ pc' \in Points
    BY <1>1, <1>4 DEF transaction, ConfigurationInv, TransactionInv, TypeOK, Points
  <2> QED BY <1>1, <1>4, <2>1, Frame DEF transaction
<1>6. UntouchedKept'
  <2>1. UntouchedKept
    BY DEF ConfigurationInv, TransactionInv
  <2>2. \A f \in Fields \ touched : \A k \in FieldKeys[f] : stored'[k] = before[k]
    <3>1. \A f \in Fields : FieldKeys[f] \subseteq Keys \ {"dropbox"}
      BY KeysAre
    <3> QED BY <1>1, <1>4, <2>1, <3>1 DEF UntouchedKept
  <2>3. tokensBefore = <<before["dropbox"]>>
    BY <1>1, <1>2, <2>1 DEF UntouchedKept
  <2> QED BY <1>1, <1>2, <2>2, <2>3 DEF UntouchedKept, transaction
<1>7. stored'["backend"] = "off" /\ ActiveIsProven'
  BY <1>2, <1>4, ActiveOff DEF Keys
<1>8. CASE pc' = "undo"
  <2>1. faults' > faults
    BY <1>4, <1>8
  <2>2. /\ OutcomeIsTrue' /\ OneFaultIsUndone' /\ FlagInv' /\ CandidateWritten'
        /\ RollbackInv' /\ WritesAreCalls'
    BY <1>1, <1>5, <1>8, <2>1, ToUndo DEF Committing, transaction
  <2> QED
    BY <1>5, <1>6, <1>7, <2>2 DEF ConfigurationInv, TransactionInv
<1>9. CASE pc' = "promoted"
  <2>1. Target' = Target
    BY <1>1, TargetKept DEF transaction
  <2>2. stored'["dropbox"] = commits + 1
    BY <1>4, <1>9
  <2>3. /\ Carried(candidate) \cap previous.opaque = {}
        /\ \A k \in Plain : stored'[k] = IF k \in DOMAIN Target THEN Target[k] ELSE before[k]
    BY <1>1, <1>4, CandidateStands, KeysAre DEF Written
  <2>4. CandidateWritten'
    BY <1>1, <1>2, <1>9, <2>1, <2>2, <2>3 DEF CandidateWritten, transaction, Plain
  <2>5. OutcomeIsTrue' /\ OneFaultIsUndone'
    BY <1>1, <1>4, <1>9, OutcomeFrame
  <2>6. FlagInv' /\ RollbackInv' /\ WritesAreCalls'
    BY <1>1, <1>2, <1>7, <1>9 DEF FlagInv, RollbackInv, WritesAreCalls
  <2> QED
    BY <1>5, <1>6, <1>7, <2>4, <2>5, <2>6 DEF ConfigurationInv, TransactionInv
<1> QED BY <1>4, <1>8, <1>9

(* Reading the promoted values back keeps the invariant. *)
LEMMA VerifyPromotedStep ==
    ASSUME ConfigurationInv, VerifyPromoted
    PROVE  ConfigurationInv'
<1>1. /\ pc = "promoted" /\ UNCHANGED <<transaction, writes, errors, outcome, stored>>
      /\ faults' \in 0..MaxFaults /\ faults' >= faults
      /\ \/ pc' = "undo" /\ faults' > faults
         \/ pc' = "undo" /\ ~ConfigurationMatches(Snapshot({}), ExpectedValues, ExpectedOpaque)
         \/ pc' = "activate"
  BY ReadBackEffect DEF VerifyPromoted
<1>2. /\ errors = {} /\ stored["backend"] = "off" /\ candidate = "dropbox"
      /\ stored["dropbox"] = commits + 1 /\ tokensBefore # <<>>
  BY <1>1 DEF ConfigurationInv, TransactionInv, FlagInv, RollbackInv, CandidateWritten
<1>3. /\ Carried(candidate) \cap previous.opaque = {}
      /\ \A k \in Plain : stored[k] = IF k \in DOMAIN Target THEN Target[k] ELSE before[k]
  BY <1>1, CandidateStands DEF Written
<1>4. ConfigurationMatches(Snapshot({}), ExpectedValues, ExpectedOpaque)
  <2>1. ExpectedValues["backend"] = stored["backend"]
    BY <1>1, <1>2, <1>3, ExpectedIs
  <2> QED BY <1>1, <2>1, CandidateMatches
<1>5. /\ TypeOK' /\ NoCloudkit' /\ SnapshotTrue' /\ BothProven' /\ UntouchedKept'
      /\ ActiveIsProven'
  BY <1>1, ReadingFrame DEF Points, Committing
<1>6. CASE pc' = "undo"
  <2>1. faults' > faults
    BY <1>1, <1>4, <1>6
  <2>2. /\ OutcomeIsTrue' /\ OneFaultIsUndone' /\ FlagInv' /\ CandidateWritten'
        /\ RollbackInv' /\ WritesAreCalls'
    BY <1>1, <1>5, <1>6, <2>1, ToUndo DEF Committing, transaction
  <2> QED
    BY <1>5, <2>2 DEF ConfigurationInv, TransactionInv
<1>7. CASE pc' = "activate"
  <2>1. Target' = Target
    BY <1>1, TargetKept DEF transaction
  <2>2. CandidateWritten'
    BY <1>1, <1>2, <1>3, <1>7, <2>1 DEF CandidateWritten, transaction, Plain
  <2>3. OutcomeIsTrue' /\ OneFaultIsUndone'
    BY <1>1, <1>7, OutcomeFrame
  <2>4. FlagInv' /\ RollbackInv' /\ WritesAreCalls'
    BY <1>1, <1>2, <1>7 DEF FlagInv, RollbackInv, WritesAreCalls
  <2> QED
    BY <1>5, <2>2, <2>3, <2>4 DEF ConfigurationInv, TransactionInv
<1> QED BY <1>1, <1>4, <1>6, <1>7

(* With the flag on its backend, the candidate is a setup that was proven. *)
LEMMA CandidateIsProven ==
    ASSUME ConfigurationInv, pc \in {"activate", "activated", "committed"},
           NEW values, values = [k \in Keys |-> values[k]],
           values["backend"] = BackendOf(candidate),
           \A k \in Keys \ {"backend"} : values[k] = stored[k]
    PROVE  Used(values) \in proven
<1>1. /\ candidate \in Setups \ {"cloudkit"} /\ DOMAIN Target \subseteq Plain /\ pc # "idle"
  BY TargetTyped
<1>2. \A k \in Plain : values[k] = IF k \in DOMAIN Target THEN Target[k] ELSE before[k]
  <2>1. \A k \in Plain : stored[k] = IF k \in DOMAIN Target THEN Target[k] ELSE before[k]
    BY CandidateStands DEF Written
  <2> QED BY <2>1, KeysAre
<1>3. candidate = "dropbox" => values["dropbox"] = commits + 1
  <2>1. candidate = "dropbox" => stored["dropbox"] = commits + 1
    BY DEF ConfigurationInv, TransactionInv, CandidateWritten
  <2> QED BY <2>1 DEF Keys
<1>4. before = [k \in Keys |-> before[k]]
  BY StoredTyped
<1>5. Used(values) = ProvenSetup(candidate, commits + 1, before)
  BY <1>1, <1>2, <1>3, <1>4, WrittenIsProven DEF Target
<1>6. ProvenSetup(candidate, commits + 1, before) \in proven
  BY <1>1 DEF ConfigurationInv, TransactionInv, BothProven
<1> QED BY <1>5, <1>6

(* Activating the proven backend keeps the invariant. *)
LEMMA ActivateStep ==
    ASSUME ConfigurationInv, Activate
    PROVE  ConfigurationInv'
<1> DEFINE b == BackendOf(candidate)
<1>1. b \in Backends
  BY DEF BackendOf, Backends
<1>2. /\ pc = "activate" /\ UNCHANGED <<transaction, writes, errors, outcome>>
      /\ WellTyped(stored, Keys)' /\ \A k \in Keys \ {"backend"} : stored'[k] = stored[k]
      /\ faults' \in 0..MaxFaults
      /\ \/ pc' = "activated" /\ stored'["backend"] = b /\ faults' = faults
         \/ pc' = "undo" /\ stored'["backend"] \in {b, stored["backend"]} /\ faults' = faults + 1
  <2> HIDE DEF b
  <2>1. WriteBackend("activate", b, "activated", "undo")
    BY Zenon DEF Activate, b
  <2> QED BY <1>1, <2>1, WriteBackendEffect, Zenon
<1>3. /\ errors = {} /\ stored["backend"] = "off" /\ faults \in 0..MaxFaults /\ MaxFaults \in Nat
  BY <1>2, StoredTyped DEF ConfigurationInv, TransactionInv, FlagInv, RollbackInv
<1>4. UntouchedKept' /\ stored'["provider"] # "cloudkit"
  BY <1>2, UntouchedFrame DEF transaction
<1>5. TypeOK' /\ NoCloudkit' /\ SnapshotTrue' /\ BothProven'
  <2>1. /\ touched' \subseteq Fields /\ errors' \subseteq {"disable", "credentials", "restore"}
        /\ outcome' \in {"none", "committed", "failed", "disabled", "crashed"}
        /\ pc' \in Points /\ faults' >= faults
    BY <1>2, <1>3 DEF transaction, ConfigurationInv, TransactionInv, TypeOK, Points
  <2> QED BY <1>2, <1>4, <2>1, Frame DEF transaction
<1>6. ActiveIsProven'
  <2>1. CASE stored'["backend"] = "off"
    BY <2>1, ActiveOff
  <2>2. CASE stored'["backend"] = b
    <3>1. stored' = [k \in Keys |-> stored'[k]]
      BY <1>2 DEF WellTyped
    <3>2. PICK values : values = stored'
      OBVIOUS
    <3>3. Used(values) \in proven
      BY <1>2, <2>2, <3>1, <3>2, CandidateIsProven
    <3>4. Used(stored)' = Used(values)
      BY <3>2, Zenon DEF Used, UsedKeys
    <3> QED BY <1>2, <3>3, <3>4 DEF ActiveIsProven, transaction
  <2> QED BY <1>2, <1>3, <2>1, <2>2
<1>7. CASE pc' = "undo"
  <2>1. faults' > faults
    BY <1>2, <1>3, <1>7
  <2>2. /\ OutcomeIsTrue' /\ OneFaultIsUndone' /\ FlagInv' /\ CandidateWritten'
        /\ RollbackInv' /\ WritesAreCalls'
    BY <1>2, <1>5, <1>7, <2>1, ToUndo DEF Committing, transaction
  <2> QED
    BY <1>4, <1>5, <1>6, <2>2 DEF ConfigurationInv, TransactionInv
<1>8. CASE pc' = "activated"
  <2>1. Target' = Target
    BY <1>2, TargetKept DEF transaction
  <2>2. /\ Carried(candidate) \cap previous.opaque = {}
        /\ \A k \in Plain : stored'[k] = IF k \in DOMAIN Target THEN Target[k] ELSE before[k]
    BY <1>2, CandidateStands, KeysAre DEF Written
  <2>3. IF candidate = "dropbox" THEN stored'["dropbox"] = commits + 1 /\ tokensBefore # <<>>
        ELSE tokensBefore = <<>>
    <3>1. IF candidate = "dropbox" THEN stored["dropbox"] = commits + 1 /\ tokensBefore # <<>>
          ELSE tokensBefore = <<>>
      BY <1>2 DEF ConfigurationInv, TransactionInv, CandidateWritten
    <3> QED BY <1>2, <3>1 DEF Keys
  <2>4. CandidateWritten'
    BY <1>2, <1>8, <2>1, <2>2, <2>3 DEF CandidateWritten, transaction, Plain
  <2>5. OutcomeIsTrue' /\ OneFaultIsUndone'
    BY <1>2, <1>3, <1>8, OutcomeFrame
  <2>6. FlagInv'
    <3>1. stored'["backend"] = BackendOf(candidate')
      BY <1>2, <1>3, <1>8 DEF transaction
    <3>2. stored'["backend"] = BackendOf(candidate)'
      BY <3>1 DEF BackendOf
    <3> QED BY <1>8, <3>2 DEF FlagInv
  <2>7. RollbackInv' /\ WritesAreCalls'
    BY <1>2, <1>3, <1>8 DEF RollbackInv, WritesAreCalls
  <2> QED
    BY <1>4, <1>5, <1>6, <2>4, <2>5, <2>6, <2>7 DEF ConfigurationInv, TransactionInv
<1> QED BY <1>2, <1>7, <1>8

(* Reading the activated configuration back keeps the invariant. *)
LEMMA VerifyActiveStep ==
    ASSUME ConfigurationInv, VerifyActive
    PROVE  ConfigurationInv'
<1>1. PICK values : values = [ExpectedValues EXCEPT !["backend"] = BackendOf(candidate)]
  OBVIOUS
<1>2. /\ pc = "activated" /\ UNCHANGED <<transaction, writes, errors, outcome, stored>>
      /\ faults' \in 0..MaxFaults /\ faults' >= faults
      /\ \/ pc' = "undo" /\ faults' > faults
         \/ pc' = "undo" /\ ~ConfigurationMatches(Snapshot({}), values, ExpectedOpaque)
         \/ pc' = "committed"
  <2>1. ReadBack("activated", VerificationRequirements, values, ExpectedOpaque, "committed", "undo")
    BY <1>1 DEF VerifyActive
  <2> QED BY <2>1, ReadBackEffect
<1>3. /\ errors = {} /\ stored["backend"] = BackendOf(candidate)
      /\ IF candidate = "dropbox" THEN stored["dropbox"] = commits + 1 /\ tokensBefore # <<>>
         ELSE tokensBefore = <<>>
  BY <1>2 DEF ConfigurationInv, TransactionInv, FlagInv, RollbackInv, CandidateWritten
<1>4. /\ Carried(candidate) \cap previous.opaque = {}
      /\ \A k \in Plain : stored[k] = IF k \in DOMAIN Target THEN Target[k] ELSE before[k]
  BY <1>2, CandidateStands DEF Written
<1>5. ConfigurationMatches(Snapshot({}), values, ExpectedOpaque)
  <2>1. ExpectedValues = [k \in Plain \cup {"backend"} |-> ExpectedValues[k]]
    BY <1>2, <1>4, ExpectedIs
  <2>2. values["backend"] = stored["backend"] /\ \A k \in Plain : values[k] = ExpectedValues[k]
    BY <1>1, <1>3, <2>1, KeysAre
  <2> QED BY <1>2, <2>2, CandidateMatches
<1>6. /\ TypeOK' /\ NoCloudkit' /\ SnapshotTrue' /\ BothProven' /\ UntouchedKept'
      /\ ActiveIsProven'
  BY <1>2, ReadingFrame DEF Points, Committing
<1>7. CASE pc' = "undo"
  <2>1. faults' > faults
    BY <1>2, <1>5, <1>7
  <2>2. /\ OutcomeIsTrue' /\ OneFaultIsUndone' /\ FlagInv' /\ CandidateWritten'
        /\ RollbackInv' /\ WritesAreCalls'
    BY <1>2, <1>6, <1>7, <2>1, ToUndo DEF Committing, transaction
  <2> QED
    BY <1>6, <2>2 DEF ConfigurationInv, TransactionInv
<1>8. CASE pc' = "committed"
  <2>1. Target' = Target
    BY <1>2, TargetKept DEF transaction
  <2>2. CandidateWritten'
    BY <1>2, <1>3, <1>4, <1>8, <2>1 DEF CandidateWritten, transaction, Plain
  <2>3. OutcomeIsTrue' /\ OneFaultIsUndone'
    BY <1>2, <1>8, OutcomeFrame
  <2>4. FlagInv'
    <3>1. stored'["backend"] = BackendOf(candidate)'
      BY <1>2, <1>3 DEF BackendOf, transaction
    <3> QED BY <1>8, <3>1 DEF FlagInv
  <2>5. RollbackInv' /\ WritesAreCalls'
    BY <1>2, <1>3, <1>8 DEF RollbackInv, WritesAreCalls
  <2> QED
    BY <1>6, <2>2, <2>3, <2>4, <2>5 DEF ConfigurationInv, TransactionInv
<1> QED BY <1>2, <1>5, <1>7, <1>8

(* A step that ends the transaction and changes nothing in the store. *)
LEMMA EndFrame ==
    ASSUME ConfigurationInv, pc # "idle", pc' = "idle", UNCHANGED <<transaction, stored, errors>>,
           outcome' \in {"committed", "failed", "disabled", "crashed"},
           faults' \in 0..MaxFaults, faults' >= faults
    PROVE  /\ TypeOK' /\ NoCloudkit' /\ ActiveIsProven' /\ SnapshotTrue' /\ BothProven'
           /\ UntouchedKept' /\ FlagInv' /\ CandidateWritten' /\ RollbackInv' /\ WritesAreCalls'
<1>1. UntouchedKept' /\ stored'["provider"] # "cloudkit"
  BY UntouchedFrame DEF transaction
<1>2. WellTyped(stored, Keys)'
  BY StoredTyped DEF WellTyped
<1>3. TypeOK' /\ NoCloudkit' /\ SnapshotTrue' /\ BothProven'
  <2>1. /\ touched' \subseteq Fields /\ errors' \subseteq {"disable", "credentials", "restore"}
        /\ pc' \in Points
    BY DEF transaction, ConfigurationInv, TransactionInv, TypeOK, Points
  <2> QED BY <1>1, <1>2, <2>1, Frame DEF transaction
<1>4. ActiveIsProven'
  BY ActiveFrame DEF transaction
<1>5. FlagInv' /\ CandidateWritten' /\ RollbackInv' /\ WritesAreCalls'
  BY DEF FlagInv, CandidateWritten, RollbackInv, WritesAreCalls
<1> QED BY <1>1, <1>3, <1>4, <1>5

(* The commit keeps the invariant. *)
LEMMA CommittedStep ==
    ASSUME ConfigurationInv, Committed
    PROVE  ConfigurationInv'
<1>1. /\ pc = "committed" /\ pc' = "idle" /\ outcome' = "committed"
      /\ UNCHANGED <<stored, faults, transaction, writes, errors>>
  BY DEF Committed, End, store
<1>2. /\ TypeOK' /\ NoCloudkit' /\ ActiveIsProven' /\ SnapshotTrue' /\ BothProven'
      /\ UntouchedKept' /\ FlagInv' /\ CandidateWritten' /\ RollbackInv' /\ WritesAreCalls'
  BY <1>1, StoredTyped, EndFrame
<1>3. OneFaultIsUndone'
  BY <1>1 DEF OneFaultIsUndone
<1>4. PICK w : w = [k \in {"backend"} \cup IF candidate = "dropbox" THEN {"dropbox"} ELSE {}
                       |-> IF k = "backend" THEN BackendOf(candidate) ELSE commits + 1]
  OBVIOUS
<1>5. PICK first : first = Overwrite(before, Target)
  OBVIOUS
<1>6. PICK whole : whole = Overwrite(first, w)
  OBVIOUS
<1>7. /\ before = [k \in Keys |-> before[k]] /\ stored = [k \in Keys |-> stored[k]]
      /\ DOMAIN Target \subseteq Plain
  BY <1>1, StoredTyped, TargetTyped
<1>8. /\ first = [k \in Keys |-> first[k]]
      /\ \A k \in Keys : first[k] = IF k \in DOMAIN Target THEN Target[k] ELSE before[k]
  BY <1>5, <1>7, OverwriteIs
<1>9. /\ whole = [k \in Keys |-> whole[k]]
      /\ \A k \in Keys : whole[k] = IF k \in DOMAIN w THEN w[k] ELSE first[k]
  BY <1>6, <1>8, OverwriteIs
<1>10. \A k \in Keys : stored[k] = whole[k]
  <2>1. \A k \in Plain : stored[k] = whole[k]
    <3>1. \A k \in Plain : stored[k] = IF k \in DOMAIN Target THEN Target[k] ELSE before[k]
      BY <1>1, CandidateStands DEF Written
    <3>2. \A k \in Plain : k \in Keys /\ k \notin DOMAIN w
      BY <1>4, KeysAre
    <3> QED BY <1>8, <1>9, <3>1, <3>2
  <2>2. stored["backend"] = whole["backend"]
    <3>1. stored["backend"] = BackendOf(candidate)
      BY <1>1 DEF ConfigurationInv, TransactionInv, FlagInv
    <3>2. "backend" \in DOMAIN w /\ w["backend"] = BackendOf(candidate)
      BY <1>4
    <3> QED BY <1>9, <3>1, <3>2 DEF Keys
  <2>3. stored["dropbox"] = whole["dropbox"]
    <3>1. IF candidate = "dropbox" THEN stored["dropbox"] = commits + 1 /\ tokensBefore # <<>>
          ELSE tokensBefore = <<>>
      BY <1>1 DEF ConfigurationInv, TransactionInv, CandidateWritten
    <3>2. CASE candidate = "dropbox"
      <4>1. "dropbox" \in DOMAIN w /\ w["dropbox"] = commits + 1
        BY <1>4, <3>2
      <4> QED BY <1>9, <3>1, <3>2, <4>1 DEF Keys
    <3>3. CASE candidate # "dropbox"
      <4>1. "dropbox" \notin DOMAIN w /\ "dropbox" \notin DOMAIN Target
        BY <1>4, <1>7, <3>3, KeysAre
      <4>2. stored["dropbox"] = before["dropbox"]
        BY <1>1, <3>1, <3>3 DEF ConfigurationInv, TransactionInv, UntouchedKept
      <4> QED BY <1>8, <1>9, <4>1, <4>2 DEF Keys
    <3> QED BY <3>2, <3>3
  <2> QED BY <2>1, <2>2, <2>3, KeysAre
<1>11. stored = whole
  BY <1>7, <1>9, <1>10, Zenon
<1>12. OutcomeIsTrue'
  <2>1. /\ stored' = whole /\ candidate' = candidate /\ commits' = commits /\ before' = before
    BY <1>1, <1>11 DEF transaction
  <2>2. stored = Overwrite(Overwrite(before, NewValues(candidate, commits + 1, before)),
                           [k \in {"backend"} \cup IF candidate = "dropbox" THEN {"dropbox"} ELSE {}
                               |-> IF k = "backend" THEN BackendOf(candidate) ELSE commits + 1])
    BY <1>4, <1>5, <1>6, <1>11, Zenon DEF Target
  <2>3. stored' = Overwrite(Overwrite(before', NewValues(candidate', commits' + 1, before')),
                           [k \in {"backend"} \cup IF candidate' = "dropbox" THEN {"dropbox"} ELSE {}
                               |-> IF k = "backend" THEN BackendOf(candidate') ELSE commits' + 1])
    BY <1>11, <2>1, <2>2, Zenon
  <2> QED BY <1>1, <2>3, Zenon DEF OutcomeIsTrue
<1> QED
  BY <1>2, <1>3, <1>12 DEF ConfigurationInv, TransactionInv

-----------------------------------------------------------------------------
(* The rollback *)

Undoing == {"undo", "undone", "undoAgain", "undoTokens", "keepDisabled"} \cup Restoring

(* A step that writes at most the flag, and switches sync off if it does. *)
LEMMA FlagFrame ==
    ASSUME ConfigurationInv, pc # "idle", UNCHANGED transaction,
           WellTyped(stored, Keys)', \A k \in Keys \ {"backend"} : stored'[k] = stored[k],
           faults' \in 0..MaxFaults, faults' >= faults, pc' \in Points,
           errors' \subseteq errors \cup {"disable", "restore"},
           outcome' \in {outcome, "none", "committed", "failed", "disabled", "crashed"}
    PROVE  /\ TypeOK' /\ NoCloudkit' /\ SnapshotTrue' /\ BothProven' /\ UntouchedKept'
           /\ stored'["backend"] \in {"off", stored["backend"]} => ActiveIsProven'
<1>1. UntouchedKept' /\ stored'["provider"] # "cloudkit"
  BY UntouchedFrame DEF transaction
<1>2. TypeOK' /\ NoCloudkit' /\ SnapshotTrue' /\ BothProven'
  <2>1. /\ touched' \subseteq Fields /\ errors' \subseteq {"disable", "credentials", "restore"}
        /\ outcome' \in {"none", "committed", "failed", "disabled", "crashed"}
    BY DEF transaction, ConfigurationInv, TransactionInv, TypeOK
  <2> QED BY <1>1, <2>1, Frame DEF transaction
<1>3. stored'["backend"] \in {"off", stored["backend"]} => ActiveIsProven'
  BY ActiveFrame DEF transaction
<1> QED BY <1>1, <1>2, <1>3

(* The failure that a rollback is due to, and what one failure leaves alone. *)
LEMMA RollbackAccount ==
    ASSUME ConfigurationInv, pc \in Undoing, UNCHANGED transaction,
           faults' \in 0..MaxFaults, faults' >= faults, faults' = faults => errors' = errors
    PROVE  /\ faults' > 0 /\ (faults' = 1 => errors' = {} /\ (touched' = {} \/ previous'.opaque = {}))
           /\ faults' > faults => faults' > 1
           /\ faults \in 0..MaxFaults /\ faults > 0 /\ MaxFaults \in Nat
<1>1. faults > 0 /\ (faults = 1 => errors = {} /\ (touched = {} \/ previous.opaque = {}))
  BY DEF ConfigurationInv, TransactionInv, RollbackInv, Undoing, Restoring
<1>2. faults \in 0..MaxFaults /\ MaxFaults \in Nat
  BY StoredTyped
<1> QED
  BY <1>1, <1>2 DEF transaction

(* Undoing a write keeps the invariant. *)
LEMMA UndoStep ==
    ASSUME ConfigurationInv, Undo
    PROVE  ConfigurationInv'
<1>1. /\ pc = "undo" /\ UNCHANGED <<transaction, writes, errors, outcome>>
      /\ WellTyped(stored, Keys)' /\ \A k \in Keys \ {"backend"} : stored'[k] = stored[k]
      /\ faults' \in 0..MaxFaults
      /\ \/ pc' = "undone" /\ stored'["backend"] = "off" /\ faults' = faults
         \/ pc' = "undoAgain" /\ stored'["backend"] \in {"off", stored["backend"]} /\ faults' = faults + 1
  <2>1. "off" \in Backends
    BY DEF Backends
  <2> QED BY <2>1, WriteBackendEffect, Zenon DEF Undo
<1>2. faults' >= faults
  BY <1>1, StoredTyped
<1>3. /\ faults' > 0 /\ (faults' = 1 => errors' = {} /\ (touched' = {} \/ previous'.opaque = {}))
      /\ faults' > faults => faults' > 1
      /\ faults \in 0..MaxFaults
  BY <1>1, <1>2, RollbackAccount DEF Undoing
<1>4. /\ TypeOK' /\ NoCloudkit' /\ SnapshotTrue' /\ BothProven' /\ UntouchedKept'
      /\ ActiveIsProven'
  BY <1>1, <1>2, FlagFrame DEF Points
<1>5. errors' = {}
  BY <1>1 DEF ConfigurationInv, TransactionInv, RollbackInv
<1>6. OutcomeIsTrue' /\ OneFaultIsUndone'
  BY <1>1, <1>2, OutcomeFrame
<1>7. FlagInv' /\ CandidateWritten' /\ WritesAreCalls'
  BY <1>1 DEF FlagInv, CandidateWritten, WritesAreCalls
<1>8. RollbackInv'
  BY <1>1, <1>3, <1>5 DEF RollbackInv
<1> QED
  BY <1>4, <1>6, <1>7, <1>8 DEF ConfigurationInv, TransactionInv

(* Checking the undone write keeps the invariant. *)
LEMMA VerifyUndoStep ==
    ASSUME ConfigurationInv, VerifyUndo
    PROVE  ConfigurationInv'
<1>1. /\ pc = "undone" /\ UNCHANGED <<transaction, writes, errors, outcome, stored>>
  BY DEF VerifyUndo, ReadDone, ReadFails, To
<1>2. stored["backend"] = "off" /\ errors = {}
  BY <1>1 DEF ConfigurationInv, TransactionInv, FlagInv, RollbackInv
<1>3. /\ faults' \in 0..MaxFaults /\ faults' >= faults
      /\ \/ pc' = "undoTokens"
         \/ pc' = "undoAgain" /\ faults' > faults
  <2>1. Cardinality({}) = 0
    BY FS_EmptySet
  <2>2. faults \in 0..MaxFaults /\ MaxFaults \in Nat
    BY StoredTyped
  <2>3. CASE ReadFails /\ To("undoAgain")
    BY <2>2, <2>3 DEF ReadFails, Fault, To
  <2>4. CASE ReadDone({}, {}) /\ To(IF stored["backend"] = "off" THEN "undoTokens" ELSE "undoAgain")
    <3>1. faults' = faults + Cardinality({})
      BY <2>4 DEF ReadDone
    <3>2. pc' = "undoTokens"
      BY <1>2, <2>4 DEF To
    <3> QED BY <2>1, <2>2, <3>1, <3>2
  <2> QED BY <2>3, <2>4 DEF VerifyUndo
<1>4. /\ faults' > 0 /\ (faults' = 1 => errors' = {} /\ (touched' = {} \/ previous'.opaque = {}))
      /\ faults' > faults => faults' > 1
  BY <1>1, <1>3, RollbackAccount DEF Undoing
<1>5. WellTyped(stored, Keys)'
  BY <1>1, StoredTyped DEF WellTyped
<1>6. /\ TypeOK' /\ NoCloudkit' /\ SnapshotTrue' /\ BothProven' /\ UntouchedKept'
      /\ ActiveIsProven'
  BY <1>1, <1>3, <1>5, FlagFrame DEF Points
<1>7. OutcomeIsTrue' /\ OneFaultIsUndone'
  BY <1>1, <1>3, OutcomeFrame
<1>8. FlagInv' /\ CandidateWritten' /\ WritesAreCalls'
  BY <1>1, <1>2, <1>3 DEF FlagInv, CandidateWritten, WritesAreCalls
<1>9. RollbackInv'
  BY <1>1, <1>2, <1>3, <1>4 DEF RollbackInv
<1> QED
  BY <1>6, <1>7, <1>8, <1>9 DEF ConfigurationInv, TransactionInv

(* Switching the flag off, whether the call succeeds or not. *)
LEMMA SwitchedOff ==
    ASSUME ConfigurationInv, WriteDone(Put("backend", "off")) \/ WriteFails(Put("backend", "off"))
    PROVE  /\ WellTyped(stored, Keys)' /\ \A k \in Keys \ {"backend"} : stored'[k] = stored[k]
           /\ stored'["backend"] \in {"off", stored["backend"]}
           /\ faults' \in 0..MaxFaults /\ faults' >= faults
           /\ stored'["backend"] = "off" \/ faults' > faults
<1>1. WellTyped(stored, Keys) /\ faults \in 0..MaxFaults /\ MaxFaults \in Nat
  BY StoredTyped
<1>2. PICK new : new = Overwrite(stored, Put("backend", "off"))
  OBVIOUS
<1>3. /\ WellTyped(new, Keys) /\ new["backend"] = "off"
      /\ \A k \in Keys \ {"backend"} : new[k] = stored[k]
  <2>1. "backend" \in Keys /\ ValueOK("backend", "off")
    BY DEF Keys, ValueOK
  <2> QED BY <1>1, <1>2, <2>1, PutTyped
<1>4. \/ stored' = new /\ faults' = faults
      \/ stored' \in {stored, new} /\ faults < MaxFaults /\ faults' = faults + 1
  BY <1>2 DEF WriteDone, WriteFails, Fault
<1>5. WellTyped(stored, Keys)'
  BY <1>1, <1>3, <1>4 DEF WellTyped
<1> QED BY <1>1, <1>3, <1>4, <1>5

(* Trying an undo again keeps the invariant. *)
LEMMA UndoAgainStep ==
    ASSUME ConfigurationInv, UndoAgain
    PROVE  ConfigurationInv'
<1>1. /\ pc = "undoAgain" /\ UNCHANGED <<transaction, writes, outcome>>
      /\ pc' = "undoTokens" /\ errors' = errors \cup {"disable"}
  BY DEF UndoAgain
<1>2. /\ WellTyped(stored, Keys)' /\ \A k \in Keys \ {"backend"} : stored'[k] = stored[k]
      /\ stored'["backend"] \in {"off", stored["backend"]}
      /\ faults' \in 0..MaxFaults /\ faults' >= faults
      /\ stored'["backend"] = "off" \/ faults' > faults
  BY SwitchedOff DEF UndoAgain
<1>3. faults > 1 /\ faults \in 0..MaxFaults /\ MaxFaults \in Nat
  BY <1>1, StoredTyped DEF ConfigurationInv, TransactionInv, RollbackInv
<1>4. /\ TypeOK' /\ NoCloudkit' /\ SnapshotTrue' /\ BothProven' /\ UntouchedKept'
      /\ ActiveIsProven'
  BY <1>1, <1>2, FlagFrame DEF Points
<1>5. OutcomeIsTrue' /\ OneFaultIsUndone'
  BY <1>1, <1>2, OutcomeFrame
<1>6. CandidateWritten' /\ WritesAreCalls'
  BY <1>1 DEF CandidateWritten, WritesAreCalls
<1>7. FlagInv'
  <2>1. stored'["backend"] = "off" \/ faults' > 2
    BY <1>2, <1>3
  <2> QED BY <1>1, <2>1 DEF FlagInv
<1>8. RollbackInv'
  <2>1. faults' > 0 /\ faults' # 1
    BY <1>2, <1>3
  <2> QED BY <1>1, <2>1 DEF RollbackInv
<1> QED
  BY <1>4, <1>5, <1>6, <1>7, <1>8 DEF ConfigurationInv, TransactionInv

(* Putting the old Dropbox tokens back keeps the invariant. *)
LEMMA RollBackTokensStep ==
    ASSUME Supported, ConfigurationInv, RollBackTokens
    PROVE  ConfigurationInv'
<1>1. /\ pc = "undoTokens" /\ UNCHANGED <<transaction, writes>>
  BY DEF RollBackTokens, AfterTokens
<1>2. /\ stored["backend"] = "off" \/ ("disable" \in errors /\ (tokensBefore # <<>> => faults > 2))
      /\ faults > 0 /\ (faults = 1 => errors = {} /\ (touched = {} \/ previous.opaque = {}))
      /\ faults \in 0..MaxFaults /\ MaxFaults \in Nat
  BY <1>1, StoredTyped DEF ConfigurationInv, TransactionInv, FlagInv, RollbackInv
<1>3. UntouchedKept
  BY DEF ConfigurationInv, TransactionInv
<1>4. errors \subseteq {"disable", "credentials", "restore"}
      /\ outcome \in {"none", "committed", "failed", "disabled", "crashed"}
  BY DEF ConfigurationInv, TransactionInv, TypeOK
<1>5. ASSUME NEW errs, errs \subseteq {"disable", "credentials", "restore"},
             AfterTokens(errs), errors \subseteq errs, WellTyped(stored, Keys)',
             \A k \in Keys \ {"dropbox"} : stored'[k] = stored[k],
             \/ tokensBefore = <<>> /\ stored'["dropbox"] = stored["dropbox"]
             \/ tokensBefore # <<>> /\ stored["backend"] = "off",
             faults' \in 0..MaxFaults, faults' >= faults, faults' = 1 => errs = {},
             "credentials" \in errs \/ stored'["dropbox"] = before["dropbox"]
      PROVE  ConfigurationInv'
  <2>1. \/ "disable" \in errs /\ pc' = "idle" /\ outcome' = "disabled"
        \/ "disable" \notin errs /\ pc' = "restore" /\ outcome' = outcome
    BY <1>5 DEF AfterTokens
  <2>2. errors' = errs
    BY <1>5 DEF AfterTokens
  <2>3. stored'["backend"] = stored["backend"] /\ stored'["provider"] # "cloudkit"
    BY <1>5 DEF Keys, ConfigurationInv, NoCloudkit
  <2>4. TypeOK' /\ NoCloudkit' /\ SnapshotTrue' /\ BothProven'
    <3>1. /\ touched' \subseteq Fields /\ errors' \subseteq {"disable", "credentials", "restore"}
          /\ outcome' \in {"none", "committed", "failed", "disabled", "crashed"}
          /\ pc' \in Points
      BY <1>1, <1>4, <1>5, <2>1, <2>2
      DEF transaction, ConfigurationInv, TransactionInv, TypeOK, Points
    <3> QED BY <1>1, <1>5, <2>3, <3>1, Frame DEF transaction
  <2>5. ActiveIsProven'
    <3>1. CASE stored["backend"] = "off"
      BY <2>3, <3>1, ActiveOff
    <3>2. CASE tokensBefore = <<>> /\ stored'["dropbox"] = stored["dropbox"]
      <4>1. \A k \in Keys \ {"backend"} : stored'[k] = stored[k]
        BY <1>5, <3>2
      <4> QED BY <1>1, <2>3, <4>1, ActiveFrame DEF transaction
    <3> QED BY <1>5, <3>1, <3>2
  <2>6. UntouchedKept'
    <3>1. \A f \in Fields \ touched : \A k \in FieldKeys[f] : stored'[k] = before[k]
      <4>1. \A f \in Fields : \A k \in FieldKeys[f] : k \in Keys \ {"dropbox"}
        BY KeysAre
      <4>2. \A f \in Fields \ touched : \A k \in FieldKeys[f] : stored[k] = before[k]
        BY <1>1, <1>3 DEF UntouchedKept
      <4> QED BY <1>5, <4>1, <4>2
    <3>2. IF tokensBefore = <<>> THEN stored'["dropbox"] = before["dropbox"]
          ELSE tokensBefore = <<before["dropbox"]>> /\ candidate = "dropbox"
      BY <1>1, <1>3, <1>5 DEF UntouchedKept
    <3> QED BY <1>1, <3>1, <3>2 DEF UntouchedKept, transaction
  <2>7. faults' > 0 /\ (faults' = 1 => errs = {} /\ (touched = {} \/ previous.opaque = {}))
    BY <1>2, <1>5
  <2>8. CASE "disable" \in errs /\ pc' = "idle" /\ outcome' = "disabled"
    <3>1. faults' > 1
      BY <1>5, <2>7, <2>8
    <3>2. OutcomeIsTrue' /\ OneFaultIsUndone'
      BY <2>8, <3>1 DEF OutcomeIsTrue, OneFaultIsUndone
    <3>3. FlagInv' /\ CandidateWritten' /\ RollbackInv' /\ WritesAreCalls'
      BY <2>8 DEF FlagInv, CandidateWritten, RollbackInv, WritesAreCalls
    <3> QED
      BY <2>4, <2>5, <2>6, <3>2, <3>3 DEF ConfigurationInv, TransactionInv
  <2>9. CASE "disable" \notin errs /\ pc' = "restore" /\ outcome' = outcome
    <3>1. OutcomeIsTrue' /\ OneFaultIsUndone'
      BY <1>5, <2>9, OutcomeFrame
    <3>2. stored'["backend"] = "off"
      BY <1>2, <1>5, <2>3, <2>9
    <3>3. FlagInv' /\ CandidateWritten' /\ WritesAreCalls'
      BY <2>9, <3>2 DEF FlagInv, CandidateWritten, WritesAreCalls
    <3>4. RollbackInv'
      BY <1>1, <1>5, <2>2, <2>7, <2>9 DEF RollbackInv, transaction
    <3> QED
      BY <2>4, <2>5, <2>6, <3>1, <3>3, <3>4 DEF ConfigurationInv, TransactionInv
  <2> QED BY <2>1, <2>8, <2>9
<1>6. CASE tokensBefore = <<>> /\ AfterTokens(errors) /\ UNCHANGED store
  <2>1. stored' = stored /\ faults' = faults
    BY <1>6 DEF store
  <2>2. WellTyped(stored, Keys)'
    BY <2>1, StoredTyped DEF WellTyped
  <2>3. stored["dropbox"] = before["dropbox"]
    BY <1>1, <1>3, <1>6 DEF UntouchedKept
  <2> QED BY <1>2, <1>4, <1>5, <1>6, <2>1, <2>2, <2>3
<1>7. CASE /\ tokensBefore # <<>>
           /\ \/ WriteDone(Put("dropbox", tokensBefore[1])) /\ AfterTokens(errors)
              \/ /\ WriteFails(Put("dropbox", tokensBefore[1]))
                 /\ AfterTokens(errors \cup {"credentials"})
  <2>1. tokensBefore = <<before["dropbox"]>> /\ candidate = "dropbox" /\ candidate \in Candidates
    BY <1>1, <1>3, <1>7 DEF UntouchedKept, ConfigurationInv, TransactionInv, BothProven
  <2>2. MaxFaults <= 2
    BY <2>1 DEF Supported
  <2>3. stored["backend"] = "off"
    BY <1>2, <1>7, <2>2
  <2>4. PICK v : v = before["dropbox"]
    OBVIOUS
  <2>5. tokensBefore[1] = v /\ v \in 0..(MaxCommits + 1)
    <3>1. ValueOK("dropbox", before["dropbox"])
      BY StoredTyped DEF Keys
    <3> QED BY <2>1, <2>4, <3>1 DEF ValueOK
  <2>6. \/ WriteDone(Put("dropbox", v)) /\ AfterTokens(errors)
        \/ WriteFails(Put("dropbox", v)) /\ AfterTokens(errors \cup {"credentials"})
    BY <1>7, <2>5
  <2>7. /\ WellTyped(stored, Keys)' /\ \A k \in Keys \ {"dropbox"} : stored'[k] = stored[k]
        /\ faults' \in 0..MaxFaults /\ faults' >= faults
        /\ WriteDone(Put("dropbox", v)) => stored'["dropbox"] = v /\ faults' = faults
        /\ WriteFails(Put("dropbox", v)) => faults' = faults + 1
    BY <2>5, <2>6, TokensWritten
  <2>8. CASE WriteDone(Put("dropbox", v)) /\ AfterTokens(errors)
    <3>1. stored'["dropbox"] = before["dropbox"] /\ faults' = faults
      BY <2>4, <2>7, <2>8
    <3> QED BY <1>2, <1>4, <1>5, <1>7, <2>3, <2>7, <2>8, <3>1
  <2>9. CASE WriteFails(Put("dropbox", v)) /\ AfterTokens(errors \cup {"credentials"})
    <3>1. faults' # 1
      BY <1>2, <2>7, <2>9
    <3>2. errors \cup {"credentials"} \subseteq {"disable", "credentials", "restore"}
      BY <1>4
    <3> QED BY <1>5, <1>7, <2>3, <2>7, <2>9, <3>1, <3>2
  <2> QED BY <2>6, <2>8, <2>9
<1> QED BY <1>6, <1>7 DEF RollBackTokens

(* Switching sync off before the restore keeps the invariant. *)
LEMMA DisableForRestoreStep ==
    ASSUME ConfigurationInv, DisableForRestore
    PROVE  ConfigurationInv'
<1>1. /\ pc = "restore" /\ UNCHANGED <<transaction, writes, errors, outcome>>
      /\ WellTyped(stored, Keys)' /\ \A k \in Keys \ {"backend"} : stored'[k] = stored[k]
      /\ faults' \in 0..MaxFaults
      /\ \/ pc' = "restorable" /\ stored'["backend"] = "off" /\ faults' = faults
         \/ pc' = "keepDisabled" /\ stored'["backend"] \in {"off", stored["backend"]} /\ faults' = faults + 1
  <2>1. "off" \in Backends
    BY DEF Backends
  <2> QED BY <2>1, WriteBackendEffect, Zenon DEF DisableForRestore
<1>2. faults' >= faults
  BY <1>1, StoredTyped
<1>3. /\ faults' > 0 /\ (faults' = 1 => errors' = {} /\ (touched' = {} \/ previous'.opaque = {}))
      /\ faults' > faults => faults' > 1
      /\ faults \in 0..MaxFaults
  BY <1>1, <1>2, RollbackAccount DEF Undoing, Restoring
<1>4. /\ TypeOK' /\ NoCloudkit' /\ SnapshotTrue' /\ BothProven' /\ UntouchedKept'
      /\ ActiveIsProven'
  BY <1>1, <1>2, FlagFrame DEF Points
<1>5. OutcomeIsTrue' /\ OneFaultIsUndone'
  BY <1>1, <1>2, OutcomeFrame
<1>6. FlagInv' /\ CandidateWritten' /\ WritesAreCalls'
  BY <1>1 DEF FlagInv, CandidateWritten, WritesAreCalls
<1>7. RollbackInv'
  <2>1. "credentials" \in errors \/ stored["dropbox"] = before["dropbox"]
    BY <1>1 DEF ConfigurationInv, TransactionInv, RollbackInv
  <2>2. stored'["dropbox"] = stored["dropbox"]
    BY <1>1 DEF Keys
  <2> QED BY <1>1, <1>3, <2>1, <2>2 DEF RollbackInv, transaction
<1> QED
  BY <1>4, <1>5, <1>6, <1>7 DEF ConfigurationInv, TransactionInv

(* Two sequences joined hold the elements of both. *)
LEMMA ConcatIs ==
    ASSUME NEW S, NEW s \in Seq(S), NEW t \in Seq(S)
    PROVE  /\ s \o t \in Seq(S)
           /\ \A x : x \in Range(s \o t) <=> x \in Range(s) \/ x \in Range(t)
<1>1. /\ s \o t \in Seq(S) /\ Len(s) \in Nat /\ Len(t) \in Nat
      /\ DOMAIN s = 1..Len(s) /\ DOMAIN t = 1..Len(t) /\ DOMAIN (s \o t) = 1..(Len(s) + Len(t))
      /\ \A i \in 1..(Len(s) + Len(t)) : (s \o t)[i] = IF i <= Len(s) THEN s[i] ELSE t[i - Len(s)]
  OBVIOUS
<1>2. ASSUME NEW x PROVE x \in Range(s \o t) <=> x \in Range(s) \/ x \in Range(t)
  <2>1. ASSUME NEW i \in 1..Len(s) PROVE s[i] \in Range(s \o t)
    <3>1. i \in 1..(Len(s) + Len(t)) /\ (s \o t)[i] = s[i]
      BY <1>1
    <3> QED BY <1>1, <3>1 DEF Range
  <2>2. ASSUME NEW i \in 1..Len(t) PROVE t[i] \in Range(s \o t)
    <3>1. /\ i + Len(s) \in 1..(Len(s) + Len(t)) /\ ~(i + Len(s) <= Len(s))
          /\ (i + Len(s)) - Len(s) = i
      BY <1>1
    <3>2. (s \o t)[i + Len(s)] = t[i]
      BY <1>1, <3>1
    <3> QED BY <1>1, <3>1, <3>2 DEF Range
  <2>3. ASSUME NEW i \in 1..(Len(s) + Len(t)) PROVE (s \o t)[i] \in Range(s) \cup Range(t)
    <3>1. CASE i <= Len(s)
      BY <1>1, <3>1 DEF Range
    <3>2. CASE ~(i <= Len(s))
      <4>1. i - Len(s) \in 1..Len(t)
        BY <1>1, <3>2
      <4> QED BY <1>1, <3>2, <4>1 DEF Range
    <3> QED BY <3>1, <3>2
  <2>4. x \in Range(s) => x \in Range(s \o t)
    BY <1>1, <2>1 DEF Range
  <2>5. x \in Range(t) => x \in Range(s \o t)
    BY <1>1, <2>2 DEF Range
  <2>6. x \in Range(s \o t) => x \in Range(s) \/ x \in Range(t)
    BY <1>1, <2>3 DEF Range
  <2> QED BY <2>4, <2>5, <2>6
<1> QED BY <1>1, <1>2

(* What the rollback writes back: every field that may have been touched and  *)
(* whose secret was readable, as it was.                                      *)
LEMMA RestoreCallsAre ==
    ASSUME ConfigurationInv, pc # "idle"
    PROVE  /\ RestoreCalls \in Seq(Calls) /\ CallsFor(RestoreCalls, previous.values)
           /\ \A i \in DOMAIN RestoreCalls : RestoreCalls[i].field \in touched
           /\ \A f \in touched : ~CannotRestore(f) => FieldKeys[f] \subseteq KeysOf(RestoreCalls)
<1> DEFINE call(f) == PortCall(f, previous.values)
           part(f) == IF f \in touched /\ ~CannotRestore(f) THEN <<call(f)>> ELSE <<>>
<1>1. ASSUME NEW f \in Fields
      PROVE  /\ call(f) \in Calls /\ call(f).field = f /\ call(f).writes # <<>>
             /\ \A w \in Range(call(f).writes) :
                   DOMAIN w \subseteq FieldKeys[f] /\ \A k \in DOMAIN w : w[k] = previous.values[k]
             /\ UNION {DOMAIN w : w \in Range(call(f).writes)} = FieldKeys[f]
  <2>1. candidate # "cloudkit"
    BY DEF ConfigurationInv, NoCloudkit
  <2>2. \A k \in FieldKeys[f] : ValueOK(k, previous.values[k])
    BY StoredTyped, KeysAre
  <2> QED BY <2>1, <2>2, PortCallIs
<1> HIDE DEF call
<1>2. ASSUME NEW f \in Fields
      PROVE  /\ part(f) \in Seq(Calls)
             /\ \A x : x \in Range(part(f)) <=> f \in touched /\ ~CannotRestore(f) /\ x = call(f)
  <2>1. call(f) \in Calls
    BY <1>1
  <2>2. CASE f \in touched /\ ~CannotRestore(f)
    <3>1. part(f) = <<call(f)>>
      BY <2>2
    <3> HIDE DEF part
    <3>2. Range(<<call(f)>>) = {call(f)} /\ <<call(f)>> \in Seq(Calls)
      BY <2>1 DEF Range
    <3> QED BY <2>2, <3>1, <3>2
  <2>3. CASE ~(f \in touched /\ ~CannotRestore(f))
    <3>1. part(f) = <<>>
      BY <2>3
    <3> HIDE DEF part
    <3>2. Range(<<>>) = {} /\ <<>> \in Seq(Calls)
      BY DEF Range
    <3> QED BY <2>3, <3>1, <3>2
  <2> QED BY <2>2, <2>3
<1>3. RestoreCalls = part("syncPath") \o part("webdav") \o part("cloud") \o part("cloudProvider")
  BY Zenon DEF RestoreCalls, call
<1> HIDE DEF part
<1>4. PICK a, b, c, d : /\ a = part("syncPath") /\ b = part("webdav")
                        /\ c = part("cloud") /\ d = part("cloudProvider")
  OBVIOUS
<1>5. RestoreCalls = ((a \o b) \o c) \o d
  BY <1>3, <1>4
<1>6. a \in Seq(Calls) /\ b \in Seq(Calls) /\ c \in Seq(Calls) /\ d \in Seq(Calls)
  BY <1>2, <1>4 DEF Fields
<1>7. a \o b \in Seq(Calls) /\ \A x : x \in Range(a \o b) <=> x \in Range(a) \/ x \in Range(b)
  BY <1>6, ConcatIs
<1>8. /\ (a \o b) \o c \in Seq(Calls)
      /\ \A x : x \in Range((a \o b) \o c) <=> x \in Range(a \o b) \/ x \in Range(c)
  BY <1>6, <1>7, ConcatIs
<1>9. /\ RestoreCalls \in Seq(Calls)
      /\ \A x : x \in Range(RestoreCalls) <=> x \in Range((a \o b) \o c) \/ x \in Range(d)
  <2>1. PICK e : e = (a \o b) \o c
    OBVIOUS
  <2>2. e \in Seq(Calls) /\ RestoreCalls = e \o d
    BY <1>5, <1>8, <2>1
  <2>3. e \o d \in Seq(Calls) /\ \A x : x \in Range(e \o d) <=> x \in Range(e) \/ x \in Range(d)
    BY <1>6, <2>2, ConcatIs
  <2> QED BY <2>1, <2>2, <2>3, Zenon
<1>10. \A x : x \in Range(RestoreCalls) <=>
                 \E f \in Fields : f \in touched /\ ~CannotRestore(f) /\ x = call(f)
  <2> TAKE x
  <2>1. x \in Range(RestoreCalls) <=> x \in Range(a) \/ x \in Range(b) \/ x \in Range(c) \/ x \in Range(d)
    BY <1>7, <1>8, <1>9, Zenon
  <2>2. \A f \in Fields : x \in Range(part(f)) <=> f \in touched /\ ~CannotRestore(f) /\ x = call(f)
    BY <1>2
  <2>3. x \in Range(RestoreCalls) <=> \E f \in Fields : x \in Range(part(f))
    BY <1>4, <2>1, Zenon DEF Fields
  <2> QED BY <2>2, <2>3, Zenon
<1>11. \A i \in DOMAIN RestoreCalls : RestoreCalls[i] \in Range(RestoreCalls)
  BY DEF Range
<1>12. ASSUME NEW i \in DOMAIN RestoreCalls
       PROVE  \E f \in Fields : f \in touched /\ RestoreCalls[i] = call(f)
  BY <1>10, <1>11
<1> HIDE DEF RestoreCalls
<1>13. CallsFor(RestoreCalls, previous.values)
       /\ \A i \in DOMAIN RestoreCalls : RestoreCalls[i].field \in touched
  <2> SUFFICES ASSUME NEW i \in DOMAIN RestoreCalls
               PROVE  /\ RestoreCalls[i].field \in Fields /\ RestoreCalls[i].writes # <<>>
                      /\ \A w \in Range(RestoreCalls[i].writes) :
                            /\ DOMAIN w \subseteq FieldKeys[RestoreCalls[i].field]
                            /\ \A k \in DOMAIN w : w[k] = previous.values[k]
                      /\ RestoreCalls[i].field \in touched
    BY Zenon DEF CallsFor
  <2>1. PICK f \in Fields : f \in touched /\ RestoreCalls[i] = call(f)
    BY <1>12
  <2> QED BY <1>1, <2>1
<1>14. ASSUME NEW f \in touched, ~CannotRestore(f), NEW k \in FieldKeys[f]
       PROVE  k \in KeysOf(RestoreCalls)
  <2>1. f \in Fields
    BY DEF ConfigurationInv, TransactionInv, TypeOK
  <2>2. call(f) \in Range(RestoreCalls)
    BY <1>10, <1>14, <2>1
  <2>3. PICK i \in DOMAIN RestoreCalls : RestoreCalls[i] = call(f)
    BY <2>2 DEF Range
  <2>4. UNION {DOMAIN w : w \in Range(call(f).writes)} = FieldKeys[f]
    BY <1>1, <2>1
  <2>5. PICK w \in Range(call(f).writes) : k \in DOMAIN w
    BY <1>14, <2>4, Zenon
  <2>6. w \in WritesOf(RestoreCalls)
    BY <2>3, <2>5, WritesOfMeans
  <2> QED BY <2>5, <2>6, Zenon DEF KeysOf
<1> QED
  BY <1>9, <1>13, <1>14

(* Starting the restore keeps the invariant. *)
LEMMA BeginRestoreStep ==
    ASSUME ConfigurationInv, BeginRestore
    PROVE  ConfigurationInv'
<1>1. /\ pc = "restorable" /\ UNCHANGED <<transaction, stored, outcome>>
  BY DEF BeginRestore, ReadFails, ReadDone, To
<1>2. stored["backend"] = "off" /\ faults \in 0..MaxFaults /\ MaxFaults \in Nat
  BY <1>1, StoredTyped DEF ConfigurationInv, TransactionInv, FlagInv
<1>3. /\ faults > 0 /\ (faults = 1 => errors = {} /\ (touched = {} \/ previous.opaque = {}))
      /\ "credentials" \in errors \/ stored["dropbox"] = before["dropbox"]
  BY <1>1 DEF ConfigurationInv, TransactionInv, RollbackInv
<1>4. WellTyped(stored, Keys)'
  BY <1>1, StoredTyped DEF WellTyped
<1>5. CASE ReadFails /\ To("keepDisabled")
  <2>1. /\ faults' \in 0..MaxFaults /\ faults' > 1 /\ faults' >= faults
        /\ pc' = "keepDisabled" /\ errors' = errors
    BY <1>2, <1>3, <1>5 DEF ReadFails, Fault, To
  <2>2. /\ TypeOK' /\ NoCloudkit' /\ SnapshotTrue' /\ BothProven' /\ UntouchedKept'
        /\ ActiveIsProven'
    BY <1>1, <1>4, <2>1, FlagFrame DEF Points
  <2>3. OutcomeIsTrue' /\ OneFaultIsUndone'
    BY <1>1, <2>1, OutcomeFrame
  <2>4. FlagInv' /\ CandidateWritten' /\ WritesAreCalls' /\ RollbackInv'
    BY <2>1 DEF FlagInv, CandidateWritten, WritesAreCalls, RollbackInv
  <2> QED
    BY <2>2, <2>3, <2>4 DEF ConfigurationInv, TransactionInv
<1>6. CASE /\ ReadDone({}, {}) /\ stored["backend"] = "off"
           /\ pc' = "restoring" /\ writes' = RestoreCalls /\ UNCHANGED outcome
           /\ errors' = errors \cup IF \E f \in touched : CannotRestore(f) THEN {"restore"} ELSE {}
  <2>1. faults' = faults
    <3>1. faults' = faults + Cardinality({}) /\ Cardinality({}) = 0
      BY <1>6, FS_EmptySet DEF ReadDone
    <3> QED BY <1>2, <3>1
  <2>2. /\ TypeOK' /\ NoCloudkit' /\ SnapshotTrue' /\ BothProven' /\ UntouchedKept'
        /\ ActiveIsProven'
    <3>1. errors' \subseteq errors \cup {"disable", "restore"}
      BY <1>6
    <3> QED BY <1>1, <1>2, <1>4, <1>6, <2>1, <3>1, FlagFrame DEF Points
  <2>3. OutcomeIsTrue' /\ OneFaultIsUndone'
    BY <1>1, <1>2, <1>6, <2>1, OutcomeFrame
  <2>4. /\ RestoreCalls \in Seq(Calls) /\ CallsFor(RestoreCalls, previous.values)
        /\ \A i \in DOMAIN RestoreCalls : RestoreCalls[i].field \in touched
        /\ \A f \in touched : ~CannotRestore(f) => FieldKeys[f] \subseteq KeysOf(RestoreCalls)
    BY <1>1, RestoreCallsAre
  <2>5. FlagInv' /\ CandidateWritten' /\ WritesAreCalls'
    BY <1>1, <1>2, <1>6, <2>4 DEF FlagInv, CandidateWritten, WritesAreCalls
  <2>6. PendingFor(previous.values)' /\ Pending' = KeysOf(RestoreCalls)
    <3>1. PendingFor(previous.values)' <=> CallsFor(writes', previous'.values)
      BY Zenon DEF PendingFor, CallsFor
    <3>2. writes' = RestoreCalls /\ previous'.values = previous.values
      BY <1>1, <1>6 DEF transaction
    <3>3. CallsFor(writes', previous'.values)
      BY <2>4, <3>2
    <3> QED BY <3>1, <3>2, <3>3, PendingIsPrimed
  <2>7. \A f : CannotRestore(f)' <=> CannotRestore(f)
    BY <1>1 DEF CannotRestore, transaction
  <2>8. previous.opaque = {} \/ touched = {} => ~\E f \in touched : CannotRestore(f)
    BY DEF CannotRestore
  <2>9. faults = 1 => errors' = {}
    BY <1>3, <1>6, <2>8
  <2>10. "restore" \notin errors' => \A f \in touched : ~CannotRestore(f)
    BY <1>6
  <2>11. faults = 1 => \A f \in touched : \A k \in FieldKeys[f] : k \in KeysOf(RestoreCalls)
    BY <2>4, <2>9, <2>10
  <2>12. RollbackInv'
    <3>1. "credentials" \in errors' \/ stored'["dropbox"] = before'["dropbox"]
      BY <1>1, <1>3, <1>6 DEF transaction
    <3>2. /\ faults' > 0
          /\ faults' = 1 => errors' = {} /\ (touched' = {} \/ previous'.opaque = {})
      BY <1>1, <1>3, <2>1, <2>9 DEF transaction
    <3>3. \A i \in DOMAIN writes' : writes'[i].field \in touched'
      BY <1>1, <1>6, <2>4 DEF transaction
    <3>4. "restore" \notin errors' => \A f \in touched' : ~CannotRestore(f)'
      BY <1>1, <2>7, <2>10 DEF transaction
    <3>5. faults' = 1 => \A f \in touched' : \A k \in FieldKeys[f] : k \in Pending'
      BY <1>1, <2>1, <2>6, <2>11 DEF transaction
    <3> QED BY <1>6, <2>6, <3>1, <3>2, <3>3, <3>4, <3>5 DEF RollbackInv
  <2> QED
    BY <2>2, <2>3, <2>5, <2>12 DEF ConfigurationInv, TransactionInv
<1> QED BY <1>5, <1>6 DEF BeginRestore

(* A write of the restore keeps the invariant. *)
LEMMA RestoreStep ==
    ASSUME ConfigurationInv, Restore
    PROVE  ConfigurationInv'
<1>1. /\ pc = "restoring" /\ writes # <<>> /\ UNCHANGED <<transaction, pc, outcome>>
  BY DEF Restore
<1>2. /\ stored["backend"] = "off" /\ faults \in 0..MaxFaults /\ MaxFaults \in Nat
      /\ WellTyped(stored, Keys) /\ stored["provider"] # "cloudkit"
  BY <1>1, StoredTyped DEF ConfigurationInv, TransactionInv, FlagInv, NoCloudkit
<1>3. /\ faults > 0 /\ (faults = 1 => errors = {} /\ (touched = {} \/ previous.opaque = {}))
      /\ "credentials" \in errors \/ stored["dropbox"] = before["dropbox"]
      /\ PendingFor(previous.values) /\ \A i \in DOMAIN writes : writes[i].field \in touched
      /\ "restore" \notin errors => \A f \in touched : ~CannotRestore(f)
      /\ faults = 1 => \A f \in touched : \A k \in FieldKeys[f] :
                           stored[k] = previous.values[k] \/ k \in Pending
  BY <1>1 DEF ConfigurationInv, TransactionInv, RollbackInv
<1>4. CallsFor(writes, previous.values) /\ Pending = KeysOf(writes)
  BY <1>3, PendingIs
<1>5. PICK values : values = previous.values
  OBVIOUS
<1>6. PICK new : new = Overwrite(stored, NextWrite)
  OBVIOUS
<1>7. PICK left : left = IF Tail(Head(writes).writes) = <<>> THEN Tail(writes)
                         ELSE [writes EXCEPT ![1].writes = Tail(Head(writes).writes)]
  OBVIOUS
<1>8. \A k \in KeysOf(writes) : /\ k \in Plain /\ ValueOK(k, values[k])
                                /\ k = "provider" => values[k] # "cloudkit"
  <2> TAKE k \in KeysOf(writes)
  <2>1. PICK w \in WritesOf(writes) : k \in DOMAIN w
    BY Zenon DEF KeysOf
  <2>2. PICK i \in DOMAIN writes : w \in Range(writes[i].writes)
    BY WritesOfMeans
  <2>3. k \in FieldKeys[writes[i].field] /\ writes[i].field \in Fields
    BY <1>4, <2>1, <2>2 DEF CallsFor
  <2>4. k \in Plain
    BY <2>3, KeysAre
  <2>5. ValueOK(k, values[k])
    BY <1>5, <2>4, StoredTyped, KeysAre
  <2>6. k = "provider" => values[k] # "cloudkit"
    BY <1>5 DEF ConfigurationInv, NoCloudkit
  <2> QED BY <2>4, <2>5, <2>6
<1>9. /\ WellTyped(new, Keys) /\ new["provider"] # "cloudkit"
      /\ new["backend"] = stored["backend"] /\ new["dropbox"] = stored["dropbox"]
      /\ Head(writes).field \in Fields /\ Head(writes) = writes[1] /\ 1 \in DOMAIN writes
      /\ DOMAIN NextWrite \subseteq FieldKeys[Head(writes).field]
      /\ \A k \in Keys : new[k] = IF k \in DOMAIN NextWrite THEN values[k] ELSE stored[k]
      /\ left \in Seq(Calls) /\ CallsFor(left, values)
      /\ KeysOf(writes) = KeysOf(left) \cup DOMAIN NextWrite
      /\ CalledFields(left) \subseteq CalledFields(writes)
  <2>1. writes # <<>> /\ CallsFor(writes, values) /\ new = Overwrite(stored, NextWrite)
        /\ left = IF Tail(Head(writes).writes) = <<>> THEN Tail(writes)
                  ELSE [writes EXCEPT ![1].writes = Tail(Head(writes).writes)]
    BY <1>1, <1>4, <1>5, <1>6, <1>7
  <2>2. pc \in {"transport", "restoring"}
    BY <1>1
  <2> HIDE DEF ConfigurationInv
  <2>3. \A k \in KeysOf(writes) : /\ k \in Plain /\ ValueOK(k, values[k])
                                  /\ k = "provider" => values[k] # "cloudkit"
    BY <1>8
  <2>4. /\ WellTyped(new, Keys) /\ new["provider"] # "cloudkit"
        /\ new["backend"] = stored["backend"] /\ new["dropbox"] = stored["dropbox"]
        /\ Head(writes).field \in Fields /\ Head(writes) = writes[1] /\ 1 \in DOMAIN writes
        /\ DOMAIN NextWrite \subseteq FieldKeys[Head(writes).field]
        /\ \A k \in Keys : new[k] = IF k \in DOMAIN NextWrite THEN values[k] ELSE stored[k]
        /\ left \in Seq(Calls) /\ CallsFor(left, values)
        /\ KeysOf(writes) = KeysOf(left) \cup DOMAIN NextWrite
    BY <2>1, <2>2, <2>3, NextWriteEffect
  <2>5. CalledFields(left) \subseteq CalledFields(writes)
    BY <2>1, <2>2, <2>3, NextWriteEffect
  <2> QED BY <2>4, <2>5
<1>10. \/ stored' = new /\ faults' = faults /\ writes' = left /\ errors' = errors
       \/ /\ stored' \in {stored, new} /\ faults < MaxFaults /\ faults' = faults + 1
          /\ writes' = Tail(writes) /\ errors' = errors \cup {"restore"}
  <2>1. CASE WriteNext /\ UNCHANGED errors
    BY <1>6, <1>7, <2>1, Zenon DEF WriteNext
  <2>2. CASE /\ WriteFails(NextWrite) /\ writes' = Tail(writes)
             /\ errors' = errors \cup {"restore"}
    BY <1>6, <2>2, Zenon DEF WriteFails, Fault
  <2> QED BY <2>1, <2>2 DEF Restore
<1>11. /\ stored' \in {stored, new} /\ faults' \in 0..MaxFaults /\ faults' >= faults
       /\ WellTyped(stored, Keys)' /\ stored'["provider"] # "cloudkit"
       /\ stored'["backend"] = "off" /\ stored'["dropbox"] = stored["dropbox"]
  <2>1. stored' \in {stored, new}
    BY <1>10
  <2>2. WellTyped(stored, Keys)'
    BY <1>2, <1>9, <2>1 DEF WellTyped
  <2> QED BY <1>2, <1>9, <1>10, <2>1, <2>2
<1>12. TypeOK' /\ NoCloudkit' /\ SnapshotTrue' /\ BothProven'
  <2>1. /\ touched' \subseteq Fields /\ errors' \subseteq {"disable", "credentials", "restore"}
        /\ outcome' \in {"none", "committed", "failed", "disabled", "crashed"} /\ pc' \in Points
    BY <1>1, <1>10 DEF transaction, ConfigurationInv, TransactionInv, TypeOK, Points
  <2> QED BY <1>1, <1>11, <2>1, Frame DEF transaction
<1>13. ActiveIsProven'
  BY <1>11, ActiveOff
<1>14. UntouchedKept'
  <2>1. UntouchedKept
    BY DEF ConfigurationInv, TransactionInv
  <2>2. Head(writes).field \in touched
    BY <1>3, <1>9
  <2>3. ASSUME NEW f \in Fields \ touched, NEW k \in FieldKeys[f] PROVE stored'[k] = before[k]
    <3>1. k \in Keys /\ k \notin DOMAIN NextWrite
      BY <1>9, <2>2, <2>3, KeysAre
    <3>2. stored[k] = before[k]
      BY <1>1, <2>1, <2>3 DEF UntouchedKept
    <3> QED BY <1>9, <1>11, <3>1, <3>2
  <2>4. IF tokensBefore = <<>> THEN stored'["dropbox"] = before["dropbox"]
        ELSE tokensBefore = <<before["dropbox"]>> /\ candidate = "dropbox"
    BY <1>1, <1>11, <2>1 DEF UntouchedKept
  <2> QED BY <1>1, <2>3, <2>4 DEF UntouchedKept, transaction
<1>15. OutcomeIsTrue' /\ OneFaultIsUndone'
  BY <1>1, <1>11, OutcomeFrame
<1>16. FlagInv' /\ CandidateWritten'
  BY <1>1, <1>11 DEF FlagInv, CandidateWritten
<1>17. /\ writes' \in Seq(Calls) /\ CallsFor(writes', values)
       /\ \A i \in DOMAIN writes' : writes'[i].field \in touched
  <2>1. \A i \in DOMAIN left : left[i].field \in touched
    <3>1. CalledFields(writes) \subseteq touched
      BY <1>3, Zenon DEF CalledFields
    <3>2. CalledFields(left) \subseteq touched
      BY <1>9, <3>1
    <3> QED BY <3>2, Zenon DEF CalledFields
  <2>2. /\ Tail(writes) \in Seq(Calls) /\ CallsFor(Tail(writes), values)
        /\ \A i \in DOMAIN Tail(writes) : Tail(writes)[i].field \in touched
    <3>1. writes \in Seq(Calls)
      BY <1>1 DEF ConfigurationInv, WritesAreCalls
    <3>2. PICK t : t = Tail(writes)
      OBVIOUS
    <3>3. t \in Seq(Calls) /\ \A i \in DOMAIN t : t[i] = writes[i + 1] /\ i + 1 \in DOMAIN writes
      BY <1>1, <3>1, <3>2, TailIs
    <3>4. CallsFor(writes, values)
      BY <1>4, <1>5
    <3>5. CallsFor(t, values)
      BY <3>3, <3>4 DEF CallsFor
    <3>6. \A i \in DOMAIN t : t[i].field \in touched
      BY <1>3, <3>3
    <3> QED BY <3>2, <3>3, <3>5, <3>6
  <2> QED BY <1>9, <1>10, <2>1, <2>2
<1>18. PendingFor(previous.values)'
  <2>1. PendingFor(previous.values)' <=> CallsFor(writes', previous'.values)
    BY Zenon DEF PendingFor, CallsFor
  <2>2. previous'.values = values
    BY <1>1, <1>5 DEF transaction
  <2> QED BY <1>17, <2>1, <2>2
<1>19. /\ faults' > 0 /\ (faults' = 1 => faults = 1 /\ stored' = new /\ writes' = left /\ errors' = errors)
  BY <1>2, <1>3, <1>10
<1>20. faults' = 1 => \A f \in touched : \A k \in FieldKeys[f] :
                           stored'[k] = values[k] \/ k \in Pending'
  <2> SUFFICES ASSUME faults' = 1, NEW f \in touched, NEW k \in FieldKeys[f]
               PROVE  stored'[k] = values[k] \/ k \in KeysOf(writes')
    BY PendingIsPrimed
  <2>1. f \in Fields /\ k \in Keys
    BY KeysAre DEF ConfigurationInv, TransactionInv, TypeOK
  <2>2. stored[k] = values[k] \/ k \in KeysOf(writes)
    BY <1>3, <1>4, <1>5, <1>19
  <2> QED BY <1>9, <1>19, <2>1, <2>2
<1>21. RollbackInv'
  <2>1. \A f : CannotRestore(f)' <=> CannotRestore(f)
    BY <1>1 DEF CannotRestore, transaction
  <2>2. "credentials" \in errors' \/ stored'["dropbox"] = before'["dropbox"]
    BY <1>1, <1>3, <1>10, <1>11 DEF transaction
  <2>3. "restore" \notin errors' => \A f \in touched' : ~CannotRestore(f)'
    BY <1>1, <1>3, <1>10, <2>1 DEF transaction
  <2>4. faults' = 1 => errors' = {} /\ (touched' = {} \/ previous'.opaque = {})
    BY <1>1, <1>3, <1>19 DEF transaction
  <2>5. \A i \in DOMAIN writes' : writes'[i].field \in touched'
    BY <1>1, <1>17 DEF transaction
  <2>6. faults' = 1 => \A f \in touched' : \A k \in FieldKeys[f] :
                           stored'[k] = previous'.values[k] \/ k \in Pending'
    BY <1>1, <1>5, <1>20 DEF transaction
  <2>7. pc' = "restoring"
    BY <1>1
  <2> QED BY <1>18, <1>19, <2>2, <2>3, <2>4, <2>5, <2>6, <2>7 DEF RollbackInv
<1>22. WritesAreCalls'
  BY <1>17 DEF WritesAreCalls
<1> QED
  BY <1>12, <1>13, <1>14, <1>15, <1>16, <1>21, <1>22 DEF ConfigurationInv, TransactionInv

(* Reading back a configuration of which nothing could not be read: what it   *)
(* is compared with is what is stored, up to the secrets that are opaque.     *)
LEMMA AllReadMatches ==
    ASSUME ConfigurationInv, NEW values, values["backend"] = stored["backend"],
           \A k \in Plain \ previous.opaque : values[k] = stored[k]
    PROVE  ConfigurationMatches(Snapshot({}), values, previous.opaque)
<1>1. /\ Snapshot({}).opaque = {}
      /\ \A k \in Plain \cup {"backend"} : Snapshot({}).values[k] = stored[k]
  <2>1. WellTyped(stored, Keys) /\ stored["provider"] # "cloudkit" /\ {} \in SUBSET Secrets
    BY StoredTyped DEF ConfigurationInv, NoCloudkit
  <2>2. /\ Snapshot({}).opaque = {}
        /\ \A k \in (Plain \cup {"backend"}) \ {} : Snapshot({}).values[k] = stored[k]
    BY <2>1, SnapshotIs
  <2> QED BY <2>2
<1>2. \A k \in Plain \cup {"backend"} : Matches(Snapshot({}), values, previous.opaque, k)
  BY <1>1 DEF Matches
<1> QED
  BY <1>2, KeysAre DEF ConfigurationMatches

(* A snapshot that matches agrees with every plain key that was readable. *)
LEMMA MatchMeans ==
    ASSUME ConfigurationInv, NEW unread \in SUBSET Secrets, NEW values,
           ConfigurationMatches(Snapshot(unread), values, previous.opaque)
    PROVE  \A k \in Plain \ previous.opaque : stored[k] = values[k]
<1>1. /\ Snapshot(unread).opaque = unread
      /\ \A k \in (Plain \cup {"backend"}) \ unread : Snapshot(unread).values[k] = stored[k]
  <2>1. WellTyped(stored, Keys) /\ stored["provider"] # "cloudkit"
    BY StoredTyped DEF ConfigurationInv, NoCloudkit
  <2> QED BY <2>1, SnapshotIs
<1>2. \A k \in Plain : Matches(Snapshot(unread), values, previous.opaque, k)
  BY KeysAre DEF ConfigurationMatches
<1> QED
  BY <1>1, <1>2 DEF Matches

(* Reading the restored values back keeps the invariant. *)
LEMMA VerifyRestoredStep ==
    ASSUME ConfigurationInv, VerifyRestored
    PROVE  ConfigurationInv'
<1>1. /\ writes = <<>> /\ pc = "restoring" /\ UNCHANGED <<transaction, writes, errors, outcome, stored>>
  BY ReadBackEffect DEF VerifyRestored, To, store
<1>2. /\ stored["backend"] = "off" /\ faults \in 0..MaxFaults /\ MaxFaults \in Nat
      /\ WellTyped(stored, Keys)'
  BY <1>1, StoredTyped DEF ConfigurationInv, TransactionInv, FlagInv, WellTyped
<1>3. /\ faults > 0 /\ (faults = 1 => errors = {} /\ (touched = {} \/ previous.opaque = {}))
      /\ "credentials" \in errors \/ stored["dropbox"] = before["dropbox"]
      /\ "restore" \notin errors => \A f \in touched : ~CannotRestore(f)
      /\ faults = 1 => \A f \in touched : \A k \in FieldKeys[f] :
                           stored[k] = previous.values[k] \/ k \in Pending
  BY <1>1 DEF ConfigurationInv, TransactionInv, RollbackInv
<1>4. \A k \in Plain \cup {"backend"} : k \notin previous.opaque => previous.values[k] = before[k]
  BY <1>1, KeysAre DEF ConfigurationInv, TransactionInv, SnapshotTrue
<1>5. \A f \in Fields \ touched : \A k \in FieldKeys[f] : stored[k] = before[k]
  BY <1>1 DEF ConfigurationInv, TransactionInv, UntouchedKept
<1>6. PICK values : values = Disabled(previous.values)
  OBVIOUS
<1>7. values["backend"] = "off" /\ \A k \in Plain : values[k] = previous.values[k]
  <2>1. previous.values = [k \in Plain \cup {"backend"} |-> previous.values[k]]
    BY StoredTyped, KeysAre
  <2> QED BY <1>6, <2>1, KeysAre DEF Disabled
<1>8. "backend" \notin previous.opaque /\ "webdav" \notin previous.opaque
      /\ previous.opaque \subseteq {"password", "token"}
  BY StoredTyped DEF Secrets
<1>9. /\ faults' \in 0..MaxFaults /\ faults' >= faults
      /\ \/ pc' = "keepDisabled" /\ faults' > 1
         \/ /\ pc' = Restored /\ "restore" \notin errors
            /\ \A k \in Plain \ previous.opaque : stored[k] = values[k]
  <2>1. CASE "restore" \in errors /\ To("keepDisabled") /\ UNCHANGED store
    BY <1>2, <1>3, <2>1 DEF To, store
  <2>2. CASE /\ "restore" \notin errors
             /\ ReadBack("restoring", required, values, previous.opaque, Restored, "keepDisabled")
    <3>1. /\ faults' \in 0..MaxFaults /\ faults' >= faults
          /\ \/ pc' = "keepDisabled" /\ faults' > faults
             \/ pc' = "keepDisabled" /\ ~ConfigurationMatches(Snapshot({}), values, previous.opaque)
             \/ /\ pc' = Restored
                /\ \E unread \in SUBSET Secrets :
                      ConfigurationMatches(Snapshot(unread), values, previous.opaque)
      BY <2>2, ReadBackEffect
    <3>2. faults = 1 => ConfigurationMatches(Snapshot({}), values, previous.opaque)
      <4> SUFFICES ASSUME faults = 1 PROVE \A k \in Plain \ previous.opaque : values[k] = stored[k]
        BY <1>2, <1>7, AllReadMatches
      <4>1. Pending = {}
        <5>1. WritesOf(writes) = {}
          BY <1>1, WritesOfMeans
        <5> QED BY <5>1, PendingIs, Zenon DEF KeysOf
      <4> TAKE k \in Plain \ previous.opaque
      <4>2. PICK f \in Fields : k \in FieldKeys[f]
        BY KeysAre
      <4>3. CASE f \in touched
        BY <1>3, <1>7, <4>1, <4>2, <4>3
      <4>4. CASE f \notin touched
        BY <1>4, <1>5, <1>7, <4>2, <4>4
      <4> QED BY <4>3, <4>4
    <3>3. CASE pc' = "keepDisabled" /\ faults' > faults
      BY <1>2, <1>3, <3>1, <3>3
    <3>4. CASE pc' = "keepDisabled" /\ ~ConfigurationMatches(Snapshot({}), values, previous.opaque)
      <4>1. faults # 1
        BY <3>2, <3>4
      <4> QED BY <1>2, <1>3, <3>1, <3>4, <4>1
    <3>5. CASE /\ pc' = Restored
               /\ \E unread \in SUBSET Secrets :
                      ConfigurationMatches(Snapshot(unread), values, previous.opaque)
      BY <2>2, <3>1, <3>5, MatchMeans
    <3> QED BY <3>1, <3>3, <3>4, <3>5
  <2> QED BY <1>1, <1>6, <2>1, <2>2 DEF VerifyRestored
<1>10. pc' \in {"keepDisabled", "reactivate", "rolledBack"}
  BY <1>9 DEF Restored
<1>11. /\ TypeOK' /\ NoCloudkit' /\ SnapshotTrue' /\ BothProven' /\ UntouchedKept'
       /\ ActiveIsProven'
  BY <1>1, <1>2, <1>9, <1>10, FlagFrame DEF Points
<1>12. OutcomeIsTrue' /\ OneFaultIsUndone'
  BY <1>1, <1>9, <1>10, OutcomeFrame
<1>13. CandidateWritten' /\ WritesAreCalls'
  BY <1>10 DEF CandidateWritten, WritesAreCalls
<1>14. CASE pc' = "keepDisabled"
  <2>1. faults' > 1 /\ faults' > 0 /\ faults' # 1
    BY <1>9, <1>14 DEF Restored
  <2>2. FlagInv' /\ RollbackInv'
    BY <1>14, <2>1 DEF FlagInv, RollbackInv
  <2> QED
    BY <1>11, <1>12, <1>13, <2>2 DEF ConfigurationInv, TransactionInv
<1>15. CASE pc' # "keepDisabled"
  <2>1. /\ pc' = Restored /\ "restore" \notin errors
        /\ \A k \in Plain \ previous.opaque : stored[k] = values[k]
    BY <1>9, <1>15
  <2>2. previous.values["backend"] = before["backend"] /\ previous.values["webdav"] = before["webdav"]
    BY <1>4, <1>8, KeysAre
  <2>3. /\ pc' = "reactivate" => "credentials" \notin errors /\ before["backend"] # "off"
        /\ pc' = "rolledBack" => "credentials" \in errors \/ before["backend"] = "off"
    BY <2>1, <2>2 DEF Restored
  <2>4. FlagInv'
    BY <1>1, <1>2, <1>10, <2>3 DEF FlagInv, transaction
  <2>5. ASSUME NEW k \in Plain
        PROVE  \/ stored[k] = before[k]
               \/ /\ k = "password" /\ k \in previous.opaque
                  /\ before["webdav"] = 0 /\ before["backend"] # "webdav"
    <3>1. CASE k \notin previous.opaque
      BY <1>4, <1>7, <2>1, <3>1
    <3>2. CASE k = "token" /\ k \in previous.opaque
      <4>1. "token" \in FieldKeys["cloud"] /\ "cloud" \in Fields
        BY DEF FieldKeys, Fields
      <4>2. CannotRestore("cloud")
        BY <3>2 DEF CannotRestore
      <4>3. "cloud" \notin touched
        BY <1>3, <2>1, <4>2
      <4> QED BY <1>5, <3>2, <4>1, <4>3
    <3>3. CASE k = "password" /\ k \in previous.opaque
      <4>1. "password" \in FieldKeys["webdav"] /\ "webdav" \in Fields
        BY DEF FieldKeys, Fields
      <4>2. CASE "webdav" \notin touched
        BY <1>5, <3>3, <4>1, <4>2
      <4>3. CASE "webdav" \in touched
        <5>1. ~CannotRestore("webdav")
          BY <1>3, <2>1, <4>3
        <5> QED BY <2>2, <3>3, <5>1 DEF CannotRestore
      <4> QED BY <4>2, <4>3
    <3> QED BY <1>8, <3>1, <3>2, <3>3
  <2>6. /\ faults' > 0
        /\ faults' = 1 => errors' = {} /\ (touched' = {} \/ previous'.opaque = {})
    BY <1>1, <1>2, <1>3, <1>9 DEF transaction
  <2>7. RollbackInv'
    <3>1. \A k \in (Keys \ {"backend", "dropbox"}) :
              \/ stored'[k] = before'[k]
              \/ /\ k = "password" /\ k \in previous'.opaque
                 /\ before'["webdav"] = 0 /\ before'["backend"] # "webdav"
      BY <1>1, <2>5 DEF transaction, Plain
    <3>2. "credentials" \in errors' \/ stored'["dropbox"] = before'["dropbox"]
      BY <1>1, <1>3 DEF transaction
    <3> QED BY <1>10, <1>15, <2>6, <3>1, <3>2 DEF RollbackInv
  <2> QED
    BY <1>11, <1>12, <1>13, <2>4, <2>7 DEF ConfigurationInv, TransactionInv
<1> QED BY <1>14, <1>15

(* Activating the previous backend keeps the invariant. *)
LEMMA ReactivateStep ==
    ASSUME ConfigurationInv, Reactivate
    PROVE  ConfigurationInv'
<1>1. PICK b : b = previous.values["backend"]
  OBVIOUS
<1>2. pc = "reactivate" /\ b \in Backends
  <2>1. pc = "reactivate"
    BY DEF Reactivate, WriteBackend
  <2>2. WellTyped(previous.values, Keys \ {"dropbox"})
    BY StoredTyped
  <2> QED BY <1>1, <2>1, <2>2 DEF WellTyped, Backends
<1>3. /\ UNCHANGED <<transaction, writes, errors, outcome>>
      /\ WellTyped(stored, Keys)' /\ \A k \in Keys \ {"backend"} : stored'[k] = stored[k]
      /\ faults' \in 0..MaxFaults
      /\ \/ pc' = "reactivated" /\ stored'["backend"] = b /\ faults' = faults
         \/ pc' = "keepDisabled" /\ stored'["backend"] \in {b, stored["backend"]} /\ faults' = faults + 1
  <2>1. WriteBackend("reactivate", b, "reactivated", "keepDisabled")
    BY <1>1 DEF Reactivate
  <2> QED BY <1>2, <2>1, WriteBackendEffect, Zenon
<1>4. /\ b = before["backend"] /\ stored["backend"] = "off" /\ before["backend"] # "off"
      /\ "credentials" \notin errors
  <2>1. "backend" \in Keys \ {"dropbox"} /\ "backend" \notin previous.opaque
    BY StoredTyped DEF Keys, Secrets
  <2> QED
    BY <1>1, <1>2, <2>1 DEF ConfigurationInv, TransactionInv, SnapshotTrue, FlagInv
<1>5. /\ \A k \in Plain :
            \/ stored[k] = before[k]
            \/ /\ k = "password" /\ k \in previous.opaque
               /\ before["webdav"] = 0 /\ before["backend"] # "webdav"
      /\ stored["dropbox"] = before["dropbox"]
  BY <1>2, <1>4 DEF ConfigurationInv, TransactionInv, RollbackInv, Plain
<1>6. faults' >= faults
  BY <1>3, StoredTyped
<1>7. /\ faults' > 0 /\ (faults' = 1 => errors' = {} /\ (touched' = {} \/ previous'.opaque = {}))
      /\ faults' > faults => faults' > 1
      /\ faults \in 0..MaxFaults
  BY <1>2, <1>3, <1>6, RollbackAccount DEF Undoing, Restoring
<1>8. TypeOK' /\ NoCloudkit' /\ SnapshotTrue' /\ BothProven' /\ UntouchedKept'
  BY <1>2, <1>3, <1>6, FlagFrame DEF Points
<1>9. ActiveIsProven'
  <2>1. CASE stored'["backend"] = "off"
    BY <2>1, ActiveOff
  <2>2. CASE stored'["backend"] = before["backend"]
    <3>1. \A k \in Keys \ {"backend"} : stored'[k] = before[k] \/ (k = "password" /\ before["backend"] # "webdav")
      BY <1>3, <1>5, KeysAre
    <3>2. before["backend"] # "webdav" => "password" \notin UsedKeys(before)
      BY DEF UsedKeys
    <3>3. \A k \in UsedKeys(before) : before[k] = stored'[k]
      BY <3>1, <3>2, UsedKeysAreKeys
    <3>4. before["provider"] = stored'["provider"]
      BY <3>1 DEF Keys
    <3>5. PICK values : values = stored'
      OBVIOUS
    <3>6. Used(before) = Used(values)
      BY <2>2, <3>3, <3>4, <3>5, UsedSame
    <3>7. Used(stored)' = Used(values)
      BY <3>5, Zenon DEF Used, UsedKeys
    <3>8. Used(before) \in proven
      BY <1>2, <1>4 DEF ConfigurationInv, TransactionInv, BothProven
    <3> QED BY <1>3, <3>6, <3>7, <3>8 DEF ActiveIsProven, transaction
  <2> QED BY <1>3, <1>4, <2>1, <2>2
<1>10. OutcomeIsTrue' /\ OneFaultIsUndone'
  BY <1>3, <1>6, OutcomeFrame
<1>11. CandidateWritten' /\ WritesAreCalls'
  BY <1>3 DEF CandidateWritten, WritesAreCalls
<1>12. FlagInv' /\ RollbackInv'
  <2>1. CASE pc' = "keepDisabled"
    <3>1. faults' > 1
      BY <1>3, <1>7, <2>1
    <3> QED BY <1>7, <2>1, <3>1 DEF FlagInv, RollbackInv
  <2>2. CASE pc' = "reactivated"
    <3>1. stored'["backend"] = before'["backend"] /\ before'["backend"] # "off"
          /\ "credentials" \notin errors'
      BY <1>3, <1>4, <2>2 DEF transaction
    <3>2. FlagInv'
      BY <2>2, <3>1 DEF FlagInv
    <3>3. \A k \in Keys \ {"backend", "dropbox"} :
              \/ stored'[k] = before'[k]
              \/ /\ k = "password" /\ k \in previous'.opaque
                 /\ before'["webdav"] = 0 /\ before'["backend"] # "webdav"
      BY <1>3, <1>5 DEF transaction, Plain
    <3>4. stored'["dropbox"] = before'["dropbox"]
      BY <1>3, <1>5 DEF transaction, Keys
    <3>5. RollbackInv'
      BY <1>7, <2>2, <3>3, <3>4 DEF RollbackInv
    <3> QED BY <3>2, <3>5
  <2> QED BY <1>3, <2>1, <2>2
<1> QED
  BY <1>8, <1>9, <1>10, <1>11, <1>12 DEF ConfigurationInv, TransactionInv

(* Reading the reactivated configuration back keeps the invariant. *)
LEMMA VerifyReactivatedStep ==
    ASSUME ConfigurationInv, VerifyReactivated
    PROVE  ConfigurationInv'
<1>1. PICK values : values = previous.values
  OBVIOUS
<1>2. /\ pc = "reactivated" /\ UNCHANGED <<transaction, writes, errors, outcome, stored>>
      /\ faults' \in 0..MaxFaults /\ faults' >= faults
      /\ \/ pc' = "keepDisabled" /\ faults' > faults
         \/ pc' = "keepDisabled" /\ ~ConfigurationMatches(Snapshot({}), values, previous.opaque)
         \/ pc' = "rolledBack"
  <2>1. ReadBack("reactivated", required, values, previous.opaque, "rolledBack", "keepDisabled")
    BY <1>1 DEF VerifyReactivated
  <2> QED BY <2>1, ReadBackEffect
<1>3. /\ stored["backend"] = before["backend"] /\ "credentials" \notin errors
      /\ stored["dropbox"] = before["dropbox"]
      /\ \A k \in Plain :
            \/ stored[k] = before[k]
            \/ /\ k = "password" /\ k \in previous.opaque
               /\ before["webdav"] = 0 /\ before["backend"] # "webdav"
  BY <1>2 DEF ConfigurationInv, TransactionInv, FlagInv, RollbackInv, Plain
<1>4. ConfigurationMatches(Snapshot({}), values, previous.opaque)
  <2>1. \A k \in Plain \cup {"backend"} : k \notin previous.opaque => values[k] = before[k]
    BY <1>1, <1>2, KeysAre DEF ConfigurationInv, TransactionInv, SnapshotTrue
  <2>2. "backend" \notin previous.opaque
    BY StoredTyped DEF Secrets
  <2>3. values["backend"] = stored["backend"] /\ \A k \in Plain \ previous.opaque : values[k] = stored[k]
    BY <1>3, <2>1, <2>2
  <2> QED BY <2>3, AllReadMatches
<1>5. /\ faults' > 0 /\ (faults' = 1 => errors' = {} /\ (touched' = {} \/ previous'.opaque = {}))
      /\ faults' > faults => faults' > 1
      /\ WellTyped(stored, Keys)'
  <2>1. WellTyped(stored, Keys)'
    BY <1>2, StoredTyped DEF WellTyped
  <2> QED BY <1>2, <2>1, RollbackAccount DEF Undoing, Restoring
<1>6. /\ TypeOK' /\ NoCloudkit' /\ SnapshotTrue' /\ BothProven' /\ UntouchedKept'
      /\ ActiveIsProven'
  BY <1>2, <1>5, FlagFrame DEF Points
<1>7. OutcomeIsTrue' /\ OneFaultIsUndone'
  BY <1>2, OutcomeFrame
<1>8. CandidateWritten' /\ WritesAreCalls'
  BY <1>2 DEF CandidateWritten, WritesAreCalls
<1>9. FlagInv' /\ RollbackInv'
  <2>1. CASE pc' = "keepDisabled"
    <3>1. faults' > 1
      BY <1>2, <1>4, <1>5, <2>1
    <3> QED BY <1>5, <2>1, <3>1 DEF FlagInv, RollbackInv
  <2>2. CASE pc' = "rolledBack"
    <3>1. FlagInv'
      BY <1>2, <1>3, <2>2 DEF FlagInv, transaction
    <3>2. \A k \in Keys \ {"backend", "dropbox"} :
              \/ stored'[k] = before'[k]
              \/ /\ k = "password" /\ k \in previous'.opaque
                 /\ before'["webdav"] = 0 /\ before'["backend"] # "webdav"
      BY <1>2, <1>3 DEF transaction, Plain
    <3>3. RollbackInv'
      BY <1>2, <1>3, <1>5, <2>2, <3>2 DEF RollbackInv, transaction
    <3> QED BY <3>1, <3>3
  <2> QED BY <1>2, <2>1, <2>2
<1> QED
  BY <1>6, <1>7, <1>8, <1>9 DEF ConfigurationInv, TransactionInv

(* The end of a rollback keeps the invariant. *)
LEMMA RolledBackStep ==
    ASSUME ConfigurationInv, RolledBack
    PROVE  ConfigurationInv'
<1>1. /\ pc = "rolledBack" /\ pc' = "idle" /\ UNCHANGED <<stored, faults, transaction, errors>>
      /\ outcome' = IF "credentials" \in errors THEN "disabled" ELSE "failed"
  BY DEF RolledBack, End, store
<1>2. /\ TypeOK' /\ NoCloudkit' /\ ActiveIsProven' /\ SnapshotTrue' /\ BothProven'
      /\ UntouchedKept' /\ FlagInv' /\ CandidateWritten' /\ RollbackInv' /\ WritesAreCalls'
  BY <1>1, StoredTyped, EndFrame
<1>3. faults > 0 /\ (faults = 1 => errors = {})
  BY <1>1 DEF ConfigurationInv, TransactionInv, RollbackInv
<1>4. OneFaultIsUndone'
  <2>1. outcome' = "disabled" => faults > 1
    BY <1>1, <1>3, StoredTyped
  <2> QED BY <1>1, <2>1 DEF OneFaultIsUndone
<1>5. OutcomeIsTrue'
  <2>1. ASSUME "credentials" \notin errors, NEW k \in Keys
        PROVE  stored[k] = before[k] \/ (k = "password" /\ before["webdav"] = 0)
    <3>1. stored["backend"] = before["backend"] /\ stored["dropbox"] = before["dropbox"]
      BY <1>1, <2>1 DEF ConfigurationInv, TransactionInv, FlagInv, RollbackInv
    <3>2. \A x \in Plain : stored[x] = before[x] \/ (x = "password" /\ before["webdav"] = 0)
      BY <1>1 DEF ConfigurationInv, TransactionInv, RollbackInv, Plain
    <3> QED BY <3>1, <3>2, KeysAre
  <2> QED BY <1>1, <2>1 DEF OutcomeIsTrue, transaction
<1> QED
  BY <1>2, <1>4, <1>5 DEF ConfigurationInv, TransactionInv

(* A rollback that leaves sync off keeps the invariant. *)
LEMMA KeepDisabledStep ==
    ASSUME ConfigurationInv, KeepDisabled
    PROVE  ConfigurationInv'
<1>1. /\ pc = "keepDisabled" /\ pc' = "idle" /\ UNCHANGED <<transaction, writes, errors>>
      /\ outcome' = "disabled"
  BY DEF KeepDisabled, End
<1>2. /\ WellTyped(stored, Keys)' /\ \A k \in Keys \ {"backend"} : stored'[k] = stored[k]
      /\ stored'["backend"] \in {"off", stored["backend"]}
      /\ faults' \in 0..MaxFaults /\ faults' >= faults
  BY SwitchedOff DEF KeepDisabled
<1>3. faults > 1 /\ faults \in 0..MaxFaults /\ MaxFaults \in Nat
  BY <1>1, StoredTyped DEF ConfigurationInv, TransactionInv, RollbackInv
<1>4. /\ TypeOK' /\ NoCloudkit' /\ SnapshotTrue' /\ BothProven' /\ UntouchedKept'
      /\ ActiveIsProven'
  BY <1>1, <1>2, FlagFrame DEF Points
<1>5. OutcomeIsTrue' /\ OneFaultIsUndone'
  <2>1. faults' > 1
    BY <1>2, <1>3
  <2> QED BY <1>1, <2>1 DEF OutcomeIsTrue, OneFaultIsUndone
<1>6. FlagInv' /\ CandidateWritten' /\ RollbackInv' /\ WritesAreCalls'
  BY <1>1 DEF FlagInv, CandidateWritten, RollbackInv, WritesAreCalls
<1> QED
  BY <1>4, <1>5, <1>6 DEF ConfigurationInv, TransactionInv

(* A crash between any two writes keeps the invariant. *)
LEMMA CrashStep ==
    ASSUME ConfigurationInv, Crash
    PROVE  ConfigurationInv'
<1>1. /\ pc # "idle" /\ pc' = "idle" /\ UNCHANGED <<stored, faults, transaction, errors>>
      /\ outcome' = "crashed"
  BY DEF Crash, End
<1>2. /\ TypeOK' /\ NoCloudkit' /\ ActiveIsProven' /\ SnapshotTrue' /\ BothProven'
      /\ UntouchedKept' /\ FlagInv' /\ CandidateWritten' /\ RollbackInv' /\ WritesAreCalls'
  BY <1>1, StoredTyped, EndFrame
<1>3. OutcomeIsTrue' /\ OneFaultIsUndone'
  BY <1>1 DEF OutcomeIsTrue, OneFaultIsUndone
<1> QED
  BY <1>2, <1>3 DEF ConfigurationInv, TransactionInv

-----------------------------------------------------------------------------
(* A sync run may read the store and fill the cache, no more. *)
LEMMA SyncStep ==
    ASSUME ConfigurationInv,
           UNCHANGED <<stored, faults, transaction, pc, writes, errors, outcome>>
    PROVE  ConfigurationInv'
<1> USE DEF transaction
<1>1. TypeOK' /\ NoCloudkit' /\ WritesAreCalls' /\ SnapshotTrue' /\ OneFaultIsUndone'
  BY DEF ConfigurationInv, TransactionInv, TypeOK, WellTyped, NoCloudkit, WritesAreCalls,
         SnapshotTrue, OneFaultIsUndone
<1>2. ActiveIsProven' /\ BothProven' /\ UntouchedKept'
  BY DEF ConfigurationInv, TransactionInv, ActiveIsProven, BothProven, UntouchedKept, ProvenSetup,
         Used, UsedKeys
<1>3. OutcomeIsTrue' /\ FlagInv' /\ CandidateWritten' /\ RollbackInv'
  <2>1. Target' = Target /\ Pending' = Pending /\ PendingFor(Target)' = PendingFor(Target)
        /\ PendingFor(previous.values)' = PendingFor(previous.values)
    BY DEF Target, Pending, PendingWrites, PendingFor
  <2>2. \A f : CannotRestore(f)' = CannotRestore(f)
    BY DEF CannotRestore
  <2>3. OutcomeIsTrue' /\ FlagInv'
    BY DEF ConfigurationInv, TransactionInv, OutcomeIsTrue, FlagInv
  <2>4. CandidateWritten'
    BY <2>1 DEF ConfigurationInv, TransactionInv, CandidateWritten
  <2>5. RollbackInv'
    BY <2>1, <2>2 DEF ConfigurationInv, TransactionInv, RollbackInv
  <2> QED BY <2>3, <2>4, <2>5
<1> QED
  BY <1>1, <1>2, <1>3 DEF ConfigurationInv, TransactionInv

(* Every step of the transaction keeps the invariant. *)
LEMMA ConfigurationStep ==
    ASSUME Supported, ConfigurationInv, [ConfiguredNext]_allVars
    PROVE  ConfigurationInv'
<1>1. CASE Commit
  <2>1. ASSUME NEW c \in Candidates, Begin(c) PROVE ConfigurationInv'
    BY <2>1, BeginStep
  <2>2. CASE Require
    BY <2>2, RequireStep
  <2>3. CASE Disable
    BY <2>3, DisableStep
  <2>4. CASE VerifyDisabled
    BY <2>4, VerifyDisabledStep
  <2>5. CASE WriteTransport
    BY <2>5, WriteTransportStep
  <2>6. CASE VerifyTransport
    BY <2>6, VerifyTransportStep
  <2>7. CASE Promote
    BY <2>7, PromoteStep
  <2>8. CASE SaveTokens
    BY <2>8, SaveTokensStep
  <2>9. CASE VerifyPromoted
    BY <2>9, VerifyPromotedStep
  <2>10. CASE Activate
    BY <2>10, ActivateStep
  <2>11. CASE VerifyActive
    BY <2>11, VerifyActiveStep
  <2>12. CASE Committed
    BY <2>12, CommittedStep
  <2> QED
    BY <1>1, <2>1, <2>2, <2>3, <2>4, <2>5, <2>6, <2>7, <2>8, <2>9, <2>10, <2>11, <2>12 DEF Commit
<1>2. CASE Rollback
  <2>1. CASE Undo
    BY <2>1, UndoStep
  <2>2. CASE VerifyUndo
    BY <2>2, VerifyUndoStep
  <2>3. CASE UndoAgain
    BY <2>3, UndoAgainStep
  <2>4. CASE RollBackTokens
    BY <2>4, RollBackTokensStep
  <2>5. CASE DisableForRestore
    BY <2>5, DisableForRestoreStep
  <2>6. CASE BeginRestore
    BY <2>6, BeginRestoreStep
  <2>7. CASE Restore
    BY <2>7, RestoreStep
  <2>8. CASE VerifyRestored
    BY <2>8, VerifyRestoredStep
  <2>9. CASE Reactivate
    BY <2>9, ReactivateStep
  <2>10. CASE VerifyReactivated
    BY <2>10, VerifyReactivatedStep
  <2>11. CASE RolledBack
    BY <2>11, RolledBackStep
  <2>12. CASE KeepDisabled
    BY <2>12, KeepDisabledStep
  <2> QED
    BY <1>2, <2>1, <2>2, <2>3, <2>4, <2>5, <2>6, <2>7, <2>8, <2>9, <2>10, <2>11, <2>12 DEF Rollback
<1>3. CASE Crash
  BY <1>3, CrashStep
<1>4. CASE UNCHANGED <<stored, faults, transaction, pc, writes, errors, outcome>>
  BY <1>4, SyncStep
<1>5. ConfiguredNext \/ UNCHANGED allVars
  OBVIOUS
<1>6. CASE Configure \/ CrashAll
  BY <1>1, <1>2, <1>3, <1>6 DEF Configure, CrashAll
<1>7. CASE StartSync \/ ReadCached \/ ReadStored \/ CacheRead \/ EndSync \/ UNCHANGED allVars
  BY <1>4, <1>7
  DEF StartSync, ReadCached, ReadStored, CacheRead, EndSync, allVars, vars, store
<1> QED
  BY <1>5, <1>6, <1>7 DEF ConfiguredNext

(* commitProvenSyncConfiguration: for any number of transactions, whatever    *)
(* fails and whenever the process dies, only a proven setup is ever active,   *)
(* the outcome the user is told is what is stored, and one failed call is     *)
(* undone.                                                                    *)
THEOREM TransactionSafe ==
    ASSUME Supported
    PROVE  ConfiguredSpec => []TransactionInv
<1>1. InitSync => ConfigurationInv
  BY InitConfiguration DEF InitSync
<1>2. ConfigurationInv /\ [ConfiguredNext]_allVars => ConfigurationInv'
  BY ConfigurationStep
<1>3. ConfigurationInv => TransactionInv
  BY DEF ConfigurationInv
<1> QED
  BY <1>1, <1>2, <1>3, PTL DEF ConfiguredSpec

-----------------------------------------------------------------------------
(* Sync runs and the configuration cache *)

(* How far a run can be in its reading: the keys it has read, and those it    *)
(* still has to read, for the values that are stored.                         *)
Stage(read, left, values) ==
    \/ read = {} /\ left = <<"backend">>
    \/ read = {"backend"} /\ left = NextKeys("backend", values["backend"])
    \/ /\ values["backend"] = "file"
       /\ \/ read = {"backend", "path"} /\ left = <<"bookmark">>
          \/ read = {"backend", "path", "bookmark"} /\ left = <<>>
    \/ /\ values["backend"] = "webdav"
       /\ \/ read = {"backend", "webdav"} /\ left = <<"password">>
          \/ read = {"backend", "webdav", "password"} /\ left = <<>>
    \/ /\ values["backend"] = "cloud"
       /\ \/ read = {"backend", "provider"} /\ left = NextKeys("provider", values["provider"])
          \/ /\ values["provider"] = "dropbox"
             /\ read = {"backend", "provider", "dropbox"} /\ left = <<>>
          \/ /\ values["provider"] # "dropbox"
             /\ \/ read = {"backend", "provider", "cloud"} /\ left = <<"token">>
                \/ read = {"backend", "provider", "cloud", "token"} /\ left = <<>>

(* A port call that has written one key of its two has not emptied the cache  *)
(* yet.                                                                       *)
Uncleared == pc \in {"transport", "restoring"} /\ writes # <<>>
Listed == writes \in Seq(Range(writes))

(* While no call has failed a cached value is the stored one, or it was cached *)
(* late.  A run beside no transaction therefore reads what is stored, but for *)
(* the keys that were cached late before it began: it caches none late itself.*)
SyncInv ==
    /\ faults \in Nat /\ Listed
    /\ ~overlapped /\ syncing => pc = "idle" /\ ~overtaken
    /\ sampled # <<>> => syncing /\ need # <<>>
    /\ overtaken => sampled # <<>>
    /\ got = [k \in DOMAIN got |-> got[k]]
    /\ syncing => Stage(DOMAIN got, need, got)
    /\ faults = 0 =>
          /\ ~Uncleared => \A k \in DOMAIN cache : k \in late \/ cache[k] = stored[k]
          /\ sampled # <<>> /\ ~overtaken => sampled[1] = stored[Head(need)]
          /\ ~overlapped /\ syncing => \A k \in DOMAIN got : k \in late \/ got[k] = stored[k]

(* The keys that follow a key.                                                *)
LEMMA KeysThatFollow ==
    /\ \A v : NextKeys("backend", v) =
             IF v = "file" THEN <<"path", "bookmark">>
             ELSE IF v = "webdav" THEN <<"webdav", "password">>
             ELSE IF v = "cloud" THEN <<"provider">> ELSE <<>>
    /\ \A v : NextKeys("provider", v) =
             IF v = "dropbox" THEN <<"dropbox">> ELSE <<"cloud", "token">>
    /\ \A v, k : k \notin {"backend", "provider"} => NextKeys(k, v) = <<>>
<1>1. ASSUME NEW v
      PROVE  NextKeys("backend", v) =
             IF v = "file" THEN <<"path", "bookmark">>
             ELSE IF v = "webdav" THEN <<"webdav", "password">>
             ELSE IF v = "cloud" THEN <<"provider">> ELSE <<>>
  BY DEF NextKeys
<1>2. ASSUME NEW v
      PROVE  NextKeys("provider", v) =
             IF v = "dropbox" THEN <<"dropbox">> ELSE <<"cloud", "token">>
  BY DEF NextKeys
<1>3. ASSUME NEW v, NEW k, k \notin {"backend", "provider"}
      PROVE  NextKeys(k, v) = <<>>
  BY <1>3 DEF NextKeys
<1> QED BY <1>1, <1>2, <1>3

(* A run that has read everything has read what its backend works with.       *)
LEMMA LastStage ==
    ASSUME NEW D, NEW values, Stage(D, <<>>, values)
    PROVE  D = UsedKeys(values) \cup {"backend"}
  BY KeysThatFollow DEF Stage, UsedKeys

(* Reading one more key leads to the next stage.                              *)
LEMMA NextStage ==
    ASSUME NEW D, NEW n, NEW values, Stage(D, n, values), n # <<>>
    PROVE  Stage(D \cup {Head(n)}, Tail(n) \o NextKeys(Head(n), values[Head(n)]), values)
<1> DEFINE b == values["backend"]  p == values["provider"]
<1>1. \A x : Head(<<x>>) = x /\ Tail(<<x>>) = <<>>
  OBVIOUS
<1>2. \A x, y : Head(<<x, y>>) = x /\ Tail(<<x, y>>) = <<y>>
  OBVIOUS
<1>3. \A x, y : <<>> \o <<>> = <<>> /\ <<>> \o <<x>> = <<x>> /\ <<>> \o <<x, y>> = <<x, y>>
              /\ <<x>> \o <<>> = <<x>>
  OBVIOUS
<1>4. CASE D = {} /\ n = <<"backend">>
  <2>1. NextKeys("backend", b) \in {<<>>, <<"provider">>, <<"path", "bookmark">>, <<"webdav", "password">>}
    BY KeysThatFollow
  <2>2. <<>> \o NextKeys("backend", b) = NextKeys("backend", b)
    BY <1>3, <2>1
  <2> QED BY <1>1, <1>4, <2>2 DEF Stage
<1>5. CASE D = {"backend"} /\ n = NextKeys("backend", b)
  <2>1. CASE b = "file"
    <3>1. n = <<"path", "bookmark">> /\ NextKeys("path", values["path"]) = <<>>
      BY <1>5, <2>1, KeysThatFollow
    <3>2. Head(n) = "path" /\ Tail(n) \o NextKeys(Head(n), values[Head(n)]) = <<"bookmark">>
      BY <3>1, <1>2, <1>3
    <3> QED BY <1>5, <2>1, <3>2 DEF Stage
  <2>2. CASE b = "webdav"
    <3>1. n = <<"webdav", "password">> /\ NextKeys("webdav", values["webdav"]) = <<>>
      BY <1>5, <2>2, KeysThatFollow
    <3>2. Head(n) = "webdav" /\ Tail(n) \o NextKeys(Head(n), values[Head(n)]) = <<"password">>
      BY <3>1, <1>2, <1>3
    <3> QED BY <1>5, <2>2, <3>2 DEF Stage
  <2>3. CASE b = "cloud"
    <3>1. n = <<"provider">> /\ NextKeys("provider", p) \in {<<"dropbox">>, <<"cloud", "token">>}
      BY <1>5, <2>3, KeysThatFollow
    <3>2. Head(n) = "provider" /\ Tail(n) \o NextKeys(Head(n), values[Head(n)]) = NextKeys("provider", p)
      BY <3>1, <1>1, <1>3
    <3> QED BY <1>5, <2>3, <3>2 DEF Stage
  <2>4. CASE b \notin {"file", "webdav", "cloud"}
    BY <1>5, <2>4, KeysThatFollow
  <2> QED BY <2>1, <2>2, <2>3, <2>4
<1>6. CASE b = "cloud" /\ D = {"backend", "provider"} /\ n = NextKeys("provider", p)
  <2>1. CASE p = "dropbox"
    <3>1. n = <<"dropbox">> /\ NextKeys("dropbox", values["dropbox"]) = <<>>
      BY <1>6, <2>1, KeysThatFollow
    <3>2. Head(n) = "dropbox" /\ Tail(n) \o NextKeys(Head(n), values[Head(n)]) = <<>>
      BY <3>1, <1>1, <1>3
    <3> QED BY <1>6, <2>1, <3>2 DEF Stage
  <2>2. CASE p # "dropbox"
    <3>1. n = <<"cloud", "token">> /\ NextKeys("cloud", values["cloud"]) = <<>>
      BY <1>6, <2>2, KeysThatFollow
    <3>2. Head(n) = "cloud" /\ Tail(n) \o NextKeys(Head(n), values[Head(n)]) = <<"token">>
      BY <3>1, <1>2, <1>3
    <3> QED BY <1>6, <2>2, <3>2 DEF Stage
  <2> QED BY <2>1, <2>2
<1>7. ASSUME NEW last \in {"bookmark", "password", "token"}, n = <<last>>
      PROVE  Head(n) = last /\ Tail(n) \o NextKeys(Head(n), values[Head(n)]) = <<>>
  <2>1. NextKeys(last, values[last]) = <<>>
    BY KeysThatFollow
  <2> QED BY <1>1, <1>3, <1>7, <2>1
<1>8. CASE \/ b = "file" /\ D = {"backend", "path"} /\ n = <<"bookmark">>
           \/ b = "webdav" /\ D = {"backend", "webdav"} /\ n = <<"password">>
           \/ /\ b = "cloud" /\ p # "dropbox"
              /\ D = {"backend", "provider", "cloud"} /\ n = <<"token">>
  BY <1>7, <1>8 DEF Stage
<1> QED BY <1>4, <1>5, <1>6, <1>8 DEF Stage

(* What a call of the device store does beside its effect on the stored keys: *)
(* it fails, or empties the cache, or writes nothing, or leaves a port call   *)
(* half done.                                                                 *)
CallEffect ==
    /\ faults' \in Nat /\ Listed'
    /\ \/ faults' > faults
       \/ faults' = faults /\ cache' = [k \in {} |-> 0]
       \/ faults' = faults /\ cache' = cache /\ stored' = stored /\ ~Uncleared
       \/ faults' = faults /\ Uncleared'

(* A reading that misses a secret is a failed call. *)
LEMMA ReadEffect ==
    ASSUME faults \in Nat, NEW opaque \in SUBSET Secrets, NEW secrets,
           ReadDone(opaque, secrets)
    PROVE  faults' \in Nat /\ faults' >= faults /\ UNCHANGED <<stored, cache>>
  BY UnreadCount DEF ReadDone

(* Every list of calls is a list of what is in it. *)
LEMMA ListOf ==
    ASSUME NEW S, NEW s \in Seq(S)
    PROVE  /\ s \in Seq(Range(s)) /\ (s # <<>> => 1 \in DOMAIN s)
<1>1. Len(s) \in Nat /\ DOMAIN s = 1..Len(s) /\ s = [i \in 1..Len(s) |-> s[i]]
      /\ (s # <<>> => 1 \in DOMAIN s)
  OBVIOUS
<1>2. \A i \in 1..Len(s) : s[i] \in Range(s)
  BY <1>1 DEF Range
<1> HIDE DEF Range
<1> QED BY <1>1, <1>2

LEMMA CandidateCallsListed == CandidateCalls \in Seq(Range(CandidateCalls))
<1> DEFINE fs == FieldsOf(candidate)
           call(f) == PortCall(f, ExpectedValues)
           all == {call(f) : f \in Fields}
<1>1. fs \in {<<"syncPath">>, <<"webdav">>, <<"cloud", "cloudProvider">>, <<"cloudProvider">>}
  BY DEF FieldsOf
<1>2. fs \in Seq(Fields) /\ Len(fs) \in Nat /\ DOMAIN fs = 1..Len(fs)
  <2> HIDE DEF fs
  <2>1. CASE fs = <<"cloud", "cloudProvider">>
    BY <2>1 DEF Fields
  <2>2. ASSUME NEW f \in Fields, fs = <<f>> PROVE fs \in Seq(Fields)
    BY <2>2
  <2>3. fs \in Seq(Fields)
    BY <1>1, <2>1, <2>2 DEF Fields
  <2> QED BY <2>3
<1>3. CandidateCalls = [i \in DOMAIN fs |-> call(fs[i])]
  BY DEF CandidateCalls
<1> HIDE DEF fs, call
<1>4. \A i \in DOMAIN fs : call(fs[i]) \in all
  BY <1>2
<1> HIDE DEF all
<1>5. CandidateCalls \in Seq(all)
  BY <1>2, <1>3, <1>4
<1> QED BY <1>5, ListOf

LEMMA RestoreCallsListed == RestoreCalls \in Seq(Range(RestoreCalls))
<1> DEFINE call(f) == PortCall(f, previous.values)
           part(f) == IF f \in touched /\ ~CannotRestore(f) THEN <<call(f)>> ELSE <<>>
           all == {call(f) : f \in Fields}
<1>1. RestoreCalls = part("syncPath") \o part("webdav") \o part("cloud") \o part("cloudProvider")
  BY Zenon DEF RestoreCalls
<1> HIDE DEF call
<1>2. ASSUME NEW f \in Fields PROVE part(f) \in Seq(all)
  <2>1. call(f) \in all
    OBVIOUS
  <2> HIDE DEF all
  <2> QED BY <2>1
<1> HIDE DEF part, all
<1>3. /\ part("syncPath") \in Seq(all) /\ part("webdav") \in Seq(all)
      /\ part("cloud") \in Seq(all) /\ part("cloudProvider") \in Seq(all)
  BY <1>2 DEF Fields
<1>4. RestoreCalls \in Seq(all)
  BY <1>1, <1>3
<1> QED BY <1>4, ListOf

(* The next write of a list of calls leaves a list, and empties the cache     *)
(* unless it leaves a call half done.                                         *)
LEMMA WriteNextEffect ==
    ASSUME Listed, writes # <<>>, WriteNext, pc' = pc, pc \in {"transport", "restoring"}
    PROVE  /\ Listed' /\ faults' = faults
           /\ cache' = [k \in {} |-> 0] \/ Uncleared'
<1>1. 1 \in DOMAIN writes
  BY ListOf DEF Listed
<1>2. CASE Tail(Head(writes).writes) = <<>>
  <2>1. writes' = Tail(writes) /\ cache' = [k \in {} |-> 0] /\ faults' = faults
    BY <1>2 DEF WriteNext, ClearCache
  <2>2. Tail(writes) \in Seq(Range(writes))
    BY TailIs DEF Listed
  <2> QED BY <2>1, <2>2, ListOf DEF Listed
<1>3. CASE Tail(Head(writes).writes) # <<>>
  <2> DEFINE x == [writes[1] EXCEPT !.writes = Tail(Head(writes).writes)]
             S == Range(writes) \cup {x}
  <2>1. writes' = [writes EXCEPT ![1] = x] /\ faults' = faults
    BY <1>3 DEF WriteNext
  <2> HIDE DEF x
  <2>2. writes \in Seq(S) /\ x \in S
    <3>1. Range(writes) \subseteq S
      OBVIOUS
    <3> HIDE DEF S
    <3> QED BY <3>1 DEF Listed, S
  <2> HIDE DEF S
  <2>3. writes' \in Seq(S) /\ DOMAIN writes' = DOMAIN writes
    BY <1>1, <2>1, <2>2, ExceptOne
  <2>4. writes' # <<>>
    BY <1>1, <2>3
  <2> QED BY <2>1, <2>3, <2>4, ListOf DEF Listed, Uncleared
<1> QED BY <1>2, <1>3

(* What a step of the transaction that is going forward does to the cache.    *)
LEMMA CommitEffect ==
    ASSUME faults \in Nat, Listed, Commit
    PROVE  CallEffect
<1>1. \A w : WriteDone(w) => faults' = faults /\ cache' = [k \in {} |-> 0]
  BY DEF WriteDone, ClearCache
<1>2. \A w : WriteFails(w) => faults' \in Nat /\ faults' > faults
  BY DEF WriteFails, Fault
<1>3. ReadFails => faults' \in Nat /\ faults' > faults
  BY DEF ReadFails, Fault
<1>0. writes' = writes => Listed'
  BY DEF Listed
<1> USE DEF CallEffect
<1>4. ASSUME NEW c \in Candidates, Begin(c) PROVE CallEffect
  <2>0. Listed' /\ ~Uncleared
    <3>1. writes' = <<>> /\ pc = "idle"
      BY <1>4 DEF Begin
    <3>2. <<>> \in Seq(Range(<<>>))
      OBVIOUS
    <3> QED BY <3>1, <3>2 DEF Listed, Uncleared
  <2>1. CASE ReadFails
    BY <1>3, <2>0, <2>1
  <2>2. ASSUME NEW unread \in SUBSET Secrets, ReadDone(unread, {})
        PROVE  CallEffect
    BY <2>0, <2>2, ReadEffect
  <2> QED BY <1>4, <2>1, <2>2 DEF Begin
<1>5. CASE Require
  BY <1>0, <1>3, <1>5, ReadEffect DEF Require, To, End, Uncleared
<1>6. ASSUME NEW p, NEW b, NEW done, NEW failed, WriteBackend(p, b, done, failed) PROVE CallEffect
  BY <1>0, <1>1, <1>2, <1>6 DEF WriteBackend, To
<1>7. ASSUME NEW p, NEW s, NEW v, NEW o, NEW same, NEW failed,
             p \notin {"transport", "restoring"} \/ writes = <<>>,
             ReadBack(p, s, v, o, same, failed)
      PROVE  CallEffect
  BY <1>0, <1>3, <1>7, ReadEffect DEF ReadBack, To, Uncleared
<1>8. CASE Disable \/ Activate
  BY <1>6, <1>8 DEF Disable, Activate
<1>9. CASE VerifyTransport \/ VerifyPromoted \/ VerifyActive
  BY <1>7, <1>9 DEF VerifyTransport, VerifyPromoted, VerifyActive
<1>10. CASE VerifyDisabled
  <2>1. ~Uncleared
    BY <1>10 DEF VerifyDisabled, Uncleared
  <2>2. writes' = writes \/ writes' = CandidateCalls
    BY <1>10 DEF VerifyDisabled, To
  <2>3. Listed'
    BY <1>0, <2>2, CandidateCallsListed DEF Listed
  <2> QED BY <1>3, <1>10, <2>1, <2>3, ReadEffect DEF VerifyDisabled
<1>11. CASE WriteTransport
  <2>1. CASE WriteNext /\ pc' = pc
    BY <1>11, <2>1, WriteNextEffect DEF WriteTransport
  <2>2. CASE WriteFails(NextWrite) /\ writes' = writes
    BY <1>0, <1>2, <2>2
  <2> QED BY <1>11, <2>1, <2>2 DEF WriteTransport, To
<1>12. CASE Promote
  BY <1>0, <1>3, <1>12, ReadEffect DEF Promote, To, Uncleared
<1>13. CASE SaveTokens
  BY <1>0, <1>1, <1>2, <1>13 DEF SaveTokens, To
<1>14. CASE Committed
  BY <1>0, <1>14 DEF Committed, End, store, Uncleared
<1> HIDE DEF CallEffect
<1> QED BY <1>4, <1>5, <1>8, <1>9, <1>10, <1>11, <1>12, <1>13, <1>14 DEF Commit

(* And a step of one that is being rolled back.                              *)
LEMMA RollbackEffect ==
    ASSUME faults \in Nat, Listed, Rollback
    PROVE  CallEffect
<1>1. \A w : WriteDone(w) => faults' = faults /\ cache' = [k \in {} |-> 0]
  BY DEF WriteDone, ClearCache
<1>2. \A w : WriteFails(w) => faults' \in Nat /\ faults' > faults
  BY DEF WriteFails, Fault
<1>3. ReadFails => faults' \in Nat /\ faults' > faults
  BY DEF ReadFails, Fault
<1>0. writes' = writes => Listed'
  BY DEF Listed
<1> USE DEF CallEffect
<1>4. CASE VerifyUndo
  BY <1>0, <1>3, <1>4, ReadEffect DEF VerifyUndo, To, Uncleared
<1>5. CASE BeginRestore
  <2>1. ~Uncleared
    BY <1>5 DEF BeginRestore, Uncleared
  <2>2. writes' = writes \/ writes' = RestoreCalls
    BY <1>5 DEF BeginRestore, To
  <2>3. Listed'
    BY <1>0, <2>2, RestoreCallsListed DEF Listed
  <2> QED BY <1>3, <1>5, <2>1, <2>3, ReadEffect DEF BeginRestore
<1>6. ASSUME NEW p, NEW b, NEW done, NEW failed, WriteBackend(p, b, done, failed) PROVE CallEffect
  BY <1>0, <1>1, <1>2, <1>6 DEF WriteBackend, To
<1>7. ASSUME NEW p, NEW s, NEW v, NEW o, NEW same, NEW failed,
             p \notin {"transport", "restoring"} \/ writes = <<>>,
             ReadBack(p, s, v, o, same, failed)
      PROVE  CallEffect
  BY <1>0, <1>3, <1>7, ReadEffect DEF ReadBack, To, Uncleared
<1>8. CASE Undo \/ DisableForRestore \/ Reactivate
  BY <1>6, <1>8 DEF Undo, DisableForRestore, Reactivate
<1>9. CASE VerifyRestored
  <2>1. CASE ReadBack("restoring", required, Disabled(previous.values), previous.opaque,
                      Restored, "keepDisabled") /\ writes = <<>>
    BY <1>7, <2>1
  <2>2. CASE To("keepDisabled") /\ UNCHANGED store /\ writes = <<>>
    BY <1>0, <2>2 DEF To, store, Uncleared
  <2> QED BY <1>9, <2>1, <2>2 DEF VerifyRestored, store
<1>10. CASE VerifyReactivated
  BY <1>7, <1>10 DEF VerifyReactivated
<1>11. CASE Restore
  <2>1. CASE WriteNext
    BY <1>11, <2>1, WriteNextEffect DEF Restore
  <2>2. CASE WriteFails(NextWrite) /\ writes' = Tail(writes)
    <3>1. writes # <<>>
      BY <1>11 DEF Restore
    <3>2. Tail(writes) \in Seq(Range(writes))
      BY <3>1, TailIs DEF Listed
    <3> QED BY <1>2, <2>2, <3>2, ListOf DEF Listed
  <2> QED BY <1>11, <2>1, <2>2 DEF Restore
<1>12. CASE UndoAgain \/ KeepDisabled
  BY <1>0, <1>1, <1>2, <1>12 DEF UndoAgain, KeepDisabled, End
<1>13. CASE RollBackTokens
  BY <1>0, <1>1, <1>2, <1>13 DEF RollBackTokens, AfterTokens, store, Uncleared
<1>14. CASE RolledBack
  BY <1>0, <1>14 DEF RolledBack, End, store, Uncleared
<1> HIDE DEF CallEffect
<1> QED BY <1>4, <1>5, <1>8, <1>9, <1>10, <1>11, <1>12, <1>13, <1>14 DEF Rollback

(* A key is read only once.                                                   *)
LEMMA NextIsNew ==
    ASSUME NEW D, NEW n, NEW values, Stage(D, n, values), n # <<>>
    PROVE  Head(n) \notin D
<1>1. \A x, y : Head(<<x>>) = x /\ Head(<<x, y>>) = x
  OBVIOUS
<1>2. NextKeys("backend", values["backend"]) \in
         {<<>>, <<"provider">>, <<"path", "bookmark">>, <<"webdav", "password">>}
  BY KeysThatFollow
<1>3. NextKeys("provider", values["provider"]) \in {<<"dropbox">>, <<"cloud", "token">>}
  BY KeysThatFollow
<1> QED BY <1>1, <1>2, <1>3 DEF Stage

(* What a run has read decides what it reads next.                            *)
LEMMA StageReads ==
    ASSUME NEW D, NEW n, NEW u, NEW v, Stage(D, n, u), \A k \in D : v[k] = u[k]
    PROVE  Stage(D, n, v)
<1>1. "backend" \in D => v["backend"] = u["backend"]
  OBVIOUS
<1>2. "provider" \in D => v["provider"] = u["provider"]
  OBVIOUS
<1> QED BY <1>1, <1>2 DEF Stage

(* A run that has a value for the next key is one stage further.              *)
LEMMA GotStep ==
    ASSUME need # <<>>, NEW value, Got(value), Stage(DOMAIN got, need, got)
    PROVE  /\ got' = [k \in DOMAIN got' |-> got'[k]]
           /\ DOMAIN got' = DOMAIN got \cup {Head(need)}
           /\ \A k \in DOMAIN got' : got'[k] = IF k = Head(need) THEN value ELSE got[k]
           /\ Stage(DOMAIN got', need', got')
<1>1. /\ got' = [k \in DOMAIN got' |-> got'[k]]
      /\ DOMAIN got' = DOMAIN got \cup {Head(need)}
      /\ \A k \in DOMAIN got' : got'[k] = IF k = Head(need) THEN value ELSE got[k]
      /\ need' = Tail(need) \o NextKeys(Head(need), got'[Head(need)])
  BY DEF Got
<1>2. Head(need) \notin DOMAIN got
  BY NextIsNew
<1>3. Stage(DOMAIN got, need, got')
  BY <1>1, <1>2, StageReads
<1>4. Stage(DOMAIN got \cup {Head(need)}, Tail(need) \o NextKeys(Head(need), got'[Head(need)]), got')
  BY <1>3, NextStage
<1>5. Stage(DOMAIN got', need', got')
  BY <1>1, <1>4, Zenon
<1> QED BY <1>1, <1>5

(* Beside a transaction a run may cache a value late, in one of its own it    *)
(* does not; and no step of a transaction leaves anything else behind that is *)
(* older than what is stored.                                                 *)
LEMMA SyncInvStep ==
    ASSUME SyncInv, [ConfiguredNext]_allVars
    PROVE  SyncInv'
<1>1. CASE Configure
  <2>1. CallEffect
    BY <1>1, CommitEffect, RollbackEffect DEF Configure, SyncInv
  <2>2. UNCHANGED <<syncing, need, sampled, got>> /\ overlapped' = (overlapped \/ syncing)
        /\ overtaken' = (sampled # <<>> /\ (overtaken \/ stored'[Head(need)] # stored[Head(need)]))
        /\ late' = late \cap DOMAIN cache'
    BY <1>1 DEF Configure, sync
  <2>3. ASSUME faults' = 0, ~Uncleared', NEW k \in DOMAIN cache'
        PROVE  k \in late' \/ cache'[k] = stored'[k]
    <3>1. faults = 0
      BY <2>1, <2>3 DEF CallEffect, SyncInv
    <3>2. CASE cache' = [x \in {} |-> 0]
      BY <2>3, <3>2
    <3>3. CASE cache' = cache /\ stored' = stored /\ ~Uncleared
      BY <2>2, <2>3, <3>1, <3>3 DEF SyncInv
    <3> QED BY <2>1, <2>3, <3>1, <3>2, <3>3 DEF CallEffect
  <2>4. ASSUME faults' = 0, sampled' # <<>>, ~overtaken'
        PROVE  sampled'[1] = stored'[Head(need')]
    <3>1. faults = 0
      BY <2>1, <2>4 DEF CallEffect, SyncInv
    <3>2. sampled # <<>> /\ ~overtaken /\ stored'[Head(need)] = stored[Head(need)]
      BY <2>2, <2>4
    <3>3. sampled[1] = stored[Head(need)]
      BY <3>1, <3>2 DEF SyncInv
    <3> QED BY <2>2, <3>2, <3>3
  <2>5. ~(~overlapped' /\ syncing')
    BY <2>2
  <2> QED BY <2>1, <2>2, <2>3, <2>4, <2>5 DEF SyncInv, CallEffect
<1>2. CASE CrashAll
  BY <1>2 DEF CrashAll, Crash, End, ClearCache, SyncInv, Listed
<1>3. CASE StartSync
  <2>1. /\ DOMAIN got' = {} /\ got' = [k \in {} |-> 0] /\ need' = <<"backend">> /\ sampled' = <<>>
        /\ UNCHANGED <<stored, cache, faults, pc, writes, overtaken, late>>
        /\ overlapped' = (pc # "idle")
    BY <1>3 DEF StartSync, vars, store
  <2>2. Stage(DOMAIN got', need', got')
    BY <2>1 DEF Stage
  <2>3. ~overtaken
    BY <1>3 DEF StartSync, SyncInv
  <2> QED BY <2>1, <2>2, <2>3 DEF SyncInv, Listed, Uncleared
<1>5. CASE ReadCached
  <2>1. /\ syncing /\ need # <<>> /\ sampled = <<>> /\ Head(need) \in DOMAIN cache
        /\ Got(cache[Head(need)])
        /\ UNCHANGED <<stored, cache, faults, pc, writes, sampled, syncing, overlapped, overtaken, late>>
    BY <1>5 DEF ReadCached, vars, store, Got
  <2>2. /\ got' = [k \in DOMAIN got' |-> got'[k]]
        /\ DOMAIN got' = DOMAIN got \cup {Head(need)}
        /\ \A k \in DOMAIN got' : got'[k] = IF k = Head(need) THEN cache[k] ELSE got[k]
        /\ Stage(DOMAIN got', need', got')
    BY <2>1, GotStep DEF SyncInv
  <2>3. ASSUME faults = 0, ~overlapped, NEW k \in DOMAIN got'
        PROVE  k \in late \/ got'[k] = stored[k]
    <3>1. ~Uncleared
      BY <2>1, <2>3 DEF SyncInv, Uncleared
    <3> QED BY <2>1, <2>2, <2>3, <3>1 DEF SyncInv
  <2> QED BY <2>1, <2>2, <2>3 DEF SyncInv, Listed, Uncleared
<1>6. CASE ReadStored
  <2>1. /\ syncing /\ need # <<>> /\ sampled' = <<stored[Head(need)]>> /\ overtaken' = FALSE
        /\ UNCHANGED <<stored, cache, faults, pc, writes, need, got, syncing, overlapped, late>>
    BY <1>6 DEF ReadStored, vars, store
  <2> QED BY <2>1 DEF SyncInv, Listed, Uncleared
<1>7. CASE CacheRead
  <2> DEFINE cached == {Head(need)} \ {"dropbox"}
  <2>1. /\ sampled # <<>> /\ sampled' = <<>> /\ Got(sampled[1]) /\ overtaken' = FALSE
        /\ UNCHANGED <<stored, faults, pc, writes, syncing, overlapped>>
        /\ late' = IF overtaken THEN late \cup cached ELSE late \ cached
        /\ DOMAIN cache' = DOMAIN cache \cup cached
        /\ \A k \in DOMAIN cache' : cache'[k] = IF k \in cached THEN sampled[1] ELSE cache[k]
    BY <1>7 DEF CacheRead, Got
  <2>2. syncing /\ need # <<>>
    BY <2>1 DEF SyncInv
  <2>3. /\ got' = [k \in DOMAIN got' |-> got'[k]]
        /\ DOMAIN got' = DOMAIN got \cup {Head(need)}
        /\ \A k \in DOMAIN got' : got'[k] = IF k = Head(need) THEN sampled[1] ELSE got[k]
        /\ Stage(DOMAIN got', need', got')
    BY <2>1, <2>2, GotStep DEF SyncInv
  <2>4. ASSUME faults = 0, ~Uncleared, NEW k \in DOMAIN cache'
        PROVE  k \in late' \/ cache'[k] = stored[k]
    <3>1. CASE k \in cached
      BY <2>1, <2>4, <3>1 DEF SyncInv
    <3>2. CASE k \notin cached
      BY <2>1, <2>4, <3>2 DEF SyncInv
    <3> QED BY <3>1, <3>2
  <2>5. ASSUME faults = 0, ~overlapped, NEW k \in DOMAIN got'
        PROVE  k \in late' \/ got'[k] = stored[k]
    <3>1. ~overtaken /\ late' = late \ cached
      BY <2>1, <2>2, <2>5 DEF SyncInv
    <3>2. CASE k = Head(need)
      BY <2>1, <2>3, <2>5, <3>1, <3>2 DEF SyncInv
    <3>3. CASE k # Head(need)
      BY <2>2, <2>3, <2>5, <3>1, <3>3 DEF SyncInv
    <3> QED BY <3>2, <3>3
  <2> QED BY <2>1, <2>2, <2>3, <2>4, <2>5 DEF SyncInv, Listed, Uncleared
<1>8. CASE EndSync
  <2>1. sampled' = sampled /\ need = <<>> /\ ~syncing'
        /\ UNCHANGED <<stored, cache, faults, pc, writes, need, got, overlapped, overtaken, late>>
    BY <1>8 DEF EndSync, vars, store, history
  <2> QED BY <2>1 DEF SyncInv, Listed, Uncleared
<1>9. CASE UNCHANGED allVars
  BY <1>9 DEF allVars, vars, store, sync, history, SyncInv, Listed, Uncleared
<1> QED BY <1>1, <1>2, <1>3, <1>5, <1>6, <1>7, <1>8, <1>9 DEF ConfiguredNext

(* readConfigValue and its cache: while no call of the device store has       *)
(* failed, a sync run that no transaction overlaps works with what is stored, *)
(* but for a key that an earlier run cached after its value was overtaken by  *)
(* a write, for any number of runs and transactions, overlapping or not, and  *)
(* for every choice of setups, iCloud and Dropbox included.                   *)
THEOREM SyncReadsStored == ConfiguredSpec => [](faults = 0 => SyncUsesStored)
<1>1. InitSync => SyncInv
  <2>1. <<>> \in Seq(Range(<<>>))
    OBVIOUS
  <2> QED BY <2>1 DEF InitSync, Init, SyncInv, Listed
<1>2. SyncInv /\ [ConfiguredNext]_allVars => SyncInv'
  BY SyncInvStep
<1>3. SyncInv => (faults = 0 => SyncUsesStored)
  <2> SUFFICES ASSUME SyncInv, faults = 0, syncing, need = <<>>, ~overlapped
               PROVE  /\ \A k \in DOMAIN got \ late : got[k] = stored[k]
                      /\ DOMAIN got \cap late = {} => got = Used(stored)
    BY DEF SyncUsesStored
  <2>1. \A k \in DOMAIN got \ late : got[k] = stored[k]
    BY DEF SyncInv
  <2>2. ASSUME DOMAIN got \cap late = {}
        PROVE  got = Used(stored)
    <3>1. \A k \in DOMAIN got : stored[k] = got[k]
      BY <2>1, <2>2
    <3>2. Stage(DOMAIN got, <<>>, stored)
      BY <3>1, StageReads DEF SyncInv
    <3>3. DOMAIN got = UsedKeys(stored) \cup {"backend"}
      BY <3>2, LastStage
    <3>4. got = [k \in DOMAIN got |-> got[k]]
      BY DEF SyncInv
    <3> QED BY <3>1, <3>3, <3>4 DEF Used
  <2> QED BY <2>1, <2>2
<1> QED BY <1>1, <1>2, <1>3, PTL DEF ConfiguredSpec
==============================================================================
