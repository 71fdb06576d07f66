------------------------------ MODULE WireProofs ------------------------------
(***************************************************************************)
(* What survives the wire for all bodies, answers, numbers and decimals:   *)
(* the meaning of a forwarded call, the members of an answer that was read *)
(* whole, and the price of a platform.                                     *)
(***************************************************************************)
EXTENDS Wire, PriceTextProofs

-------------------------------------------------------------------------------
(* Reading a struct, and writing one.                                       *)

\* What from_json leaves in a struct when it does not throw.
LEMMA ReadFields ==
    ASSUME NEW struct, NEW j, NEW needed, NEW taken, needed \subseteq DOMAIN j,
           NEW r, r = Read(struct, j, needed, taken)
    PROVE  \A f : LET given == f \in DOMAIN j /\ (f \in needed \/ f \in taken)
                  IN  /\ f \in DOMAIN r <=> given \/ f \in DOMAIN struct
                      /\ given => r[f] = j[f]
                      /\ ~given /\ f \in DOMAIN struct => r[f] = struct[f]
  BY DEF Read, Restrict, Merged

\* What to_json writes of a struct.
LEMMA WrittenFields ==
    ASSUME NEW struct, NEW members, NEW w, w = Written(struct, members)
    PROVE  \A f : /\ f \in DOMAIN w <=> f \in members /\ struct[f] # Absent
                  /\ f \in DOMAIN w => w[f] = struct[f]
  BY DEF Written, Restrict

\* A body of which each member must be there comes through whole.
LEMMA Whole ==
    ASSUME NEW j, NEW members, \A f \in DOMAIN j : j[f] # Absent, members \subseteq DOMAIN j,
           NEW w, w = All(Read(Blank(members), j, members, {}))
    PROVE  Restrict(w, members \cap DOMAIN w) = Restrict(j, members \cap DOMAIN j)
<1>1. PICK r : r = Read(Blank(members), j, members, {})
  OBVIOUS
<1>2. \A f : /\ f \in DOMAIN r <=> f \in members
             /\ f \in members => r[f] = j[f]
  <2>1. DOMAIN Blank(members) = members
    BY DEF Blank
  <2> QED
    BY <1>1, <2>1, ReadFields
<1>3. w = Written(r, DOMAIN r)
  BY <1>1 DEF All
<1>4. \A f : /\ f \in DOMAIN w <=> f \in DOMAIN r /\ r[f] # Absent
             /\ f \in DOMAIN w => w[f] = r[f]
  BY <1>3, WrittenFields
<1>5. DOMAIN w = members /\ \A f \in members : w[f] = j[f]
  BY <1>2, <1>4
<1> QED
  BY <1>5 DEF Restrict

-------------------------------------------------------------------------------
(* The calls whose members are not all needed.                              *)

Valued(j) == \A f \in DOMAIN j : j[f] # Absent

\* withdraw: the amount is lost when a max of false is there, and mm2 refuses what
\* it then gets.
LEMMA WithdrawIsMeant ==
    ASSUME NEW j, Valued(j), NEW r, r = ReadWithdraw(j), r # IllFormed,
           NEW w, w = WriteWithdraw(r)
    PROVE  Effect("withdraw", w) \in {Effect("withdraw", j), Refused}
<1> DEFINE needed == {"coin", "to"} \cup IF "max" \in DOMAIN j THEN {"max"} ELSE {"amount"}
           written == {"coin", "to"} \cup IF r["max"] = "true" THEN {"max"} ELSE {"amount"}
<1>1. r = Read(WithdrawRequest, j, needed, {}) /\ needed \subseteq DOMAIN j
  BY DEF ReadWithdraw, Read
<1>2. /\ DOMAIN WithdrawRequest = {"coin", "to", "amount", "max"}
      /\ WithdrawRequest["max"] = "false" /\ WithdrawRequest["amount"] = Empty
  BY DEF WithdrawRequest, Blank, Merged
<1>3. /\ \A f \in needed : r[f] = j[f]
      /\ \A f \in {"amount", "max"} : f \notin needed => r[f] = WithdrawRequest[f]
  BY <1>1, <1>2, ReadFields
<1>4. \A f : /\ f \in DOMAIN w <=> f \in written /\ r[f] # Absent
             /\ f \in DOMAIN w => w[f] = r[f]
  <2>1. w = Written(r, written)
    BY DEF WriteWithdraw
  <2> QED
    BY <2>1, WrittenFields
<1>5. /\ Given(w, "coin") = Given(j, "coin") /\ Given(w, "to") = Given(j, "to")
  BY <1>1, <1>3, <1>4 DEF Valued, Given
<1>6. CASE r["max"] = "true"
  <2>1. "max" \in DOMAIN j /\ j["max"] = "true"
    BY <1>2, <1>3, <1>6
  <2>2. Given(w, "max") = "true" /\ Given(j, "max") = "true"
    BY <1>3, <1>4, <1>6, <2>1 DEF Valued, Given
  <2> QED
    BY <1>5, <2>2 DEF Effect
<1>7. CASE r["max"] # "true" /\ "max" \in DOMAIN j
  <2>1. r["amount"] = Empty
    BY <1>2, <1>3, <1>7
  <2>2. Given(w, "amount") \in {Absent, Empty}
    BY <1>4, <2>1 DEF Given
  <2>3. Given(w, "max") = Absent
    BY <1>4, <1>7 DEF Given
  <2> QED
    BY <2>2, <2>3, MessagesAssumption DEF Effect
<1>8. CASE r["max"] # "true" /\ "max" \notin DOMAIN j
  <2>1. "amount" \in DOMAIN j /\ r["amount"] = j["amount"]
    BY <1>1, <1>3, <1>8
  <2>2. /\ Given(w, "amount") = Given(j, "amount")
        /\ w["amount"] = j["amount"]
        /\ Given(w, "max") = Given(j, "max")
    BY <1>4, <1>8, <2>1 DEF Valued, Given
  <2> QED
    BY <1>5, <2>2 DEF Effect
<1> QED
  BY <1>6, <1>7, <1>8

\* cancel_all_orders: the ticker of a cancel by coin is lost, and mm2 refuses it.
LEMMA CancelAllIsMeant ==
    ASSUME NEW j, Valued(j), NEW r, r = ReadCancelAll(j), r # IllFormed,
           NEW w, w = WriteCancelAll(r)
    PROVE  Effect("cancel_all_orders", w) \in {Effect("cancel_all_orders", j), Refused}
<1> DEFINE needed == {"type"} \cup IF "type" \in DOMAIN j /\ j["type"] = "Pair"
                                   THEN {"base", "rel"} ELSE {}
<1>1. r = Read(CancelAllRequest, j, needed, {}) /\ needed \subseteq DOMAIN j
  BY DEF ReadCancelAll, Read
<1>2. DOMAIN CancelAllRequest = {"type", "base", "rel"}
  BY DEF CancelAllRequest, Blank, Optional, Merged
<1>3. DOMAIN r = {"type", "base", "rel"} /\ \A f \in needed : r[f] = j[f]
  BY <1>1, <1>2, ReadFields
<1>4. \A f : /\ f \in DOMAIN w <=> f \in DOMAIN r /\ r[f] # Absent
             /\ f \in DOMAIN w => w[f] = r[f]
  <2>1. w = Written(r, DOMAIN r)
    BY DEF WriteCancelAll, All
  <2> QED
    BY <2>1, WrittenFields
<1>5. Given(w, "type") = Given(j, "type") /\ Given(w, "ticker") = Absent
  BY <1>1, <1>3, <1>4 DEF Valued, Given
<1>6. CASE Given(j, "type") = "Pair"
  <2>1. Given(w, "base") = Given(j, "base") /\ Given(w, "rel") = Given(j, "rel")
    BY <1>1, <1>3, <1>4, <1>6 DEF Valued, Given
  <2> QED
    BY <1>5, <1>6, <2>1 DEF Effect
<1>7. CASE Given(j, "type") # "Pair"
  BY <1>5, <1>7 DEF Effect
<1> QED
  BY <1>6, <1>7

\* my_recent_swaps: both members are optional.
LEMMA RecentSwapsIsMeant ==
    ASSUME NEW j, Valued(j), NEW r, r = ReadRecentSwaps(j), r # IllFormed,
           NEW w, w = WriteRecentSwaps(r)
    PROVE  Effect("my_recent_swaps", w) = Effect("my_recent_swaps", j)
<1>1. /\ DOMAIN RecentSwapsRequest = {"from_uuid", "limit"}
      /\ RecentSwapsRequest["from_uuid"] = Absent /\ RecentSwapsRequest["limit"] = "10"
  BY DEF RecentSwapsRequest, Optional, Merged
<1>2. /\ DOMAIN r = {"from_uuid", "limit"}
      /\ \A f \in {"from_uuid", "limit"} :
            r[f] = IF f \in DOMAIN j THEN j[f] ELSE RecentSwapsRequest[f]
  <2>1. r = Read(RecentSwapsRequest, j, {}, {"from_uuid", "limit"})
    BY DEF ReadRecentSwaps
  <2>2. \A f : /\ f \in DOMAIN r <=> f \in {"from_uuid", "limit"}
               /\ f \in DOMAIN j /\ f \in {"from_uuid", "limit"} => r[f] = j[f]
               /\ f \notin DOMAIN j /\ f \in {"from_uuid", "limit"} => r[f] = RecentSwapsRequest[f]
    BY <1>1, <2>1, ReadFields
  <2> QED
    BY <2>2
<1>3. \A f : /\ f \in DOMAIN w <=> f \in DOMAIN r /\ r[f] # Absent
             /\ f \in DOMAIN w => w[f] = r[f]
  <2>1. w = Written(r, DOMAIN r)
    BY DEF WriteRecentSwaps, All
  <2> QED
    BY <2>1, WrittenFields
<1>4. /\ Given(w, "from_uuid") = Given(j, "from_uuid")
      /\ "limit" \in DOMAIN w
      /\ w["limit"] = IF "limit" \in DOMAIN j THEN j["limit"] ELSE "10"
  BY <1>1, <1>2, <1>3, MessagesAssumption DEF Valued, Given
<1> QED
  BY <1>4 DEF Effect

\* setprice: max and cancel_previous are optional.
LEMMA SetPriceIsMeant ==
    ASSUME NEW j, Valued(j), NEW r, r = ReadSetPrice(j), r # IllFormed,
           NEW w, w = WriteSetPrice(r)
    PROVE  Effect("setprice", w) = Effect("setprice", j)
<1> DEFINE trade == {"base", "rel", "price", "volume"}
           options == {"max", "cancel_previous"}
<1>1. DOMAIN TradeRequest = trade
  BY DEF TradeRequest, Blank
<1>2. /\ DOMAIN SetPriceRequest = trade \cup options
      /\ \A f \in options : SetPriceRequest[f] = Absent
  BY <1>1 DEF SetPriceRequest, Optional, Merged
<1>3. r = Read(SetPriceRequest, j, trade, options) /\ trade \subseteq DOMAIN j
  BY <1>1 DEF ReadSetPrice, Read
<1>4. /\ DOMAIN r = trade \cup options
      /\ \A f \in trade : r[f] = j[f]
      /\ \A f \in options : r[f] = IF f \in DOMAIN j THEN j[f] ELSE Absent
  BY <1>2, <1>3, ReadFields
<1>5. \A f : /\ f \in DOMAIN w <=> f \in DOMAIN r /\ r[f] # Absent
             /\ f \in DOMAIN w => w[f] = r[f]
  <2>1. w = Written(r, DOMAIN r)
    BY DEF WriteSetPrice, All
  <2> QED
    BY <2>1, WrittenFields
<1>6. \A f \in trade \cup options : /\ f \in DOMAIN w <=> f \in DOMAIN j
                                    /\ f \in DOMAIN w => w[f] = j[f]
  BY <1>3, <1>4, <1>5 DEF Valued
<1>7. /\ \A f \in trade : Given(w, f) = Given(j, f)
      /\ \A f \in options : /\ f \in DOMAIN w <=> f \in DOMAIN j
                            /\ f \in DOMAIN w => w[f] = j[f]
  BY <1>6 DEF Given
<1> QED
  BY <1>7 DEF Effect

\* Any call.
LEMMA ForwardedIsMeant ==
    ASSUME NEW form \in Forms, NEW j, Valued(j), ReadBody(form, j) # IllFormed
    PROVE  Effect(form, WriteBody(form, ReadBody(form, j))) \in {Effect(form, j), Refused}
<1>1. CASE form \in {"buy", "sell"}
  <2> DEFINE members == {"base", "rel", "price", "volume"}
             w == All(Read(Blank(members), j, members, {}))
  <2>1. DOMAIN TradeRequest = members
    BY DEF TradeRequest, Blank
  <2>2. ReadBody(form, j) = Read(Blank(members), j, members, {})
    BY <1>1, <2>1 DEF ReadBody, ReadTrade, TradeRequest
  <2>3. members \subseteq DOMAIN j /\ WriteBody(form, ReadBody(form, j)) = w
    BY <1>1, <2>2 DEF WriteBody, WriteTrade, Read
  <2>4. Restrict(w, members \cap DOMAIN w) = Restrict(j, members \cap DOMAIN j)
    BY <2>3, Whole DEF Valued
  <2> QED
    BY <1>1, <2>3, <2>4 DEF Effect, Members
<1>2. CASE form = "cancel_order"
  <2> DEFINE members == {"uuid"}
             w == All(Read(Blank(members), j, members, {}))
  <2>1. ReadBody(form, j) = Read(Blank(members), j, members, {})
    BY <1>2 DEF ReadBody, ReadCancelOrder, CancelOrderRequest
  <2>2. members \subseteq DOMAIN j /\ WriteBody(form, ReadBody(form, j)) = w
    BY <1>2, <2>1 DEF WriteBody, WriteCancelOrder, Read
  <2>3. Restrict(w, members \cap DOMAIN w) = Restrict(j, members \cap DOMAIN j)
    BY <2>2, Whole DEF Valued
  <2> QED
    BY <1>2, <2>2, <2>3 DEF Effect, Members
<1>3. CASE form = "send_raw_transaction"
  <2> DEFINE members == {"coin", "tx_hex"}
             w == All(Read(Blank(members), j, members, {}))
  <2>1. DOMAIN SendRawRequest = members
    BY DEF SendRawRequest, Blank
  <2>2. ReadBody(form, j) = Read(Blank(members), j, members, {})
    BY <1>3, <2>1 DEF ReadBody, ReadSendRaw, SendRawRequest
  <2>3. members \subseteq DOMAIN j /\ WriteBody(form, ReadBody(form, j)) = w
    BY <1>3, <2>2 DEF WriteBody, WriteSendRaw, Read
  <2>4. Restrict(w, members \cap DOMAIN w) = Restrict(j, members \cap DOMAIN j)
    BY <2>3, Whole DEF Valued
  <2> QED
    BY <1>3, <2>3, <2>4 DEF Effect, Members
<1>4. CASE form = "setprice"
  BY <1>4, SetPriceIsMeant DEF ReadBody, WriteBody
<1>5. CASE form = "cancel_all_orders"
  BY <1>5, CancelAllIsMeant DEF ReadBody, WriteBody
<1>6. CASE form = "my_recent_swaps"
  BY <1>6, RecentSwapsIsMeant DEF ReadBody, WriteBody
<1>7. CASE form = "withdraw"
  BY <1>7, WithdrawIsMeant DEF ReadBody, WriteBody
<1> QED
  BY <1>1, <1>2, <1>3, <1>4, <1>5, <1>6, <1>7 DEF Forms

-------------------------------------------------------------------------------
(* The message of a step.                                                   *)

LEMMA NextMessage ==
    [Next]_vars =>
        \/ \E post \in Bodies : Forward(post)
        \/ \E answer \in Answers : Process(answer)
        \/ \E t \in Tokens : ReadPrice(t)
        \/ last' = last
        \/ last'.op \notin {"forward", "answer", "price"}
<1> SUFFICES ASSUME [Next]_vars, last' # last, last'.op \in {"forward", "answer", "price"}
             PROVE  \/ \E post \in Bodies : Forward(post)
                    \/ \E answer \in Answers : Process(answer)
                    \/ \E t \in Tokens : ReadPrice(t)
  OBVIOUS
<1>1. ASSUME NEW id, NEW level, NEW lacking, Place(id, level, lacking) PROVE FALSE
  BY <1>1 DEF Place
<1>2. ASSUME NEW id, NEW level, PlaceLost(id, level) PROVE FALSE
  BY <1>2 DEF PlaceLost
<1>3. CASE PlaceRefused
  BY <1>3 DEF PlaceRefused
<1>4. ASSUME NEW id, Rest(id) \/ Remove(id) PROVE FALSE
  BY <1>4 DEF Rest, Remove
<1>5. ASSUME NEW lacking, GetLiveOrders(lacking) PROVE FALSE
  BY <1>5 DEF GetLiveOrders
<1>6. CASE UNCHANGED vars
  BY <1>6 DEF vars
<1> QED
  BY <1>1, <1>2, <1>3, <1>4, <1>5, <1>6 DEF Next

\* Whatever the body of a client, mm2 carries out what it would for the body itself,
\* or nothing (the from_json and to_json of every request, process_post_function).
THEOREM MeaningSurvives == Spec => []AskedAsMeant
<1> DEFINE Asked == last.op = "forward" =>
               /\ last.post \in Bodies
               /\ LET r == ReadBody(last.post.form, last.post.body)
                  IN  last.asked = IF r = IllFormed THEN None
                                   ELSE WriteBody(last.post.form, r)
<1>1. Init => Asked
  BY DEF Init
<1>2. Asked /\ [Next]_vars => Asked'
  <2> SUFFICES ASSUME Asked, [Next]_vars PROVE Asked'
    OBVIOUS
  <2>1. ASSUME NEW post \in Bodies, Forward(post) PROVE Asked'
    BY <2>1 DEF Forward
  <2>2. CASE last' = last \/ last'.op # "forward"
    BY <2>2
  <2>3. CASE \/ \E answer \in Answers : Process(answer)
             \/ \E t \in Tokens : ReadPrice(t)
    BY <2>3 DEF Process, ReadPrice
  <2> HIDE DEF Asked
  <2> QED
    BY <2>1, <2>2, <2>3, NextMessage
<1>3. Asked => AskedAsMeant
  <2> SUFFICES ASSUME Asked, last.op = "forward", last.asked # None
               PROVE  Effect(last.post.form, last.asked)
                          \in {Effect(last.post.form, last.post.body), Refused}
    BY DEF AskedAsMeant
  <2> DEFINE form == last.post.form
             j == last.post.body
  <2>1. form \in Forms /\ Valued(j)
    BY WireAssumption DEF Valued
  <2>2. ReadBody(form, j) # IllFormed /\ last.asked = WriteBody(form, ReadBody(form, j))
    OBVIOUS
  <2> HIDE DEF form, j
  <2>3. Effect(form, WriteBody(form, ReadBody(form, j))) \in {Effect(form, j), Refused}
    BY <2>1, <2>2, ForwardedIsMeant
  <2> QED
    BY <2>2, <2>3 DEF form, j
<1> HIDE DEF Asked
<1> QED
  BY <1>1, <1>2, <1>3, PTL DEF Spec

-------------------------------------------------------------------------------
(* Reading an answer.                                                       *)

\* The reads that succeed are those before the first that does not.
LEMMA DoneReads ==
    ASSUME NEW j, NEW reads, NEW n \in Nat, DOMAIN reads = 1 .. n, Len(reads) = n
    PROVE  LET k == Done(j, reads)
           IN  /\ k \in 0 .. n
               /\ \A i \in 1 .. k : reads[i][1] \in DOMAIN j
               /\ k < n => reads[k + 1][1] \notin DOMAIN j
<1> DEFINE missing == {i \in DOMAIN reads : reads[i][1] \notin DOMAIN j}
           k == Done(j, reads)
<1>1. CASE missing = {}
  <2>1. k = n
    BY <1>1 DEF Done
  <2> QED
    BY <1>1, <2>1
<1>2. CASE missing # {}
  <2>1. k = Min(missing) - 1
    BY <1>2 DEF Done
  <2>2. missing \subseteq Nat
    OBVIOUS
  <2>3. \E x \in missing : \A y \in missing : x <= y
    <3> HIDE DEF missing
    <3> QED
      BY <1>2, <2>2, LeastOf
  <2>4. Min(missing) \in missing /\ \A y \in missing : Min(missing) <= y
    <3> HIDE DEF missing
    <3> QED
      BY <2>3 DEF Min
  <2>5. k \in 0 .. n /\ k + 1 = Min(missing)
    BY <2>1, <2>4
  <2>6. ASSUME NEW i \in 1 .. k PROVE reads[i][1] \in DOMAIN j
    <3>1. i \in DOMAIN reads /\ ~(Min(missing) <= i)
      BY <2>4, <2>5
    <3> QED
      BY <2>4, <3>1
  <2> QED
    BY <2>4, <2>5, <2>6
<1> QED
  BY <1>1, <1>2

\* A read that succeeds leaves the member of the answer in the struct, and one that
\* does not leaves the struct as it was.
LEMMA FillMember ==
    ASSUME NEW struct, NEW j, NEW reads, NEW n \in Nat, DOMAIN reads = 1 .. n, Len(reads) = n,
           NEW f \in DOMAIN struct, NEW i \in 1 .. n,
           \A l \in 1 .. n : reads[l][2] = f <=> l = i
    PROVE  Fill(struct, j, reads).value[f] =
               IF i <= Done(j, reads) THEN j[reads[i][1]] ELSE struct[f]
<1> DEFINE into == {l \in 1 .. Done(j, reads) : reads[l][2] = f}
<1>1. Done(j, reads) \in 0 .. n
  BY DoneReads
<1>2. into = IF i <= Done(j, reads) THEN {i} ELSE {}
  BY <1>1
<1>3. Max({i}) = i
  BY DEF Max
<1>4. Fill(struct, j, reads).value[f] = IF into = {} THEN struct[f] ELSE j[reads[Max(into)][1]]
  BY DEF Fill
<1> HIDE DEF into
<1> QED
  BY <1>2, <1>3, <1>4

\* A struct read whole has, in each member that some read fills, the member of the
\* answer that such a read takes.
LEMMA FillWhole ==
    ASSUME NEW struct, NEW j, NEW reads, NEW n \in Nat, DOMAIN reads = 1 .. n, Len(reads) = n,
           Fill(struct, j, reads).whole, NEW f \in DOMAIN struct,
           \E i \in 1 .. n : reads[i][2] = f
    PROVE  \E i \in 1 .. n : /\ reads[i][2] = f /\ reads[i][1] \in DOMAIN j
                             /\ Fill(struct, j, reads).value[f] = j[reads[i][1]]
<1> DEFINE into == {l \in 1 .. Done(j, reads) : reads[l][2] = f}
<1>1. Done(j, reads) = n
  BY DEF Fill
<1>2. into \subseteq 1 .. n /\ into # {}
  BY <1>1
<1>3. Max(into) \in into
  <2>1. \E x \in into : \A y \in into : x >= y
    <3> DEFINE from == {n - l : l \in into}
    <3>1. from \subseteq Nat /\ from # {}
      BY <1>2
    <3>2. PICK z \in from : \A y \in from : z <= y
      <4> HIDE DEF from
      <4> QED
        BY <3>1, LeastOf
    <3>3. PICK x \in into : z = n - x
      OBVIOUS
    <3>4. ASSUME NEW y \in into PROVE x >= y
      <4>1. n - y \in from
        OBVIOUS
      <4>2. z <= n - y /\ x \in Nat /\ y \in Nat
        BY <1>2, <3>2, <4>1
      <4> QED
        BY <3>3, <4>2
    <3> QED
      BY <3>4
  <2> HIDE DEF into
  <2> QED
    BY <2>1 DEF Max
<1>4. reads[Max(into)][1] \in DOMAIN j /\ Max(into) \in 1 .. n /\ reads[Max(into)][2] = f
  BY <1>1, <1>3, DoneReads
<1>5. Fill(struct, j, reads).value[f] = j[reads[Max(into)][1]]
  <2>1. Fill(struct, j, reads).value[f] = IF into = {} THEN struct[f] ELSE j[reads[Max(into)][1]]
    BY DEF Fill
  <2> HIDE DEF into
  <2> QED
    BY <1>2, <2>1
<1> QED
  BY <1>4, <1>5

\* A struct read whole is filled, its lists apart and but for the members no read fills,
\* whatever the answer says as long as it says it with a value.
Filling(struct, j, reads, lists, unread) ==
    /\ DOMAIN reads = 1 .. Len(reads) /\ Len(reads) \in Nat
    /\ \A f \in DOMAIN struct \ (unread \cup lists) : \E i \in 1 .. Len(reads) : reads[i][2] = f
    /\ \A i \in 1 .. Len(reads) :
          /\ reads[i][2] \notin unread
          /\ reads[i][2] \notin lists /\ reads[i][1] \in DOMAIN j =>
                j[reads[i][1]] \notin {Empty, Absent}
    /\ \A f \in unread : struct[f] \in {Empty, Absent}
    /\ lists \subseteq DOMAIN struct \ unread

LEMMA WholeIsFilled ==
    ASSUME NEW struct, NEW j, NEW reads, NEW lists, NEW unread,
           Filling(struct, j, reads, lists, unread), Fill(struct, j, reads).whole
    PROVE  Filled(Fill(struct, j, reads).value, lists, unread)
<1> DEFINE got == Fill(struct, j, reads).value
<1>1. DOMAIN got = DOMAIN struct
  BY DEF Fill
<1>2. ASSUME NEW f \in DOMAIN struct, f \in unread PROVE got[f] \in {Empty, Absent}
  <2>1. Done(j, reads) = Len(reads)
    BY DEF Fill
  <2>2. {i \in 1 .. Done(j, reads) : reads[i][2] = f} = {}
    BY <1>2, <2>1 DEF Filling
  <2>3. got[f] = struct[f]
    BY <2>2 DEF Fill
  <2> QED
    BY <1>2, <2>3 DEF Filling
<1>3. ASSUME NEW f \in DOMAIN struct \ (unread \cup lists) PROVE got[f] \notin {Empty, Absent}
  <2>1. PICK i \in 1 .. Len(reads) : /\ reads[i][2] = f /\ reads[i][1] \in DOMAIN j
                                     /\ got[f] = j[reads[i][1]]
    BY FillWhole DEF Filling
  <2> QED
    BY <2>1 DEF Filling
<1>4. lists \subseteq DOMAIN struct \ unread
  BY DEF Filling
<1> HIDE DEF got
<1>5. Held(got) \subseteq DOMAIN struct \ unread
  BY <1>1, <1>2 DEF Held
<1>6. DOMAIN struct \ unread \subseteq Held(got) \cup lists
  BY <1>1, <1>3 DEF Held
<1>7. Held(got) \cup lists = DOMAIN got \ unread
  BY <1>1, <1>4, <1>5, <1>6
<1> QED
  BY <1>7 DEF Filled, got

\* A list that only one read fills holds the list of the answer, when all is read.
OnlyRead(reads, m, f) ==
    /\ DOMAIN reads = 1 .. Len(reads) /\ Len(reads) \in Nat
    /\ \E i \in 1 .. Len(reads) :
          /\ reads[i][1] = m
          /\ \A l \in 1 .. Len(reads) : reads[l][2] = f <=> l = i

LEMMA WholeList ==
    ASSUME NEW struct, NEW j, NEW reads, NEW m, NEW f \in DOMAIN struct,
           OnlyRead(reads, m, f), Fill(struct, j, reads).whole
    PROVE  m \in DOMAIN j /\ Fill(struct, j, reads).value[f] = j[m]
<1> DEFINE n == Len(reads)
<1>1. /\ n \in Nat /\ DOMAIN reads = 1 .. n
      /\ Done(j, reads) = n
  BY DEF Fill, OnlyRead
<1>2. PICK i \in 1 .. n : reads[i][1] = m /\ \A l \in 1 .. n : reads[l][2] = f <=> l = i
  BY DEF OnlyRead
<1>3. Fill(struct, j, reads).value[f] = j[reads[i][1]]
  <2>1. i <= n
    BY <1>1
  <2> QED
    BY <1>1, <1>2, <2>1, FillMember
<1>4. reads[i][1] \in DOMAIN j
  BY <1>1, DoneReads
<1> QED
  BY <1>2, <1>3, <1>4

\* A list that was not refused holds the structs its objects were read into, and the
\* other members are as they were.
LEMMA ParsedList ==
    ASSUME NEW j, NEW list, NEW filled
    PROVE  /\ DOMAIN Parsed(j, list, filled) \subseteq DOMAIN j
           /\ DOMAIN j \ {list} \subseteq DOMAIN Parsed(j, list, filled)
           /\ \A m \in DOMAIN j \ {list} : Parsed(j, list, filled)[m] = j[m]
           /\ list \in DOMAIN Parsed(j, list, filled) =>
                 /\ DOMAIN Parsed(j, list, filled)[list] = DOMAIN filled
                 /\ \A i \in DOMAIN filled :
                       /\ filled[i].whole
                       /\ Parsed(j, list, filled)[list][i] = filled[i].value
<1>1. CASE list \notin DOMAIN j \/ \E i \in DOMAIN filled : ~filled[i].whole
  BY <1>1 DEF Parsed, Restrict
<1>2. CASE list \in DOMAIN j /\ \A i \in DOMAIN filled : filled[i].whole
  BY <1>2 DEF Parsed
<1> QED
  BY <1>1, <1>2

\* The structs without lists.
LEMMA ElectrumFilled ==
    ASSUME NEW j, Says(j), FillElectrum(j).whole
    PROVE  Filled(FillElectrum(j).value, {}, {})
<1> DEFINE reads == Same(<<"address", "balance", "result">>)
<1>1. DOMAIN reads = 1 .. 3 /\ Len(reads) = 3
  BY DEF Same
<1>2. /\ reads[1][1] = "address" /\ reads[1][2] = "address"
      /\ reads[2][1] = "balance" /\ reads[2][2] = "balance"
      /\ reads[3][1] = "result" /\ reads[3][2] = "result"
  BY DEF Same
<1> HIDE DEF reads
<1>3. Filling(ElectrumAnswer, j, reads, {}, {})
  BY <1>1, <1>2 DEF Filling, ElectrumAnswer, Blank, Says
<1>4. FillElectrum(j) = Fill(ElectrumAnswer, j, reads)
  BY DEF FillElectrum, reads
<1> QED
  BY <1>3, <1>4, WholeIsFilled

LEMMA BalanceFilled ==
    ASSUME NEW j, Says(j), FillBalance(j).whole
    PROVE  Filled(FillBalance(j).value, {}, {})
<1> DEFINE reads == Same(<<"address", "balance", "coin">>)
<1>1. DOMAIN reads = 1 .. 3 /\ Len(reads) = 3
  BY DEF Same
<1>2. /\ reads[1][1] = "address" /\ reads[1][2] = "address"
      /\ reads[2][1] = "balance" /\ reads[2][2] = "balance"
      /\ reads[3][1] = "coin" /\ reads[3][2] = "coin"
  BY DEF Same
<1> HIDE DEF reads
<1>3. Filling(BalanceAnswer, j, reads, {}, {})
  BY <1>1, <1>2 DEF Filling, BalanceAnswer, Blank, Says
<1>4. FillBalance(j) = Fill(BalanceAnswer, j, reads)
  BY DEF FillBalance, reads
<1> QED
  BY <1>3, <1>4, WholeIsFilled

LEMMA VersionFilled ==
    ASSUME NEW j, Says(j), FillVersion(j).whole
    PROVE  Filled(FillVersion(j).value, {}, {})
<1> DEFINE reads == << <<"result", "version">> >>
<1>1. DOMAIN reads = 1 .. 1 /\ Len(reads) = 1
  BY DEF Same
<1>2. reads[1][1] = "result" /\ reads[1][2] = "version"
  BY DEF Same
<1> HIDE DEF reads
<1>3. Filling(VersionAnswer, j, reads, {}, {})
  BY <1>1, <1>2 DEF Filling, VersionAnswer, Blank, Says
<1>4. FillVersion(j) = Fill(VersionAnswer, j, reads)
  BY DEF FillVersion, reads
<1> QED
  BY <1>3, <1>4, WholeIsFilled

LEMMA SetPriceFilled ==
    ASSUME NEW j, Says(j), FillSetPrice(j).whole
    PROVE  Filled(FillSetPrice(j).value, {}, {"min_base_vol"})
<1> DEFINE reads == Same(<<"rel", "base", "price", "uuid", "started_swaps",
                           "max_base_vol">>)
                    \o << <<"min_base_vol", "max_base_vol">> >>
                    \o Same(<<"created_at", "matches">>)
<1>1. DOMAIN reads = 1 .. 9 /\ Len(reads) = 9
  BY DEF Same
<1>2. /\ reads[1][1] = "rel" /\ reads[1][2] = "rel"
      /\ reads[2][1] = "base" /\ reads[2][2] = "base"
      /\ reads[3][1] = "price" /\ reads[3][2] = "price"
      /\ reads[4][1] = "uuid" /\ reads[4][2] = "uuid"
      /\ reads[5][1] = "started_swaps" /\ reads[5][2] = "started_swaps"
      /\ reads[6][1] = "max_base_vol" /\ reads[6][2] = "max_base_vol"
      /\ reads[7][1] = "min_base_vol" /\ reads[7][2] = "max_base_vol"
      /\ reads[8][1] = "created_at" /\ reads[8][2] = "created_at"
      /\ reads[9][1] = "matches" /\ reads[9][2] = "matches"
  BY DEF Same
<1> HIDE DEF reads
<1>3. Filling(SetPriceResult, j, reads, {}, {"min_base_vol"})
  BY <1>1, <1>2 DEF Filling, SetPriceResult, Blank, Says
<1>4. FillSetPrice(j) = Fill(SetPriceResult, j, reads)
  BY DEF FillSetPrice, reads
<1> QED
  BY <1>3, <1>4, WholeIsFilled

LEMMA CancelAllFilled ==
    ASSUME NEW j, Says(j), FillCancelAll(j).whole
    PROVE  Filled(FillCancelAll(j).value, {}, {})
<1> DEFINE reads == Same(<<"cancelled", "currently_matching">>)
<1>1. DOMAIN reads = 1 .. 2 /\ Len(reads) = 2
  BY DEF Same
<1>2. /\ reads[1][1] = "cancelled" /\ reads[1][2] = "cancelled"
      /\ reads[2][1] = "currently_matching" /\ reads[2][2] = "currently_matching"
  BY DEF Same
<1> HIDE DEF reads
<1>3. Filling(CancelAllAnswer, j, reads, {}, {})
  BY <1>1, <1>2 DEF Filling, CancelAllAnswer, Blank, Says
<1>4. FillCancelAll(j) = Fill(CancelAllAnswer, j, reads)
  BY DEF FillCancelAll, reads
<1> QED
  BY <1>3, <1>4, WholeIsFilled

LEMMA WithdrawFilled ==
    ASSUME NEW j, Says(j), FillWithdraw(j).whole
    PROVE  Filled(FillWithdraw(j).value, {}, {})
<1> DEFINE reads == Same(<<"from", "to", "spent_by_me", "total_amount",
                           "my_balance_change", "received_by_me", "tx_hash",
                           "tx_hex">>)
<1>1. DOMAIN reads = 1 .. 8 /\ Len(reads) = 8
  BY DEF Same
<1>2. /\ reads[1][1] = "from" /\ reads[1][2] = "from"
      /\ reads[2][1] = "to" /\ reads[2][2] = "to"
      /\ reads[3][1] = "spent_by_me" /\ reads[3][2] = "spent_by_me"
      /\ reads[4][1] = "total_amount" /\ reads[4][2] = "total_amount"
      /\ reads[5][1] = "my_balance_change" /\ reads[5][2] = "my_balance_change"
      /\ reads[6][1] = "received_by_me" /\ reads[6][2] = "received_by_me"
      /\ reads[7][1] = "tx_hash" /\ reads[7][2] = "tx_hash"
      /\ reads[8][1] = "tx_hex" /\ reads[8][2] = "tx_hex"
  BY DEF Same
<1> HIDE DEF reads
<1>3. Filling(WithdrawAnswer, j, reads, {}, {})
  BY <1>1, <1>2 DEF Filling, WithdrawAnswer, Blank, Says
<1>4. FillWithdraw(j) = Fill(WithdrawAnswer, j, reads)
  BY DEF FillWithdraw, reads
<1> QED
  BY <1>3, <1>4, WholeIsFilled

LEMMA SendRawFilled ==
    ASSUME NEW j, Says(j), FillSendRaw(j).whole
    PROVE  Filled(FillSendRaw(j).value, {}, {})
<1> DEFINE reads == Same(<<"tx_hash">>)
<1>1. DOMAIN reads = 1 .. 1 /\ Len(reads) = 1
  BY DEF Same
<1>2. reads[1][1] = "tx_hash" /\ reads[1][2] = "tx_hash"
  BY DEF Same
<1> HIDE DEF reads
<1>3. Filling(SendRawAnswer, j, reads, {}, {})
  BY <1>1, <1>2 DEF Filling, SendRawAnswer, Blank, Says
<1>4. FillSendRaw(j) = Fill(SendRawAnswer, j, reads)
  BY DEF FillSendRaw, reads
<1> QED
  BY <1>3, <1>4, WholeIsFilled

LEMMA TradeFilled ==
    ASSUME NEW j, Says(j), FillTrade(j).whole
    PROVE  Filled(FillTrade(j).value, {}, {})
<1> DEFINE reads == Same(<<"rel", "base", "action", "uuid", "method", "rel_amount",
                           "base_amount", "dest_pub_key">>)
                    \o << <<"sender_pubkey", "sender_pub_key">> >>
<1>1. DOMAIN reads = 1 .. 9 /\ Len(reads) = 9
  BY DEF Same
<1>2. /\ reads[1][1] = "rel" /\ reads[1][2] = "rel"
      /\ reads[2][1] = "base" /\ reads[2][2] = "base"
      /\ reads[3][1] = "action" /\ reads[3][2] = "action"
      /\ reads[4][1] = "uuid" /\ reads[4][2] = "uuid"
      /\ reads[5][1] = "method" /\ reads[5][2] = "method"
      /\ reads[6][1] = "rel_amount" /\ reads[6][2] = "rel_amount"
      /\ reads[7][1] = "base_amount" /\ reads[7][2] = "base_amount"
      /\ reads[8][1] = "dest_pub_key" /\ reads[8][2] = "dest_pub_key"
      /\ reads[9][1] = "sender_pubkey" /\ reads[9][2] = "sender_pub_key"
  BY DEF Same
<1> HIDE DEF reads
<1>3. Filling(TradeResult, j, reads, {}, {})
  BY <1>1, <1>2 DEF Filling, TradeResult, Blank, Says
<1>4. FillTrade(j) = Fill(TradeResult, j, reads)
  BY DEF FillTrade, reads
<1> QED
  BY <1>3, <1>4, WholeIsFilled

LEMMA ContentsFilled ==
    ASSUME NEW j, Says(j), FillContents(j).whole
    PROVE  Filled(FillContents(j).value, {}, {"price_as_integer", "num_utxos", "ave_volume", "depth"})
<1> DEFINE reads == Same(<<"coin", "address", "price">>)
                    \o << <<"maxvolume", "max_volume">>, <<"pubkey", "pub_key">> >>
                    \o Same(<<"age", "zcredits">>)
<1>1. DOMAIN reads = 1 .. 7 /\ Len(reads) = 7
  BY DEF Same
<1>2. /\ reads[1][1] = "coin" /\ reads[1][2] = "coin"
      /\ reads[2][1] = "address" /\ reads[2][2] = "address"
      /\ reads[3][1] = "price" /\ reads[3][2] = "price"
      /\ reads[4][1] = "maxvolume" /\ reads[4][2] = "max_volume"
      /\ reads[5][1] = "pubkey" /\ reads[5][2] = "pub_key"
      /\ reads[6][1] = "age" /\ reads[6][2] = "age"
      /\ reads[7][1] = "zcredits" /\ reads[7][2] = "zcredits"
  BY DEF Same
<1> HIDE DEF reads
<1>3. Filling(OrderContents, j, reads, {}, {"price_as_integer", "num_utxos", "ave_volume", "depth"})
  BY <1>1, <1>2 DEF Filling, OrderContents, Blank, Says
<1>4. FillContents(j) = Fill(OrderContents, j, reads)
  BY DEF FillContents, reads
<1> QED
  BY <1>3, <1>4, WholeIsFilled

LEMMA CoinFilled ==
    ASSUME NEW j, Says(j), FillEnabledCoin(j).whole
    PROVE  Filled(FillEnabledCoin(j).value, {}, {})
<1> DEFINE reads == Same(<<"address", "ticker">>)
<1>1. DOMAIN reads = 1 .. 2 /\ Len(reads) = 2
  BY DEF Same
<1>2. /\ reads[1][1] = "address" /\ reads[1][2] = "address"
      /\ reads[2][1] = "ticker" /\ reads[2][2] = "ticker"
  BY DEF Same
<1> HIDE DEF reads
<1>3. Filling(EnabledCoin, j, reads, {}, {})
  BY <1>1, <1>2 DEF Filling, EnabledCoin, Blank, Says
<1>4. FillEnabledCoin(j) = Fill(EnabledCoin, j, reads)
  BY DEF FillEnabledCoin, reads
<1> QED
  BY <1>3, <1>4, WholeIsFilled

LEMMA MakerFilled ==
    ASSUME NEW j, Says(j), FillMaker(j).whole
    PROVE  Filled(FillMaker(j).value, {}, {})
<1> DEFINE reads == Same(<<"base", "rel", "uuid">>)
                    \o << <<"max_base_vol", "base_amount">>, <<"price", "price">> >>
<1>1. DOMAIN reads = 1 .. 5 /\ Len(reads) = 5
  BY DEF Same
<1>2. /\ reads[1][1] = "base" /\ reads[1][2] = "base"
      /\ reads[2][1] = "rel" /\ reads[2][2] = "rel"
      /\ reads[3][1] = "uuid" /\ reads[3][2] = "uuid"
      /\ reads[4][1] = "max_base_vol" /\ reads[4][2] = "base_amount"
      /\ reads[5][1] = "price" /\ reads[5][2] = "price"
  BY DEF Same
<1> HIDE DEF reads
<1>3. Filling(MakerOrder, j, reads, {}, {})
  BY <1>1, <1>2 DEF Filling, MakerOrder, Blank, Says
<1>4. FillMaker(j) = Fill(MakerOrder, j, reads)
  BY DEF FillMaker, reads
<1> QED
  BY <1>3, <1>4, WholeIsFilled

LEMMA TakerFilled ==
    ASSUME NEW j, Says(j), FillTaker(j).whole
    PROVE  Filled(FillTaker(j).value, {}, {})
<1> DEFINE reads == Same(<<"base", "rel", "uuid", "base_amount", "rel_amount">>)
<1>1. DOMAIN reads = 1 .. 5 /\ Len(reads) = 5
  BY DEF Same
<1>2. /\ reads[1][1] = "base" /\ reads[1][2] = "base"
      /\ reads[2][1] = "rel" /\ reads[2][2] = "rel"
      /\ reads[3][1] = "uuid" /\ reads[3][2] = "uuid"
      /\ reads[4][1] = "base_amount" /\ reads[4][2] = "base_amount"
      /\ reads[5][1] = "rel_amount" /\ reads[5][2] = "rel_amount"
  BY DEF Same
<1> HIDE DEF reads
<1>3. Filling(TakerOrder, j, reads, {}, {})
  BY <1>1, <1>2 DEF Filling, TakerOrder, Blank, Says
<1>4. FillTaker(j) = Fill(TakerOrder, j, reads)
  BY DEF FillTaker, reads
<1> QED
  BY <1>3, <1>4, WholeIsFilled

\* A list that was not refused is filled if each of its objects, read whole, is.
LEMMA ListFilled ==
    ASSUME NEW j, NEW list, NEW filled, NEW lists, NEW unread,
           list \in DOMAIN Parsed(j, list, filled), DOMAIN filled = DOMAIN j[list],
           \A i \in DOMAIN filled : filled[i].whole => Filled(filled[i].value, lists, unread)
    PROVE  AllFilled(Parsed(j, list, filled)[list], j[list], lists, unread)
<1> DEFINE got == Parsed(j, list, filled)[list]
<1>1. /\ DOMAIN got = DOMAIN filled
      /\ \A i \in DOMAIN filled : got[i] = filled[i].value /\ filled[i].whole
  BY ParsedList
<1> HIDE DEF got
<1>2. DOMAIN got = DOMAIN j[list] /\ \A i \in DOMAIN got : Filled(got[i], lists, unread)
  BY <1>1
<1> QED
  BY <1>2 DEF AllFilled, got

\* The time, the type and the data of an event.
LEMMA EventFilled ==
    ASSUME NEW j, Says(j), FillEventTs(j).whole
    PROVE  Filled(FillEventTs(j).value, {"data"}, {})
<1> DEFINE reads == Same(<<"type", "timestamp">>)
           struct == [EventTs EXCEPT !["data"] = IF "data" \in DOMAIN j
                                                 THEN FillEventData(j["data"]) ELSE @]
<1>1. DOMAIN reads = 1 .. 2 /\ Len(reads) = 2
  BY DEF Same
<1>2. /\ reads[1][1] = "type" /\ reads[1][2] = "type"
      /\ reads[2][1] = "timestamp" /\ reads[2][2] = "timestamp"
  BY DEF Same
<1>3. DOMAIN struct = {"data", "type", "timestamp"}
  BY DEF EventTs, Merged, Blank
<1>4. FillEventTs(j) = Fill(struct, j, reads)
  BY DEF FillEventTs
<1> HIDE DEF reads, struct
<1>5. Filling(struct, j, reads, {"data"}, {})
  BY <1>1, <1>2, <1>3 DEF Filling, Says
<1> QED
  BY <1>4, <1>5, WholeIsFilled

\* The coins enabled.
LEMMA CoinsFilled ==
    ASSUME NEW j, "result" \in DOMAIN j => \A i \in DOMAIN j["result"] : Says(j["result"][i]),
           FillEnabledCoins(j).whole
    PROVE  AllFilled(FillEnabledCoins(j).value["result_enabled_coins"], j["result"], {}, {})
<1> DEFINE reads == << <<"result", "result_enabled_coins">> >>
           coins == Each(j["result"], FillEnabledCoin)
           kept == Parsed(j, "result", coins)
<1>1. /\ DOMAIN reads = 1 .. 1 /\ Len(reads) = 1
      /\ reads[1][1] = "result" /\ reads[1][2] = "result_enabled_coins"
  OBVIOUS
<1>2. FillEnabledCoins(j) = Fill(EnabledCoinsAnswer, kept, reads)
  BY DEF FillEnabledCoins
<1>3. DOMAIN EnabledCoinsAnswer = {"result_enabled_coins"}
  BY DEF EnabledCoinsAnswer
<1>4. DOMAIN coins = DOMAIN j["result"]
      /\ \A i \in DOMAIN coins : coins[i] = FillEnabledCoin(j["result"][i])
  BY DEF Each
<1> HIDE DEF reads, coins
<1>5. /\ "result" \in DOMAIN kept
      /\ FillEnabledCoins(j).value["result_enabled_coins"] = kept["result"]
  <2> HIDE DEF kept
  <2>1. OnlyRead(reads, "result", "result_enabled_coins")
    BY <1>1 DEF OnlyRead
  <2> QED
    BY <1>2, <1>3, <2>1, WholeList
<1>6. "result" \in DOMAIN j
  BY <1>5, ParsedList
<1>7. \A i \in DOMAIN coins : coins[i].whole => Filled(coins[i].value, {}, {})
  BY <1>4, <1>6, CoinFilled
<1> QED
  BY <1>4, <1>5, <1>7, ListFilled

\* The two sides of the orderbook, and the rest of it.
LEMMA OrderbookFilled ==
    ASSUME NEW j, Says(j),
           \A list \in {"bids", "asks"} \cap DOMAIN j : \A i \in DOMAIN j[list] : Says(j[list][i]),
           FillOrderbook(j).whole
    PROVE  Complete("orderbook", j, FillOrderbook(j).value)
<1> DEFINE reads == << <<"askdepth", "ask_depth">>, <<"biddepth", "bid_depth">>,
                       <<"netid", "net_id">>, <<"numasks", "num_asks">>,
                       <<"numbids", "num_bids">> >>
                    \o Same(<<"timestamp", "bids", "asks", "base", "rel">>)
           first == Each(j["bids"], FillContents)
           second == Each(j["asks"], FillContents)
           half == Parsed(j, "bids", first)
           kept == Parsed(half, "asks", second)
           unread == {"price_as_integer", "num_utxos", "ave_volume", "depth"}
           got == FillOrderbook(j).value
<1>1. DOMAIN reads = 1 .. 10 /\ Len(reads) = 10
  BY DEF Same
<1>2. /\ reads[1][1] = "askdepth" /\ reads[1][2] = "ask_depth"
      /\ reads[2][1] = "biddepth" /\ reads[2][2] = "bid_depth"
      /\ reads[3][1] = "netid" /\ reads[3][2] = "net_id"
      /\ reads[4][1] = "numasks" /\ reads[4][2] = "num_asks"
      /\ reads[5][1] = "numbids" /\ reads[5][2] = "num_bids"
      /\ reads[6][1] = "timestamp" /\ reads[6][2] = "timestamp"
      /\ reads[7][1] = "bids" /\ reads[7][2] = "bids"
      /\ reads[8][1] = "asks" /\ reads[8][2] = "asks"
      /\ reads[9][1] = "base" /\ reads[9][2] = "base"
      /\ reads[10][1] = "rel" /\ reads[10][2] = "rel"
  BY DEF Same
<1>3. FillOrderbook(j) = Fill(OrderbookAnswer, kept, reads)
  BY DEF FillOrderbook
<1>4. DOMAIN OrderbookAnswer = {"ask_depth", "asks", "base", "bid_depth", "bids", "net_id",
                                "num_asks", "num_bids", "rel", "timestamp"}
  BY DEF OrderbookAnswer, Merged, Blank
<1>5. /\ DOMAIN first = DOMAIN j["bids"]
      /\ \A i \in DOMAIN first : first[i] = FillContents(j["bids"][i])
      /\ DOMAIN second = DOMAIN j["asks"]
      /\ \A i \in DOMAIN second : second[i] = FillContents(j["asks"][i])
  BY DEF Each
<1> HIDE DEF reads, first, second
<1>6. /\ DOMAIN half \subseteq DOMAIN j
      /\ \A m \in DOMAIN j \ {"bids"} : half[m] = j[m]
  BY ParsedList
<1>7. /\ DOMAIN kept \subseteq DOMAIN half
      /\ \A m \in DOMAIN half \ {"asks"} : kept[m] = half[m]
  <2> HIDE DEF half
  <2> QED
    BY ParsedList
<1>8. /\ "bids" \in DOMAIN kept /\ got["bids"] = kept["bids"]
      /\ "asks" \in DOMAIN kept /\ got["asks"] = kept["asks"]
  <2> HIDE DEF kept
  <2>1. OnlyRead(reads, "bids", "bids")
    <3>1. 7 \in 1 .. 10 /\ \A l \in 1 .. 10 : reads[l][2] = "bids" <=> l = 7
      BY <1>2
    <3> QED
      BY <1>1, <1>2, <3>1 DEF OnlyRead
  <2>2. OnlyRead(reads, "asks", "asks")
    <3>1. 8 \in 1 .. 10 /\ \A l \in 1 .. 10 : reads[l][2] = "asks" <=> l = 8
      BY <1>2
    <3> QED
      BY <1>1, <1>2, <3>1 DEF OnlyRead
  <2>3. Fill(OrderbookAnswer, kept, reads).whole
    BY <1>3
  <2>4. "bids" \in DOMAIN OrderbookAnswer /\ "asks" \in DOMAIN OrderbookAnswer
    BY <1>4
  <2>5. /\ "bids" \in DOMAIN kept
        /\ Fill(OrderbookAnswer, kept, reads).value["bids"] = kept["bids"]
    BY <2>1, <2>3, <2>4, WholeList
  <2>6. /\ "asks" \in DOMAIN kept
        /\ Fill(OrderbookAnswer, kept, reads).value["asks"] = kept["asks"]
    BY <2>2, <2>3, <2>4, WholeList
  <2> QED
    BY <1>3, <2>5, <2>6
<1>9. AllFilled(got["bids"], j["bids"], {}, unread)
  <2>1. "bids" \in DOMAIN half /\ got["bids"] = half["bids"] /\ "bids" \in DOMAIN j
    BY <1>6, <1>7, <1>8
  <2>2. \A i \in DOMAIN first : first[i].whole => Filled(first[i].value, {}, unread)
    BY <1>5, <2>1, ContentsFilled
  <2> HIDE DEF unread, got
  <2> QED
    BY <1>5, <2>1, <2>2, ListFilled
<1>10. AllFilled(got["asks"], j["asks"], {}, unread)
  <2>1. "asks" \in DOMAIN half /\ half["asks"] = j["asks"] /\ "asks" \in DOMAIN j
    BY <1>6, <1>7, <1>8
  <2>2. \A i \in DOMAIN second : second[i].whole => Filled(second[i].value, {}, unread)
    BY <1>5, <2>1, ContentsFilled
  <2> HIDE DEF unread, got, half
  <2> QED
    BY <1>5, <1>8, <2>1, <2>2, ListFilled
<1>11. Filled(got, {"bids", "asks"}, {})
  <2>1. \A m \in DOMAIN kept \ {"bids", "asks"} : m \in DOMAIN j /\ kept[m] = j[m]
    BY <1>6, <1>7
  <2> HIDE DEF kept
  <2>2. Filling(OrderbookAnswer, kept, reads, {"bids", "asks"}, {})
    BY <1>1, <1>2, <1>4, <2>1 DEF Filling, Says
  <2> QED
    BY <1>3, <2>2, WholeIsFilled
<1> HIDE DEF got
<1> QED
  BY <1>9, <1>10, <1>11 DEF Complete, got

\* The maker and the taker orders.
LEMMA OrdersFilled ==
    ASSUME NEW j, 
           \A list \in {"maker_orders", "taker_orders"} \cap DOMAIN j : \A i \in DOMAIN j[list] : Says(j[list][i]),
           FillMyOrders(j).whole
    PROVE  Complete("my_orders", j, FillMyOrders(j).value)
<1> DEFINE reads == << <<"maker_orders", "m_orders">>, <<"taker_orders", "t_orders">> >>
           first == Each(j["maker_orders"], FillMaker)
           second == Each(j["taker_orders"], FillTaker)
           half == Parsed(j, "maker_orders", first)
           kept == Parsed(half, "taker_orders", second)
           unread == {}
           got == FillMyOrders(j).value
<1>1. DOMAIN reads = 1 .. 2 /\ Len(reads) = 2
  BY DEF Same
<1>2. /\ reads[1][1] = "maker_orders" /\ reads[1][2] = "m_orders"
      /\ reads[2][1] = "taker_orders" /\ reads[2][2] = "t_orders"
  BY DEF Same
<1>3. FillMyOrders(j) = Fill(MyOrdersAnswer, kept, reads)
  BY DEF FillMyOrders
<1>4. DOMAIN MyOrdersAnswer = {"m_orders", "t_orders"}
  BY DEF MyOrdersAnswer, Merged, Blank
<1>5. /\ DOMAIN first = DOMAIN j["maker_orders"]
      /\ \A i \in DOMAIN first : first[i] = FillMaker(j["maker_orders"][i])
      /\ DOMAIN second = DOMAIN j["taker_orders"]
      /\ \A i \in DOMAIN second : second[i] = FillTaker(j["taker_orders"][i])
  BY DEF Each
<1> HIDE DEF reads, first, second
<1>6. /\ DOMAIN half \subseteq DOMAIN j
      /\ \A m \in DOMAIN j \ {"maker_orders"} : half[m] = j[m]
  BY ParsedList
<1>7. /\ DOMAIN kept \subseteq DOMAIN half
      /\ \A m \in DOMAIN half \ {"taker_orders"} : kept[m] = half[m]
  <2> HIDE DEF half
  <2> QED
    BY ParsedList
<1>8. /\ "maker_orders" \in DOMAIN kept /\ got["m_orders"] = kept["maker_orders"]
      /\ "taker_orders" \in DOMAIN kept /\ got["t_orders"] = kept["taker_orders"]
  <2> HIDE DEF kept
  <2>1. OnlyRead(reads, "maker_orders", "m_orders")
    <3>1. 1 \in 1 .. 2 /\ \A l \in 1 .. 2 : reads[l][2] = "m_orders" <=> l = 1
      BY <1>2
    <3> QED
      BY <1>1, <1>2, <3>1 DEF OnlyRead
  <2>2. OnlyRead(reads, "taker_orders", "t_orders")
    <3>1. 2 \in 1 .. 2 /\ \A l \in 1 .. 2 : reads[l][2] = "t_orders" <=> l = 2
      BY <1>2
    <3> QED
      BY <1>1, <1>2, <3>1 DEF OnlyRead
  <2>3. Fill(MyOrdersAnswer, kept, reads).whole
    BY <1>3
  <2>4. "m_orders" \in DOMAIN MyOrdersAnswer /\ "t_orders" \in DOMAIN MyOrdersAnswer
    BY <1>4
  <2>5. /\ "maker_orders" \in DOMAIN kept
        /\ Fill(MyOrdersAnswer, kept, reads).value["m_orders"] = kept["maker_orders"]
    BY <2>1, <2>3, <2>4, WholeList
  <2>6. /\ "taker_orders" \in DOMAIN kept
        /\ Fill(MyOrdersAnswer, kept, reads).value["t_orders"] = kept["taker_orders"]
    BY <2>2, <2>3, <2>4, WholeList
  <2> QED
    BY <1>3, <2>5, <2>6
<1>9. AllFilled(got["m_orders"], j["maker_orders"], {}, unread)
  <2>1. "maker_orders" \in DOMAIN half /\ got["m_orders"] = half["maker_orders"] /\ "maker_orders" \in DOMAIN j
    BY <1>6, <1>7, <1>8
  <2>2. \A i \in DOMAIN first : first[i].whole => Filled(first[i].value, {}, unread)
    BY <1>5, <2>1, MakerFilled
  <2> HIDE DEF unread, got
  <2> QED
    BY <1>5, <2>1, <2>2, ListFilled
<1>10. AllFilled(got["t_orders"], j["taker_orders"], {}, unread)
  <2>1. "taker_orders" \in DOMAIN half /\ half["taker_orders"] = j["taker_orders"] /\ "taker_orders" \in DOMAIN j
    BY <1>6, <1>7, <1>8
  <2>2. \A i \in DOMAIN second : second[i].whole => Filled(second[i].value, {}, unread)
    BY <1>5, <2>1, TakerFilled
  <2> HIDE DEF unread, got, half
  <2> QED
    BY <1>5, <1>8, <2>1, <2>2, ListFilled
<1> HIDE DEF got
<1> QED
  BY <1>9, <1>10 DEF Complete, got

\* A swap, and its events.
LEMMA SwapFilled ==
    ASSUME NEW j, Says(j),
           "events" \in DOMAIN j => \A k \in DOMAIN j["events"] : Says(j["events"][k]),
           FillSwap(j).whole
    PROVE  /\ Filled(FillSwap(j).value, {"events"}, {})
           /\ AllFilled(FillSwap(j).value["events"], j["events"], {"data"}, {})
<1> DEFINE reads == Same(<<"events", "error_events", "type">>)
           events == Each(j["events"], FillEventTs)
           kept == Parsed(j, "events", events)
<1>1. DOMAIN reads = 1 .. 3 /\ Len(reads) = 3
  BY DEF Same
<1>2. /\ reads[1][1] = "events" /\ reads[1][2] = "events"
      /\ reads[2][1] = "error_events" /\ reads[2][2] = "error_events"
      /\ reads[3][1] = "type" /\ reads[3][2] = "type"
  BY DEF Same
<1>3. FillSwap(j) = Fill(SwapInfo, kept, reads)
  BY DEF FillSwap
<1>4. DOMAIN SwapInfo = {"events", "error_events", "type"}
  BY DEF SwapInfo, Merged, Blank
<1>5. DOMAIN events = DOMAIN j["events"]
      /\ \A i \in DOMAIN events : events[i] = FillEventTs(j["events"][i])
  BY DEF Each
<1> HIDE DEF reads, events
<1>6. "events" \in DOMAIN kept /\ FillSwap(j).value["events"] = kept["events"]
  <2> HIDE DEF kept
  <2>1. OnlyRead(reads, "events", "events")
    BY <1>1, <1>2 DEF OnlyRead
  <2>2. Fill(SwapInfo, kept, reads).whole
    BY <1>3
  <2>3. "events" \in DOMAIN SwapInfo
    BY <1>4
  <2>4. /\ "events" \in DOMAIN kept
        /\ Fill(SwapInfo, kept, reads).value["events"] = kept["events"]
    <3> DEFINE member == "events"
    <3>1. OnlyRead(reads, member, member) /\ member \in DOMAIN SwapInfo
      BY <2>1, <2>3
    <3> HIDE DEF member
    <3>2. member \in DOMAIN kept /\ Fill(SwapInfo, kept, reads).value[member] = kept[member]
      BY <2>2, <3>1, WholeList
    <3> QED
      BY <3>2 DEF member
  <2> QED
    BY <1>3, <2>4
<1>7. \A m \in DOMAIN kept \ {"events"} : m \in DOMAIN j /\ kept[m] = j[m]
  BY ParsedList
<1>8. "events" \in DOMAIN j
  BY <1>6, ParsedList
<1>9. Filled(FillSwap(j).value, {"events"}, {})
  <2> HIDE DEF kept
  <2>1. Filling(SwapInfo, kept, reads, {"events"}, {})
    BY <1>1, <1>2, <1>4, <1>7 DEF Filling, Says
  <2> QED
    BY <1>3, <2>1, WholeIsFilled
<1>10. \A i \in DOMAIN events : events[i].whole => Filled(events[i].value, {"data"}, {})
  BY <1>5, <1>8, EventFilled
<1>11. AllFilled(FillSwap(j).value["events"], j["events"], {"data"}, {})
  BY <1>5, <1>6, <1>10, ListFilled
<1> QED
  BY <1>9, <1>11

\* The recent swaps.
LEMMA SwapsFilled ==
    ASSUME NEW j,
           "swaps" \in DOMAIN j => \A i \in DOMAIN j["swaps"] :
              /\ Says(j["swaps"][i])
              /\ "events" \in DOMAIN j["swaps"][i] =>
                    \A k \in DOMAIN j["swaps"][i]["events"] : Says(j["swaps"][i]["events"][k]),
           FillRecentSwaps(j).whole
    PROVE  Complete("my_recent_swaps", j, FillRecentSwaps(j).value)
<1> DEFINE reads == Same(<<"swaps">>)
           each == Each(j["swaps"], FillSwap)
           kept == Parsed(j, "swaps", each)
           got == FillRecentSwaps(j).value["swaps"]
<1>1. DOMAIN reads = 1 .. 1 /\ Len(reads) = 1 /\ reads[1][1] = "swaps" /\ reads[1][2] = "swaps"
  BY DEF Same
<1>2. FillRecentSwaps(j) = Fill(RecentSwapsAnswer, kept, reads)
  BY DEF FillRecentSwaps
<1>3. DOMAIN RecentSwapsAnswer = {"swaps"}
  BY DEF RecentSwapsAnswer
<1>4. DOMAIN each = DOMAIN j["swaps"] /\ \A i \in DOMAIN each : each[i] = FillSwap(j["swaps"][i])
  BY DEF Each
<1> HIDE DEF reads, each
<1>5. "swaps" \in DOMAIN kept /\ got = kept["swaps"]
  <2> HIDE DEF kept
  <2>1. OnlyRead(reads, "swaps", "swaps")
    BY <1>1 DEF OnlyRead
  <2>2. Fill(RecentSwapsAnswer, kept, reads).whole
    BY <1>2
  <2>3. "swaps" \in DOMAIN RecentSwapsAnswer
    BY <1>3
  <2>4. /\ "swaps" \in DOMAIN kept
        /\ Fill(RecentSwapsAnswer, kept, reads).value["swaps"] = kept["swaps"]
    BY <2>1, <2>2, <2>3, WholeList
  <2> QED
    BY <1>2, <2>4
<1>6. /\ "swaps" \in DOMAIN j /\ DOMAIN got = DOMAIN each
      /\ \A i \in DOMAIN each : got[i] = each[i].value /\ each[i].whole
  BY <1>5, ParsedList
<1>7. \A i \in DOMAIN each : Filled(each[i].value, {"events"}, {})
  BY <1>4, <1>6, SwapFilled
<1>8. AllFilled(got, j["swaps"], {"events"}, {})
  BY <1>4, <1>5, <1>7, ListFilled
<1>9. ASSUME NEW i \in DOMAIN got
      PROVE  AllFilled(got[i]["events"], j["swaps"][i]["events"], {"data"}, {})
  <2>1. /\ got[i] = FillSwap(j["swaps"][i]).value /\ FillSwap(j["swaps"][i]).whole
        /\ i \in DOMAIN j["swaps"]
    BY <1>4, <1>6, <1>9
  <2> QED
    BY <1>6, <2>1, SwapFilled
<1> HIDE DEF got
<1> QED
  BY <1>8, <1>9 DEF Complete, got

\* A trade, or the error of one that mm2 declined.
LEMMA TradeAnswerFilled ==
    ASSUME NEW j, Says(j), FillTradeAnswer(j).whole, NEW call \in {"buy", "sell"}
    PROVE  Complete(call, j, FillTradeAnswer(j).value)
<1> DEFINE got == FillTradeAnswer(j).value
<1>1. CASE "error" \in DOMAIN j
  <2>1. got = Merged(Single("error", j["error"]), Optional(DOMAIN TradeResult))
    BY <1>1 DEF FillTradeAnswer
  <2>2. "error" \notin DOMAIN TradeResult
    BY DEF TradeResult, Blank
  <2>3. /\ DOMAIN got = {"error"} \cup DOMAIN TradeResult
        /\ got["error"] = j["error"]
        /\ \A f \in DOMAIN TradeResult : got[f] = Absent
    BY <2>1, <2>2 DEF Merged, Single, Optional
  <2>4. Held(got) = {"error"}
    BY <1>1, <2>3 DEF Held, Says
  <2> HIDE DEF got
  <2> QED
    BY <1>1, <2>4 DEF Complete, got
<1>2. CASE "error" \notin DOMAIN j
  <2> DEFINE trade == FillTrade(j).value
  <2>1. got = Merged(trade, Optional({"error"})) /\ FillTrade(j).whole
    BY <1>2 DEF FillTradeAnswer
  <2>2. Held(trade) = DOMAIN trade
    BY <2>1, TradeFilled DEF Filled
  <2>3. "error" \notin DOMAIN trade
    BY DEF FillTrade, Fill, TradeResult, Blank
  <2> HIDE DEF trade
  <2>4. /\ DOMAIN got = {"error"} \cup DOMAIN trade
        /\ got["error"] = Absent
        /\ \A f \in DOMAIN trade : got[f] = trade[f]
    BY <2>1, <2>3 DEF Merged, Optional
  <2>5. Held(got) = DOMAIN got \ {"error"}
    BY <2>2, <2>3, <2>4 DEF Held
  <2> HIDE DEF got
  <2> QED
    BY <1>2, <2>5 DEF Complete, Filled, got
<1> QED
  BY <1>1, <1>2

\* Each call.
LEMMA AnswerFilled ==
    ASSUME NEW answer \in Answers, FillAnswer(answer.call, answer.body).whole
    PROVE  Complete(answer.call, answer.body, FillAnswer(answer.call, answer.body).value)
<1> DEFINE call == answer.call
           j == answer.body
<1>1. call \in Calls /\ Says(j)
  BY WireAssumption DEF SaysAll
<1>2. \A list \in ListsIn(call) \cap DOMAIN j : \A i \in DOMAIN j[list] :
          /\ Says(j[list][i])
          /\ call = "my_recent_swaps" /\ "events" \in DOMAIN j[list][i] =>
                \A k \in DOMAIN j[list][i]["events"] : Says(j[list][i]["events"][k])
  BY WireAssumption DEF SaysAll
<1> HIDE DEF call, j
<1>3. FillAnswer(call, j).whole
  BY DEF call, j
<1> SUFFICES Complete(call, j, FillAnswer(call, j).value)
  BY DEF call, j
<1>4. CASE call = "electrum"
  BY <1>1, <1>3, <1>4, ElectrumFilled DEF FillAnswer, Complete
<1>5. CASE call = "my_balance"
  BY <1>1, <1>3, <1>5, BalanceFilled DEF FillAnswer, Complete
<1>6. CASE call = "version"
  BY <1>1, <1>3, <1>6, VersionFilled DEF FillAnswer, Complete
<1>7. CASE call = "setprice"
  BY <1>1, <1>3, <1>7, SetPriceFilled DEF FillAnswer, Complete
<1>8. CASE call = "cancel_all_orders"
  BY <1>1, <1>3, <1>8, CancelAllFilled DEF FillAnswer, Complete
<1>9. CASE call = "withdraw"
  BY <1>1, <1>3, <1>9, WithdrawFilled DEF FillAnswer, Complete
<1>10. CASE call = "send_raw_transaction"
  BY <1>1, <1>3, <1>10, SendRawFilled DEF FillAnswer, Complete
<1>11. CASE call = "cancel_order"
  <2>1. FillAnswer(call, j).value = FillCancelOrder(j).value
    BY <1>11 DEF FillAnswer
  <2>2. DOMAIN FillAnswer(call, j).value = {}
    BY <2>1 DEF FillCancelOrder, Fill
  <2>3. Filled(FillAnswer(call, j).value, {}, {})
    BY <2>2 DEF Filled, Held
  <2> QED
    BY <1>11, <2>3 DEF Complete
<1>12. CASE call \in {"buy", "sell"}
  <2>1. FillAnswer(call, j) = FillTradeAnswer(j)
    BY <1>12 DEF FillAnswer
  <2> QED
    BY <1>1, <1>3, <1>12, <2>1, TradeAnswerFilled
<1>13. CASE call = "get_enabled_coins"
  <2>1. FillAnswer(call, j) = FillEnabledCoins(j)
    BY <1>13 DEF FillAnswer
  <2>2. "result" \in DOMAIN j => \A i \in DOMAIN j["result"] : Says(j["result"][i])
    BY <1>2, <1>13 DEF ListsIn
  <2> QED
    BY <1>3, <1>13, <2>1, <2>2, CoinsFilled DEF Complete
<1>14. CASE call = "orderbook"
  <2>1. FillAnswer(call, j) = FillOrderbook(j)
    BY <1>14 DEF FillAnswer
  <2>2. ListsIn(call) = {"bids", "asks"}
    BY <1>14 DEF ListsIn
  <2> QED
    BY <1>1, <1>2, <1>3, <1>14, <2>1, <2>2, OrderbookFilled
<1>15. CASE call = "my_orders"
  <2>1. FillAnswer(call, j) = FillMyOrders(j)
    BY <1>15 DEF FillAnswer
  <2>2. ListsIn(call) = {"maker_orders", "taker_orders"}
    BY <1>15 DEF ListsIn
  <2> QED
    BY <1>2, <1>3, <1>15, <2>1, <2>2, OrdersFilled
<1>16. CASE call = "my_recent_swaps"
  <2>1. FillAnswer(call, j) = FillRecentSwaps(j)
    BY <1>16 DEF FillAnswer
  <2>2. ListsIn(call) = {"swaps"}
    BY <1>16 DEF ListsIn
  <2> QED
    BY <1>2, <1>3, <1>16, <2>1, <2>2, SwapsFilled
<1> QED
  BY <1>1, <1>4, <1>5, <1>6, <1>7, <1>8, <1>9, <1>10, <1>11, <1>12, <1>13, <1>14, <1>15, <1>16
  DEF Calls

\* Whatever an answer holds, a struct whose code is 200 holds all of it, the structs of
\* its lists too, but for what no from_json reads; or it is a trade mm2 declined, which
\* holds the error alone (the from_json of every answer, rpc_process_call).
THEOREM AnswersAreWhole == Spec => []OkIsFilled
<1> DEFINE Answered == last.op = "answer" =>
               LET filled == FillAnswer(last.answer.call, last.answer.body)
               IN  /\ last.answer \in Answers
                   /\ last.code = IF filled.whole THEN 200 ELSE -1
                   /\ last.got = filled.value
<1>1. Init => Answered
  BY DEF Init
<1>2. Answered /\ [Next]_vars => Answered'
  <2> SUFFICES ASSUME Answered, [Next]_vars PROVE Answered'
    OBVIOUS
  <2>1. ASSUME NEW answer \in Answers, Process(answer) PROVE Answered'
    BY <2>1 DEF Process
  <2>2. CASE last' = last \/ last'.op # "answer"
    BY <2>2
  <2>3. CASE \/ \E post \in Bodies : Forward(post)
             \/ \E t \in Tokens : ReadPrice(t)
    BY <2>3 DEF Forward, ReadPrice
  <2> HIDE DEF Answered
  <2> QED
    BY <2>1, <2>2, <2>3, NextMessage
<1>3. Answered => OkIsFilled
  BY AnswerFilled DEF OkIsFilled
<1> HIDE DEF Answered
<1> QED
  BY <1>1, <1>2, <1>3, PTL DEF Spec

-------------------------------------------------------------------------------
(* The price of a platform.                                                 *)

\* Any number of a platform that is read is read as the price nearest to it
\* (coinpaprika's get_price, generate_st_price_from_api_price).
THEOREM QuotesAreNear == Spec => []QuoteIsNear
<1> DEFINE Quoted == last.op = "price" =>
               \E t \in Tokens : /\ last.symbol = t.symbol /\ last.token = t.token
                                 /\ last.price = PriceOf(t.token, Decimals(t.symbol))
<1>1. Init => Quoted
  BY DEF Init
<1>2. Quoted /\ [Next]_vars => Quoted'
  <2> SUFFICES ASSUME Quoted, [Next]_vars PROVE Quoted'
    OBVIOUS
  <2>1. ASSUME NEW t \in Tokens, ReadPrice(t) PROVE Quoted'
    BY <2>1 DEF ReadPrice
  <2>2. CASE last' = last \/ last'.op # "price"
    BY <2>2
  <2>3. CASE \/ \E post \in Bodies : Forward(post)
             \/ \E answer \in Answers : Process(answer)
    BY <2>3 DEF Forward, Process
  <2> HIDE DEF Quoted
  <2> QED
    BY <2>1, <2>2, <2>3, NextMessage
<1>3. Quoted => QuoteIsNear
  <2> SUFFICES ASSUME Quoted, last.op = "price", last.price # Terminates
               PROVE  Near(last.price, Decimals(last.symbol), last.token.m, Scale(last.token))
    BY DEF QuoteIsNear
  <2>1. PICK t \in Tokens : /\ last.symbol = t.symbol /\ last.token = t.token
                            /\ last.price = PriceOf(t.token, Decimals(t.symbol))
    OBVIOUS
  <2>2. Decimals(t.symbol) \in Nat /\ Normal(t.token)
    BY WireAssumption
  <2>3. t.token # NoFloat
    BY <2>1 DEF PriceOf, NoFloat, Token
  <2>4. Formatted(Extracted(t.token), Decimals(t.symbol)) < PriceModulus
    BY <2>3, RangeAssumption
  <2> QED
    BY <2>1, <2>2, <2>3, <2>4, PriceOfIs
<1> HIDE DEF Quoted
<1> QED
  BY <1>1, <1>2, <1>3, PTL DEF Spec
===============================================================================
