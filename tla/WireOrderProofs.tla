---------------------------- MODULE WireOrderProofs ----------------------------
(***************************************************************************)
(* The orders on the wire, for all ids, levels, decimals and answers: what *)
(* mm2 has on its book, and what the bot makes of the answers about it.    *)
(***************************************************************************)
EXTENDS WireProofs

-------------------------------------------------------------------------------
(* The order on the book.                                                   *)

\* An order on the book is one that was placed for a level, of one kind or the other.
Placed(level, kind) == [Booked(level, ToRequest(level)) EXCEPT !.kind = kind]
Kept(o) ==
    \E level \in Levels, kind \in {"taker", "maker"} :
        Takes(ToRequest(level)) /\ o = Placed(level, kind)

\* Its members.
LEMMA KeptOrder ==
    ASSUME NEW o, Kept(o)
    PROVE  /\ o # None /\ o.kind \in {"taker", "maker"}
           /\ Decimals(o.base) \in Nat /\ Decimals(o.rel) \in Nat
           /\ IsText(o.price) /\ o.price.n > 0
           /\ o.price = [n |-> o.level.price, s |-> Decimals(o.base)]
           /\ IsText(o.volume) /\ o.volume.n > 0
           /\ Empty \notin {o.volume, RelAmount(o)}
           /\ Formatted(o.price, Decimals(o.rel)) < PriceModulus
           /\ Formatted(StdToString(o.price, ToStringDigits), Decimals(o.rel)) < PriceModulus
<1>1. PICK level \in Levels, kind \in {"taker", "maker"} :
          Takes(ToRequest(level)) /\ o = Placed(level, kind)
  BY DEF Kept
<1> DEFINE request == ToRequest(level)
           b == Booked(level, request)
<1>2. /\ DOMAIN request = {"base", "rel", "price", "volume"}
      /\ request.base = level.base /\ request.rel = level.quote
      /\ request.price = Represented(level.price, Decimals(level.base), Decimals(level.base))
      /\ request.volume = StdToString(level.quantity, ToStringDigits)
      /\ request.price.n > 0 /\ request.volume.n > 0
  BY <1>1 DEF ToRequest, Takes
<1> HIDE DEF request
<1>3. b = [f \in {"base", "rel", "price", "volume", "kind", "level"} |->
              IF f \in DOMAIN request THEN request[f]
              ELSE [kind |-> "taker", level |-> level][f]]
  BY <1>2 DEF Booked, Merged
<1> HIDE DEF b
<1>4. /\ b.base = request.base /\ b.rel = request.rel
      /\ b.price = request.price /\ b.volume = request.volume /\ b.level = level
  BY <1>2, <1>3
<1>5. o = [b EXCEPT !.kind = kind]
  BY <1>1 DEF b, request, Placed
<1>6. /\ o.base = level.base /\ o.rel = level.quote /\ o.level = level /\ o.kind = kind
      /\ o.price = b.price /\ o.volume = b.volume
  BY <1>2, <1>3, <1>4, <1>5
<1>7. /\ Decimals(level.base) \in Nat /\ Decimals(level.quote) \in Nat
      /\ level.price \in Nat /\ IsText(level.quantity) /\ ToStringDigits \in Nat
  BY WireAssumption
<1>8. b.price = [n |-> level.price, s |-> Decimals(level.base)]
  BY <1>2, <1>4, <1>7 DEF Represented
<1>9. IsText(b.volume) /\ b.volume.n > 0
  BY <1>2, <1>4, <1>7, ToStringIsFormatted
<1>10. o # None /\ Empty \notin {b.volume, RelAmount(b)}
  BY <1>5, OrdersAssumption DEF b, request
<1>11. RelAmount(o) = RelAmount(b)
  BY <1>6 DEF RelAmount
<1>12. /\ Formatted(b.price, Decimals(b.rel)) < PriceModulus
       /\ Formatted(StdToString(b.price, ToStringDigits), Decimals(b.rel)) < PriceModulus
  BY RangeAssumption DEF b, request
<1>13. IsText(b.price) /\ b.price.n > 0
  BY <1>2, <1>4, <1>7, <1>8 DEF IsText
<1>14. b.rel = o.rel
  BY <1>2, <1>4, <1>6
<1> QED
  BY <1>1, <1>6, <1>7, <1>8, <1>9, <1>10, <1>11, <1>12, <1>13, <1>14

\* An order is of the taker kind when it is placed, and may become a maker order.
LEMMA BookedIsKept ==
    ASSUME NEW level \in Levels, Takes(Booked(level, ToRequest(level)))
    PROVE  Kept(Booked(level, ToRequest(level)))
<1> DEFINE request == ToRequest(level)
           b == Booked(level, request)
<1>1. DOMAIN request = {"base", "rel", "price", "volume"}
  BY DEF ToRequest
<1> HIDE DEF request
<1>2. b = [f \in {"base", "rel", "price", "volume", "kind", "level"} |->
              IF f \in DOMAIN request THEN request[f]
              ELSE [kind |-> "taker", level |-> level][f]]
  BY <1>1 DEF Booked, Merged
<1>3. b.price = request.price /\ b.volume = request.volume
  BY <1>1, <1>2
<1>4. b = [b EXCEPT !.kind = "taker"]
  BY <1>1, <1>2
<1> HIDE DEF b
<1>5. Takes(request) /\ b = Placed(level, "taker")
  BY <1>3, <1>4 DEF b, request, Takes, Placed
<1> QED
  BY <1>5 DEF Kept, b, request

LEMMA RestedIsKept ==
    ASSUME NEW o, Kept(o)
    PROVE  /\ Kept([o EXCEPT !.kind = "maker"])
           /\ LET m == [o EXCEPT !.kind = "maker"]
              IN  m.base = o.base /\ m.rel = o.rel /\ m.price = o.price /\ m.volume = o.volume
<1>1. PICK level \in Levels, kind \in {"taker", "maker"} :
          Takes(ToRequest(level)) /\ o = Placed(level, kind)
  BY DEF Kept
<1>2. [o EXCEPT !.kind = "maker"] = Placed(level, "maker")
  BY <1>1 DEF Placed
<1>3. Kept([o EXCEPT !.kind = "maker"])
  BY <1>1, <1>2 DEF Kept
<1> QED
  BY <1>3

BookInv == DOMAIN book = Ids /\ \A id \in Ids : book[id] # None => Kept(book[id])

LEMMA NextBook == BookInv /\ [Next]_vars => BookInv'
<1> SUFFICES ASSUME BookInv, [Next]_vars PROVE BookInv'
  OBVIOUS
<1>1. ASSUME NEW id \in Ids, NEW level \in Levels, Takes(Booked(level, ToRequest(level))),
             book' = [book EXCEPT ![id] = Booked(level, ToRequest(level))]
      PROVE  BookInv'
  BY <1>1, BookedIsKept DEF BookInv
<1>2. ASSUME NEW id \in Ids, Rest(id) PROVE BookInv'
  <2>1. /\ book[id] # None /\ DOMAIN book' = Ids
        /\ book'[id] = [book[id] EXCEPT !.kind = "maker"]
        /\ \A q \in Ids \ {id} : book'[q] = book[q]
    BY <1>2 DEF Rest, BookInv
  <2>2. Kept(book'[id])
    BY <2>1, RestedIsKept DEF BookInv
  <2> QED
    BY <2>1, <2>2 DEF BookInv
<1>3. ASSUME NEW id \in Ids, Remove(id) PROVE BookInv'
  BY <1>3 DEF Remove, BookInv
<1>4. ASSUME UNCHANGED book PROVE BookInv'
  BY <1>4 DEF BookInv
<1>5. CASE \E id \in Ids, level \in Levels, lacking \in Lacking : Place(id, level, lacking)
  BY <1>1, <1>5 DEF Place
<1>6. CASE \E id \in Ids, level \in Levels : PlaceLost(id, level)
  BY <1>1, <1>6 DEF PlaceLost
<1>7. CASE PlaceRefused \/ (\E lacking \in Lacking : GetLiveOrders(lacking))
  BY <1>4, <1>7 DEF PlaceRefused, GetLiveOrders
<1>8. CASE \/ \E post \in Bodies : Forward(post)
           \/ \E answer \in Answers : Process(answer)
           \/ \E t \in Tokens : ReadPrice(t)
  BY <1>4, <1>8 DEF Forward, Process, ReadPrice
<1>9. CASE UNCHANGED vars
  BY <1>4, <1>9 DEF vars
<1> QED
  BY <1>2, <1>3, <1>5, <1>6, <1>7, <1>8, <1>9 DEF Next

\* Between any two coins of the same decimals mm2 has the order at the price of its
\* level, although to_request writes it in units of the base (dex::place).
THEOREM ExactPrice == Spec => []ExactBetweenEquals
<1>1. Init => BookInv
  BY DEF Init, BookInv
<1>2. BookInv => ExactBetweenEquals
  <2> SUFFICES ASSUME BookInv, NEW id \in Ids, book[id] # None,
                      Decimals(book[id].base) = Decimals(book[id].rel)
               PROVE  book[id].price.n * Pow[Decimals(book[id].rel)]
                          = book[id].level.price * Pow[book[id].price.s]
    BY DEF ExactBetweenEquals
  <2>1. book[id].price = [n |-> book[id].level.price, s |-> Decimals(book[id].base)]
    BY KeptOrder DEF BookInv
  <2> QED
    BY <2>1
<1> QED
  BY <1>1, <1>2, NextBook, PTL DEF Spec

-------------------------------------------------------------------------------
(* The prices of an order.                                                  *)

\* price, in units of d decimals, is that of the text, read through one of k decimals.
Close(price, text, d, k) ==
    LET gap == 2 * (price * Pow[text.s + k] - text.n * Pow[d + k])
        bound == Pow[text.s + k] + Pow[d + text.s]
    IN  gap <= bound /\ -gap <= bound

\* The price of a taker order goes through std::to_string.
LEMMA ThroughDouble ==
    ASSUME NEW text, IsText(text), NEW d \in Nat, NEW k \in Nat,
           Formatted(StdToString(text, k), d) < PriceModulus,
           NEW price, price = Generated(StdToString(text, k), d)
    PROVE  /\ price # Terminates => price \in Nat \ {0} /\ Close(price, text, d, k)
           /\ price = Terminates => ~Shown(text, d, k)
<1>1. price = IF Formatted(StdToString(text, k), d) = 0 THEN Terminates
              ELSE Formatted(StdToString(text, k), d)
  BY GeneratedIs, ToStringIsFormatted
<1>2. ASSUME price # Terminates PROVE price \in Nat \ {0} /\ Close(price, text, d, k)
  BY <1>1, <1>2, TwiceRounded DEF Close
<1>3. ASSUME price = Terminates PROVE ~Shown(text, d, k)
  <2>1. Formatted(StdToString(text, k), d) = 0
    <3>1. Formatted(StdToString(text, k), d) \in Nat
      BY TwiceRounded
    <3> QED
      BY <1>1, <1>3, <3>1, TextAssumption
  <2>2. \/ 2 * (text.n * Pow[d]) < Pow[text.s]
        \/ 2 * (text.n * Pow[k]) < Pow[text.s]
    BY <2>1, TwiceZero
  <2>3. /\ Pow[text.s] \in Nat
        /\ 2 * text.n * Pow[d] \in Nat /\ 2 * text.n * Pow[d] = 2 * (text.n * Pow[d])
        /\ 2 * text.n * Pow[k] \in Nat /\ 2 * text.n * Pow[k] = 2 * (text.n * Pow[k])
    BY PowPositive DEF IsText
  <2> QED
    BY <2>2, <2>3 DEF Shown
<1> QED
  BY <1>2, <1>3

\* That of a maker order is read as it is.
LEMMA AsItIs ==
    ASSUME NEW text, IsText(text), NEW d \in Nat, NEW k \in Nat,
           Formatted(text, d) < PriceModulus,
           NEW price, price = Generated(text, d)
    PROVE  /\ price # Terminates => price \in Nat \ {0} /\ Close(price, text, d, k)
           /\ price = Terminates => ~Shown(text, d, d)
<1>1. price = IF Formatted(text, d) = 0 THEN Terminates ELSE Formatted(text, d)
  BY GeneratedIs
<1>2. Formatted(text, d) \in Nat /\ Near(Formatted(text, d), d, text.n, text.s)
  BY FormattedIsNear
<1>3. ASSUME price # Terminates PROVE price \in Nat \ {0} /\ Close(price, text, d, k)
  <2> DEFINE n == text.n
             s == text.s
             half == 2 * (price * Pow[s] - n * Pow[d])
             gap == 2 * (price * Pow[s + k] - n * Pow[d + k])
  <2>1. /\ price \in Nat \ {0} /\ n \in Nat /\ s \in Nat
        /\ half <= Pow[s] /\ -half <= Pow[s]
    BY <1>1, <1>2, <1>3 DEF Near, IsText
  <2>2. /\ Pow[s] \in Nat /\ Pow[d] \in Nat /\ Pow[k] \in Nat /\ Pow[d + s] \in Nat
        /\ Pow[s + k] = Pow[s] * Pow[k] /\ Pow[d + k] = Pow[d] * Pow[k]
    <3>1. d + s \in Nat
      BY <2>1
    <3> HIDE DEF half, s
    <3>2. /\ Pow[s] \in Nat /\ Pow[d] \in Nat /\ Pow[k] \in Nat /\ Pow[d + s] \in Nat
      BY <2>1, <3>1, PowPositive
    <3> QED
      BY <2>1, <3>2, PowSum
  <2>3. half \in Int
    BY <2>1, <2>2
  <2>4. gap = half * Pow[k]
    <3>1. \A a, b, c, e, f \in Nat : 2 * (a * (b * c) - e * (f * c)) = (2 * (a * b - e * f)) * c
      BY SMT
    <3> QED
      BY <2>1, <2>2, <3>1
  <2> HIDE DEF half, gap, n, s
  <2>5. half * Pow[k] <= Pow[s] * Pow[k]
    BY <2>1, <2>2, <2>3, TimesIsMonotone
  <2>6. (-half) * Pow[k] <= Pow[s] * Pow[k]
    BY <2>1, <2>2, <2>3, TimesIsMonotone
  <2>7. (-half) * Pow[k] = -(half * Pow[k]) /\ half * Pow[k] \in Int
    BY <2>2, <2>3
  <2>8. gap <= Pow[s + k] + Pow[d + s] /\ -gap <= Pow[s + k] + Pow[d + s]
    BY <2>2, <2>4, <2>5, <2>6, <2>7
  <2> QED
    BY <2>1, <2>8 DEF Close, gap, n, s
<1>4. ASSUME price = Terminates PROVE ~Shown(text, d, d)
  <2>1. Formatted(text, d) = 0
    BY <1>1, <1>2, <1>4, TextAssumption
  <2>2. 2 * (text.n * Pow[d]) < Pow[text.s]
    BY <2>1, FormattedIsZero
  <2>3. /\ Pow[text.s] \in Nat
        /\ 2 * text.n * Pow[d] \in Nat /\ 2 * text.n * Pow[d] = 2 * (text.n * Pow[d])
    BY PowPositive DEF IsText
  <2> QED
    BY <2>2, <2>3 DEF Shown
<1> QED
  BY <1>3, <1>4

-------------------------------------------------------------------------------
(* What is made of an answer about an order.                                *)

\* What the bot may learn of an order of mm2: all of it, or that it has no price it
\* can read, which ends the process.  k are the decimals its price was shown with.
Understood(h, id, o, k) ==
    /\ h.id = id /\ h.base = o.base /\ h.rel = o.rel /\ h.quantity = o.volume
    /\ h.price # Terminates => /\ h.price \in Nat \ {0}
                               /\ Close(h.price, o.price, Decimals(o.rel), ToStringDigits)
    /\ h.price = Terminates => ~Shown(o.price, Decimals(o.rel), k)

\* The amounts of an order give its price back.
LEMMA QuotientIsPrice ==
    ASSUME NEW o, Kept(o) PROVE Quotient(RelAmount(o), o.volume) = o.price
<1> DEFINE v == o.volume
           p == o.price
<1>1. /\ v.n \in Nat \ {0} /\ v.s \in Nat /\ p.n \in Nat /\ p.s \in Nat
      /\ p = [n |-> p.n, s |-> p.s]
  <2>1. p = [n |-> o.level.price, s |-> Decimals(o.base)]
    BY KeptOrder
  <2>2. p = [n |-> p.n, s |-> p.s]
    BY <2>1
  <2>3. IsText(v) /\ IsText(p) /\ v.n > 0
    BY KeptOrder
  <2> QED
    BY <2>2, <2>3 DEF IsText
<1>2. \A a \in Nat \ {0}, b \in Nat : (a * b) \div a = b
  BY SMT
<1>3. (v.n * p.n) \div v.n = p.n /\ (v.s + p.s) - v.s = p.s
  BY <1>1, <1>2
<1> QED
  BY <1>1, <1>3 DEF Quotient, RelAmount

\* An order whose struct holds what mm2 says of it.
LEMMA BuiltIsUnderstood ==
    ASSUME NEW id, NEW o, Kept(o), NEW t, t.uuid = id, t.base = o.base, t.rel = o.rel,
           t.rel_amount = RelAmount(o), t.base_amount = o.volume
    PROVE  Understood(BuiltFrom(t), id, o, ToStringDigits)
<1> DEFINE price == Generated(StdToString(o.price, ToStringDigits), Decimals(o.rel))
<1>1. BuiltFrom(t) = BuildOrder(t, price, o.volume)
  BY QuotientIsPrice DEF BuiltFrom
<1>2. /\ price # Terminates =>
            price \in Nat \ {0} /\ Close(price, o.price, Decimals(o.rel), ToStringDigits)
      /\ price = Terminates => ~Shown(o.price, Decimals(o.rel), ToStringDigits)
  BY KeptOrder, WireAssumption, ThroughDouble
<1> HIDE DEF price
<1> QED
  BY <1>1, <1>2 DEF BuildOrder, Understood

\* Reads that each go to a member of their own.
EachOnce(struct, reads) ==
    /\ Len(reads) \in Nat /\ DOMAIN reads = 1 .. Len(reads)
    /\ \A i \in DOMAIN reads : reads[i][2] \in DOMAIN struct
    /\ \A i, l \in DOMAIN reads : reads[i][2] = reads[l][2] => i = l

LEMMA EachRead ==
    ASSUME NEW struct, NEW j, NEW reads, EachOnce(struct, reads)
    PROVE  \A i \in DOMAIN reads :
               Fill(struct, j, reads).value[reads[i][2]] =
                   IF i <= Done(j, reads) THEN j[reads[i][1]] ELSE struct[reads[i][2]]
<1> SUFFICES ASSUME NEW i \in DOMAIN reads
             PROVE  Fill(struct, j, reads).value[reads[i][2]] =
                        IF i <= Done(j, reads) THEN j[reads[i][1]] ELSE struct[reads[i][2]]
  OBVIOUS
<1> DEFINE n == Len(reads)
           f == reads[i][2]
<1>1. n \in Nat /\ DOMAIN reads = 1 .. n
  BY DEF EachOnce
<1>2. f \in DOMAIN struct /\ \A l \in DOMAIN reads : reads[l][2] = f <=> l = i
  BY DEF EachOnce
<1> HIDE DEF f
<1>3. Fill(struct, j, reads).value[f] = IF i <= Done(j, reads) THEN j[reads[i][1]] ELSE struct[f]
  BY <1>1, <1>2, FillMember
<1> QED
  BY <1>3 DEF f

LEMMA EachIsRead ==
    ASSUME NEW struct, NEW j, NEW reads, EachOnce(struct, reads),
           \A i \in DOMAIN reads : reads[i][1] \in DOMAIN j
    PROVE  \A i \in DOMAIN reads : Fill(struct, j, reads).value[reads[i][2]] = j[reads[i][1]]
<1> DEFINE n == Len(reads)
           k == Done(j, reads)
<1>1. n \in Nat /\ DOMAIN reads = 1 .. n
  BY DEF EachOnce
<1>2. k \in 0 .. n /\ (k < n => reads[k + 1][1] \notin DOMAIN j)
  BY <1>1, DoneReads
<1>3. k = n
  BY <1>1, <1>2
<1> QED
  BY <1>1, <1>3, EachRead

\* The list of the taker orders.
LEMMA TakerIsUnderstood ==
    ASSUME NEW id, NEW o, Kept(o)
    PROVE  Understood(TakerToOrder(FillTaker(AnswerOn(id, o)).value), id, o, ToStringDigits)
<1> DEFINE j == AnswerOn(id, o)
           reads == Same(<<"base", "rel", "uuid", "base_amount", "rel_amount">>)
           t == Fill(TakerOrder, j, reads).value
<1>1. /\ DOMAIN reads = 1 .. 5 /\ Len(reads) = 5
      /\ reads[1] = <<"base", "base">> /\ reads[2] = <<"rel", "rel">>
      /\ reads[3] = <<"uuid", "uuid">> /\ reads[4] = <<"base_amount", "base_amount">>
      /\ reads[5] = <<"rel_amount", "rel_amount">>
  BY DEF Same
<1>2. DOMAIN TakerOrder = {"base", "rel", "base_amount", "rel_amount", "uuid"}
  BY DEF TakerOrder, Blank
<1>3. /\ {"base", "rel", "base_amount", "rel_amount", "uuid"} \subseteq DOMAIN j
      /\ j["base"] = o.base /\ j["rel"] = o.rel /\ j["uuid"] = id
      /\ j["base_amount"] = o.volume /\ j["rel_amount"] = RelAmount(o)
  BY DEF AnswerOn
<1>4. FillTaker(j) = Fill(TakerOrder, j, reads)
  BY DEF FillTaker
<1> HIDE DEF j, reads
<1>5. EachOnce(TakerOrder, reads) /\ \A i \in DOMAIN reads : reads[i][1] \in DOMAIN j
  BY <1>1, <1>2, <1>3 DEF EachOnce
<1>6. /\ t["base"] = o.base /\ t["rel"] = o.rel /\ t["uuid"] = id
      /\ t["base_amount"] = o.volume /\ t["rel_amount"] = RelAmount(o)
  <2>1. \A i \in DOMAIN reads : t[reads[i][2]] = j[reads[i][1]]
    BY <1>5, EachIsRead
  <2> HIDE DEF t
  <2>2. {1, 2, 3, 4, 5} \subseteq DOMAIN reads
    BY <1>1
  <2> QED
    BY <1>1, <1>3, <2>1, <2>2
<1> HIDE DEF t
<1>7. Understood(BuiltFrom(t), id, o, ToStringDigits)
  BY <1>6, BuiltIsUnderstood
<1> QED
  BY <1>4, <1>7 DEF TakerToOrder, t, j

\* The list of the maker orders.
LEMMA MakerIsUnderstood ==
    ASSUME NEW id, NEW o, Kept(o)
    PROVE  Understood(MakerToOrder(FillMaker(AnswerOn(id, o)).value), id, o, Decimals(o.rel))
<1> DEFINE j == AnswerOn(id, o)
           reads == Same(<<"base", "rel", "uuid">>)
                    \o << <<"max_base_vol", "base_amount">>, <<"price", "price">> >>
           t == Fill(MakerOrder, j, reads).value
<1>1. /\ DOMAIN reads = 1 .. 5 /\ Len(reads) = 5
      /\ reads[1] = <<"base", "base">> /\ reads[2] = <<"rel", "rel">>
      /\ reads[3] = <<"uuid", "uuid">> /\ reads[4] = <<"max_base_vol", "base_amount">>
      /\ reads[5] = <<"price", "price">>
  BY DEF Same
<1>2. DOMAIN MakerOrder = {"base", "rel", "uuid", "base_amount", "price"}
  BY DEF MakerOrder, Blank
<1>3. /\ {"base", "rel", "uuid", "max_base_vol", "price"} \subseteq DOMAIN j
      /\ j["base"] = o.base /\ j["rel"] = o.rel /\ j["uuid"] = id
      /\ j["max_base_vol"] = o.volume /\ j["price"] = o.price
  BY DEF AnswerOn
<1>4. FillMaker(j) = Fill(MakerOrder, j, reads)
  BY DEF FillMaker
<1> HIDE DEF j, reads
<1>5. EachOnce(MakerOrder, reads) /\ \A i \in DOMAIN reads : reads[i][1] \in DOMAIN j
  BY <1>1, <1>2, <1>3 DEF EachOnce
<1>6. /\ t["base"] = o.base /\ t["rel"] = o.rel /\ t["uuid"] = id
      /\ t["base_amount"] = o.volume /\ t["price"] = o.price
  <2>1. \A i \in DOMAIN reads : t[reads[i][2]] = j[reads[i][1]]
    BY <1>5, EachIsRead
  <2> HIDE DEF t
  <2>2. {1, 2, 3, 4, 5} \subseteq DOMAIN reads
    BY <1>1
  <2> QED
    BY <1>1, <1>3, <2>1, <2>2
<1> HIDE DEF t
<1> DEFINE price == Generated(o.price, Decimals(o.rel))
<1>7. MakerToOrder(t) = BuildOrder(t, price, o.volume)
  BY <1>6 DEF MakerToOrder
<1>8. /\ price # Terminates =>
            price \in Nat \ {0} /\ Close(price, o.price, Decimals(o.rel), ToStringDigits)
      /\ price = Terminates => ~Shown(o.price, Decimals(o.rel), Decimals(o.rel))
  BY KeptOrder, WireAssumption, AsItIs
<1> HIDE DEF price
<1>9. Understood(MakerToOrder(t), id, o, Decimals(o.rel))
  BY <1>6, <1>7, <1>8 DEF BuildOrder, Understood
<1> QED
  BY <1>4, <1>9 DEF t, j

\* The answer to buy and sell, which may lack members: it is understood, or lacks one
\* that is read before the amounts are there.
Keys == {"dest_pub_key", "sender_pubkey"}

LEMMA TradeIsUnderstood ==
    ASSUME NEW id, NEW o, Kept(o), NEW lacking,
           NEW h, h = TradeOrder(FillTrade(Without(AnswerOn(id, o), lacking)).value)
    PROVE  \/ Understood(h, id, o, ToStringDigits)
           \/ h.price = Terminates /\ ~(lacking \subseteq Keys)
<1> DEFINE j == Without(AnswerOn(id, o), lacking)
           reads == Same(<<"rel", "base", "action", "uuid", "method",
                           "rel_amount", "base_amount", "dest_pub_key">>)
                    \o << <<"sender_pubkey", "sender_pub_key">> >>
           k == Done(j, reads)
           t == Fill(TradeResult, j, reads).value
<1>1. DOMAIN reads = 1 .. 9 /\ Len(reads) = 9
  BY DEF Same
<1>2. /\ reads[1] = <<"rel", "rel">> /\ reads[2] = <<"base", "base">>
      /\ reads[3] = <<"action", "action">> /\ reads[4] = <<"uuid", "uuid">>
      /\ reads[5] = <<"method", "method">> /\ reads[6] = <<"rel_amount", "rel_amount">>
      /\ reads[7] = <<"base_amount", "base_amount">>
      /\ reads[8] = <<"dest_pub_key", "dest_pub_key">>
      /\ reads[9] = <<"sender_pubkey", "sender_pub_key">>
  BY DEF Same
<1>3. /\ DOMAIN TradeResult = {"action", "base", "rel", "base_amount", "rel_amount", "method",
                               "dest_pub_key", "sender_pub_key", "uuid"}
      /\ TradeResult["base_amount"] = Empty
  BY DEF TradeResult, Blank
<1>4. /\ \A i \in 1 .. 7 : reads[i][1] \notin DOMAIN j =>
            reads[i][1] \in lacking /\ reads[i][1] \notin Keys
      /\ \A f \in DOMAIN j : j[f] = AnswerOn(id, o)[f]
  <2>1. DOMAIN AnswerOn(id, o) =
            {"base", "rel", "uuid", "action", "method", "base_amount", "rel_amount",
             "dest_pub_key", "sender_pubkey", "max_base_vol", "price"}
    BY DEF AnswerOn
  <2>2. DOMAIN j = DOMAIN AnswerOn(id, o) \ lacking
    BY DEF Without
  <2> HIDE DEF reads
  <2>3. \A i \in 1 .. 7 : reads[i][1] \in {"rel", "base", "action", "uuid", "method",
                                           "rel_amount", "base_amount"}
    BY <1>2
  <2> QED
    BY <2>1, <2>2, <2>3 DEF Without, Keys
<1>5. /\ AnswerOn(id, o)["base"] = o.base /\ AnswerOn(id, o)["rel"] = o.rel
      /\ AnswerOn(id, o)["uuid"] = id /\ AnswerOn(id, o)["base_amount"] = o.volume
      /\ AnswerOn(id, o)["rel_amount"] = RelAmount(o)
  BY DEF AnswerOn
<1>6. h = TradeOrder(t)
  BY DEF FillTrade
<1> HIDE DEF j, reads
<1>7. /\ k \in 0 .. 9
      /\ \A i \in 1 .. k : reads[i][1] \in DOMAIN j
      /\ k < 9 => reads[k + 1][1] \notin DOMAIN j
  BY <1>1, DoneReads
<1>8. \A i \in {1, 2, 4, 6, 7} :
          t[reads[i][2]] = IF i <= k THEN j[reads[i][1]] ELSE TradeResult[reads[i][2]]
  <2>1. EachOnce(TradeResult, reads)
    BY <1>1, <1>2, <1>3 DEF EachOnce
  <2>2. \A i \in DOMAIN reads :
            t[reads[i][2]] = IF i <= k THEN j[reads[i][1]] ELSE TradeResult[reads[i][2]]
    BY <2>1, EachRead
  <2>3. {1, 2, 4, 6, 7} \subseteq DOMAIN reads
    BY <1>1
  <2> HIDE DEF t, k
  <2> QED
    BY <2>2, <2>3
<1> HIDE DEF k, t
<1>9. CASE k < 7
  <2>1. t["base_amount"] = Empty
    BY <1>2, <1>3, <1>7, <1>8, <1>9
  <2>2. h.price = Terminates
    BY <1>6, <2>1 DEF TradeOrder, BuildOrder
  <2>3. k + 1 \in 1 .. 7 /\ reads[k + 1][1] \notin DOMAIN j
    BY <1>7, <1>9
  <2> QED
    BY <1>4, <2>2, <2>3
<1>10. CASE k >= 7
  <2>1. \A i \in {1, 2, 4, 6, 7} : t[reads[i][2]] = AnswerOn(id, o)[reads[i][1]]
    BY <1>4, <1>7, <1>8, <1>10
  <2>2. /\ t["base"] = o.base /\ t["rel"] = o.rel /\ t["uuid"] = id
        /\ t["base_amount"] = o.volume /\ t["rel_amount"] = RelAmount(o)
    BY <1>2, <1>5, <2>1
  <2>3. h = BuiltFrom(t)
    BY <1>6, <2>2, KeptOrder DEF TradeOrder
  <2> QED
    BY <2>2, <2>3, BuiltIsUnderstood
<1> QED
  BY <1>7, <1>9, <1>10

\* The lists: each order listed is one of the book, and understood.
LEMMA ListIsUnderstood ==
    ASSUME BookInv, NEW lacking, NEW id \in Listed(lacking)
    PROVE  LET o == book[id]
           IN  /\ id \in Ids /\ o # None /\ Kept(o)
               /\ Understood(ToOrders(Listed(lacking))[id], id, o,
                             IF o.kind = "taker" THEN ToStringDigits ELSE Decimals(o.rel))
<1>1. id \in Ids /\ book[id] # None
  <2>1. Listed(lacking) \subseteq OfKind("maker") \cup OfKind("taker")
    BY DEF Listed
  <2> QED
    BY <2>1 DEF OfKind
<1>2. Kept(book[id])
  BY <1>1 DEF BookInv
<1>3. ToOrders(Listed(lacking))[id] =
          IF book[id].kind = "maker"
          THEN MakerToOrder(FillMaker(AnswerOn(id, book[id])).value)
          ELSE TakerToOrder(FillTaker(AnswerOn(id, book[id])).value)
  BY DEF ToOrders
<1>4. book[id].kind \in {"taker", "maker"}
  BY <1>2, KeptOrder
<1> QED
  BY <1>1, <1>2, <1>3, <1>4, MakerIsUnderstood, TakerIsUnderstood

-------------------------------------------------------------------------------
(* The orders the manager holds.                                            *)

\* An order that was read without an exception.
Learnt(h, id, o) ==
    /\ h.id = id /\ h.base = o.base /\ h.rel = o.rel /\ h.quantity = o.volume
    /\ h.price \in Nat \ {0}
    /\ Close(h.price, o.price, Decimals(o.rel), ToStringDigits)

HeardInv ==
    /\ DOMAIN heard = Ids
    /\ \A id \in Ids : heard[id] # None =>
          book[id] # None /\ Learnt(heard[id], id, book[id])

\* The orders of an answer, if they are understood, reach the manager as they are on
\* the book, or one of them ends the process.
LEMMA LearnIsHeard ==
    ASSUME HeardInv, NEW orders, DOMAIN orders \subseteq Ids, Learn(orders),
           \A id \in Ids : heard[id] # None => book'[id] = book[id],
           \A id \in DOMAIN orders :
               /\ book'[id] # None
               /\ orders[id].price # Terminates => Learnt(orders[id], id, book'[id])
    PROVE  HeardInv'
<1>1. CASE UNCHANGED heard
  BY <1>1 DEF HeardInv
<1>2. CASE /\ heard' = Merged(orders, heard)
           /\ \A id \in DOMAIN orders : orders[id].price # Terminates
  <2>1. DOMAIN heard' = Ids
    BY <1>2 DEF Merged, HeardInv
  <2>2. \A id \in Ids : heard'[id] = IF id \in DOMAIN orders THEN orders[id] ELSE heard[id]
    BY <1>2 DEF Merged, HeardInv
  <2> QED
    BY <1>2, <2>1, <2>2 DEF HeardInv
<1> QED
  BY <1>1, <1>2 DEF Learn

\* What is learnt of the order that is placed.
LEMMA PlaceIsUnderstood ==
    ASSUME BookInv, NEW id \in Ids, NEW level \in Levels, NEW lacking,
           Place(id, level, lacking)
    PROVE  \E h : /\ Learn(Single(id, h)) /\ book'[id] # None /\ Kept(book'[id])
                  /\ book[id] = None /\ \A q \in Ids \ {id} : book'[q] = book[q]
                  /\ last' = [op |-> "place", id |-> id, lacking |-> lacking]
                  /\ \/ Understood(h, id, book'[id], ToStringDigits)
                     \/ h.price = Terminates /\ ~(lacking \subseteq Keys)
<1> DEFINE o == Booked(level, ToRequest(level))
           h == TradeOrder(FillTrade(Without(AnswerOn(id, o), lacking)).value)
<1>1. /\ book[id] = None /\ Takes(o)
      /\ book' = [book EXCEPT ![id] = o] /\ Learn(Single(id, h))
      /\ last' = [op |-> "place", id |-> id, lacking |-> lacking]
  BY DEF Place
<1>2. Kept(o)
  BY <1>1, BookedIsKept
<1>3. o # None
  BY <1>2, KeptOrder
<1>4. \/ Understood(h, id, o, ToStringDigits)
      \/ h.price = Terminates /\ ~(lacking \subseteq Keys)
  BY <1>2, TradeIsUnderstood
<1> HIDE DEF o, h
<1>5. book'[id] = o /\ \A q \in Ids \ {id} : book'[q] = book[q]
  BY <1>1 DEF BookInv
<1> QED
  BY <1>1, <1>2, <1>3, <1>4, <1>5

LEMMA NextHeard == BookInv /\ HeardInv /\ [Next]_vars => HeardInv'
<1> SUFFICES ASSUME BookInv, HeardInv, [Next]_vars PROVE HeardInv'
  OBVIOUS
<1>1. ASSUME NEW id \in Ids, NEW level \in Levels, NEW lacking, Place(id, level, lacking)
      PROVE  HeardInv'
  <2>1. PICK h : /\ Learn(Single(id, h)) /\ book'[id] # None
                 /\ book[id] = None /\ \A q \in Ids \ {id} : book'[q] = book[q]
                 /\ h.price # Terminates => Understood(h, id, book'[id], ToStringDigits)
    BY <1>1, PlaceIsUnderstood
  <2>2. h.price # Terminates => Learnt(h, id, book'[id])
    BY <2>1 DEF Understood, Learnt
  <2>3. DOMAIN Single(id, h) = {id} /\ Single(id, h)[id] = h
    BY DEF Single
  <2>4. \A q \in Ids : heard[q] # None => book'[q] = book[q]
    BY <2>1 DEF HeardInv
  <2> QED
    BY <2>1, <2>2, <2>3, <2>4, LearnIsHeard
<1>2. ASSUME NEW lacking, GetLiveOrders(lacking) PROVE HeardInv'
  <2> DEFINE ids == Listed(lacking)
             orders == ToOrders(ids)
  <2>1. Learn(orders) /\ UNCHANGED book /\ DOMAIN orders = ids
    BY <1>2 DEF GetLiveOrders, ToOrders
  <2>2. ASSUME NEW id \in ids
        PROVE  /\ id \in Ids /\ book[id] # None
               /\ orders[id].price # Terminates => Learnt(orders[id], id, book[id])
    BY ListIsUnderstood DEF Understood, Learnt
  <2> HIDE DEF ids, orders
  <2> QED
    BY <2>1, <2>2, LearnIsHeard
<1>3. ASSUME NEW id \in Ids, Rest(id) PROVE HeardInv'
  <2>1. /\ book[id] # None /\ UNCHANGED heard
        /\ book'[id] = [book[id] EXCEPT !.kind = "maker"]
        /\ \A q \in Ids \ {id} : book'[q] = book[q]
    BY <1>3 DEF Rest, BookInv
  <2>2. /\ Kept(book'[id])
        /\ book'[id].base = book[id].base /\ book'[id].rel = book[id].rel
        /\ book'[id].price = book[id].price /\ book'[id].volume = book[id].volume
    BY <2>1, RestedIsKept DEF BookInv
  <2>3. book'[id] # None
    BY <2>2, KeptOrder
  <2>4. ASSUME NEW q \in Ids, heard[q] # None
        PROVE  book'[q] # None /\ Learnt(heard[q], q, book'[q])
    <3>1. CASE q = id
      BY <2>2, <2>3, <2>4, <3>1 DEF HeardInv, Learnt
    <3>2. CASE q # id
      BY <2>1, <2>4, <3>2 DEF HeardInv
    <3> QED
      BY <3>1, <3>2
  <2> QED
    BY <2>1, <2>4 DEF HeardInv
<1>4. ASSUME NEW id \in Ids, Remove(id) PROVE HeardInv'
  BY <1>4 DEF Remove, BookInv, HeardInv
<1>5. ASSUME NEW id \in Ids, NEW level \in Levels, PlaceLost(id, level) PROVE HeardInv'
  BY <1>5 DEF PlaceLost, BookInv, HeardInv
<1>6. ASSUME UNCHANGED <<book, heard>> PROVE HeardInv'
  BY <1>6 DEF HeardInv
<1>7. CASE \/ PlaceRefused
           \/ \E post \in Bodies : Forward(post)
           \/ \E answer \in Answers : Process(answer)
           \/ \E t \in Tokens : ReadPrice(t)
  BY <1>6, <1>7 DEF PlaceRefused, Forward, Process, ReadPrice
<1>8. CASE UNCHANGED vars
  BY <1>6, <1>8 DEF vars
<1> QED
  BY <1>1, <1>2, <1>3, <1>4, <1>5, <1>7, <1>8 DEF Next

LEMMA InitOrders == Init => BookInv /\ HeardInv /\ ended = FALSE
  BY DEF Init, BookInv, HeardInv

\* The variables keep their types: an order the manager holds is whole.
THEOREM WireTypes == Spec => []TypeOK
<1> DEFINE Inv == BookInv /\ HeardInv /\ ended \in BOOLEAN
<1>1. Init => Inv
  BY InitOrders
<1>2. Inv /\ [Next]_vars => Inv'
  <2> SUFFICES ASSUME Inv, [Next]_vars PROVE ended' \in BOOLEAN
    BY NextBook, NextHeard
  <2>1. ASSUME NEW orders, Learn(orders) PROVE ended' \in BOOLEAN
    BY <2>1 DEF Learn
  <2>2. ASSUME UNCHANGED ended PROVE ended' \in BOOLEAN
    BY <2>2
  <2>3. CASE \/ \E id \in Ids, level \in Levels, lacking \in Lacking : Place(id, level, lacking)
             \/ \E lacking \in Lacking : GetLiveOrders(lacking)
    BY <2>1, <2>3 DEF Place, GetLiveOrders
  <2>4. CASE \/ PlaceRefused
             \/ \E id \in Ids, level \in Levels : PlaceLost(id, level)
             \/ \E id \in Ids : Rest(id) \/ Remove(id)
             \/ \E post \in Bodies : Forward(post)
             \/ \E answer \in Answers : Process(answer)
             \/ UNCHANGED vars
    BY <2>2, <2>4 DEF PlaceRefused, PlaceLost, Rest, Remove, Forward, Process, vars
  <2>5. CASE \E t \in Tokens : ReadPrice(t)
    BY <2>5 DEF ReadPrice
  <2> QED
    BY <2>3, <2>4, <2>5 DEF Next
<1>3. Inv => TypeOK
  <2> SUFFICES ASSUME Inv PROVE TypeOK
    OBVIOUS
  <2>1. ASSUME NEW id \in Ids, book[id] # None
        PROVE  /\ book[id].kind \in {"taker", "maker"}
               /\ IsText(book[id].price) /\ IsText(book[id].volume)
    BY <2>1, KeptOrder DEF BookInv
  <2>2. ASSUME NEW id \in Ids, heard[id] # None
        PROVE  /\ heard[id].id = id /\ book[id] # None
               /\ heard[id].price \in Nat \ {0} /\ heard[id].quantity = book[id].volume
    BY <2>2 DEF HeardInv, Learnt
  <2> QED
    BY <2>1, <2>2 DEF TypeOK
<1> HIDE DEF Inv
<1> QED
  BY <1>1, <1>2, <1>3, PTL DEF Spec

\* Whatever the decimals of the coins, an order the manager holds is the one mm2 has,
\* at its price up to the two roundings (to_order of a trade, a taker and a maker order).
THEOREM HeardOrders == Spec => []HeardIsBooked
<1> DEFINE Inv == BookInv /\ HeardInv
<1>1. Init => Inv
  BY InitOrders
<1>2. Inv /\ [Next]_vars => Inv'
  BY NextBook, NextHeard
<1>3. Inv => HeardIsBooked
  BY DEF HeardInv, Learnt, Close, HeardIsBooked
<1> HIDE DEF Inv
<1> QED
  BY <1>1, <1>2, <1>3, PTL DEF Spec

-------------------------------------------------------------------------------
(* The end of the process.                                                  *)

\* An order that is understood ends the process only if its price cannot be shown.
LEMMA EndedByPlace ==
    ASSUME BookInv, NEW id \in Ids, NEW level \in Levels, NEW lacking,
           Place(id, level, lacking), ~ended
    PROVE  Survives'
<1> SUFFICES ASSUME ended'
             PROVE  LET o == book'[id]
                    IN  \/ ~(lacking \subseteq Keys)
                        \/ ~Shown(o.price, Decimals(o.rel), ToStringDigits)
  BY PlaceIsUnderstood DEF Survives, Keys
<1>1. PICK h : /\ Learn(Single(id, h))
               /\ \/ Understood(h, id, book'[id], ToStringDigits)
                  \/ h.price = Terminates /\ ~(lacking \subseteq Keys)
  BY PlaceIsUnderstood
<1>2. DOMAIN Single(id, h) = {id} /\ Single(id, h)[id] = h
  BY DEF Single
<1>3. h.price = Terminates
  BY <1>1, <1>2 DEF Learn
<1> QED
  BY <1>1, <1>3 DEF Understood

LEMMA EndedByList ==
    ASSUME BookInv, NEW lacking, GetLiveOrders(lacking), ~ended
    PROVE  Survives'
<1> DEFINE ids == Listed(lacking)
           orders == ToOrders(ids)
<1>1. /\ Learn(orders) /\ UNCHANGED book /\ DOMAIN orders = ids
      /\ last' = [op |-> "live", ids |-> ids]
  BY DEF GetLiveOrders, ToOrders
<1>2. ASSUME NEW id \in ids, orders[id].price = Terminates
      PROVE  LET o == book[id]  d == Decimals(o.rel)
             IN  ~Shown(o.price, d, IF o.kind = "taker" THEN ToStringDigits ELSE d)
  BY <1>2, ListIsUnderstood DEF Understood
<1> HIDE DEF ids, orders
<1> SUFFICES ASSUME ended' PROVE Survives'
  BY DEF Survives
<1>3. PICK id \in ids : orders[id].price = Terminates
  BY <1>1 DEF Learn
<1>4. LET o == book'[id]  d == Decimals(o.rel)
      IN  ~Shown(o.price, d, IF o.kind = "taker" THEN ToStringDigits ELSE d)
  BY <1>1, <1>2, <1>3
<1>5. last'.op = "live" /\ id \in last'.ids
  BY <1>1, <1>3
<1> QED
  BY <1>4, <1>5 DEF Survives

LEMMA EndedByPrice ==
    ASSUME NEW t \in Tokens, ReadPrice(t) PROVE Survives'
<1> DEFINE d == Decimals(t.symbol)
<1>1. /\ last'.op = "price" /\ last'.symbol = t.symbol /\ last'.token = t.token
      /\ ended' = (PriceOf(t.token, d) = Terminates)
  BY DEF ReadPrice
<1>2. d \in Nat /\ Normal(t.token)
  BY WireAssumption
<1>3. t.token # NoFloat => Formatted(Extracted(t.token), d) < PriceModulus
  BY RangeAssumption
<1>4. PriceOf(t.token, d) = Terminates =>
          t.token = NoFloat \/ 2 * (t.token.m * Pow[d]) < Pow[Scale(t.token)]
  BY <1>2, <1>3, PriceOfIs
<1>5. t.token.m \in Nat /\ Pow[d] \in Nat
  BY <1>2, PowPositive DEF Normal, NoFloat, Token
<1>6. 2 * t.token.m * Pow[d] = 2 * (t.token.m * Pow[d])
  BY <1>5
<1> HIDE DEF d
<1>7. ended' => t.token = NoFloat \/ 2 * t.token.m * Pow[d] < Pow[Scale(t.token)]
  BY <1>1, <1>4, <1>6
<1> QED
  BY <1>1, <1>7 DEF Survives, d

\* Whatever the levels, the decimals and the answers, an exception ends the process
\* only on what no conversion can keep (the noexcept generate_st_price_from_api_price,
\* the stod of to_order).
THEOREM ProcessSurvives == Spec => []Survives
<1> DEFINE Inv == BookInv /\ Survives
<1>1. Init => Inv
  BY InitOrders DEF Survives
<1>2. Inv /\ [Next]_vars => Inv'
  <2> SUFFICES ASSUME Inv, [Next]_vars PROVE Survives'
    BY NextBook
  <2>1. CASE UNCHANGED vars
    BY <2>1 DEF vars, Survives
  <2>2. ASSUME ~ended, UNCHANGED ended PROVE Survives'
    BY <2>2 DEF Survives
  <2>3. ASSUME ~ended,
               \/ PlaceRefused
               \/ \E id \in Ids, level \in Levels : PlaceLost(id, level)
               \/ \E id \in Ids : Rest(id) \/ Remove(id)
               \/ \E post \in Bodies : Forward(post)
               \/ \E answer \in Answers : Process(answer)
        PROVE  Survives'
    BY <2>2, <2>3 DEF PlaceRefused, PlaceLost, Rest, Remove, Forward, Process
  <2> HIDE DEF Inv
  <2>4. BookInv
    BY DEF Inv
  <2> QED
    BY <2>1, <2>3, <2>4, EndedByPlace, EndedByList, EndedByPrice DEF Next
<1>3. Inv => Survives
  OBVIOUS
<1> HIDE DEF Inv
<1> QED
  BY <1>1, <1>2, <1>3, PTL DEF Spec
===============================================================================
