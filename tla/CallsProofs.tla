---------------------------- MODULE CallsProofs -----------------------------
(* What sending and answering calls does to the calls under way.            *)
EXTENDS Calls, TLAPS

\* Nothing under way.
LEMMA NoCalls == IsABag(EmptyBag) /\ BagToSet(EmptyBag) = {}
BY DEF IsABag, EmptyBag, SetToBag, BagToSet

\* Sending adds calls to those under way.
LEMMA StartCalls ==
  ASSUME IsABag(pending), NEW new, Start(new)
  PROVE  /\ IsABag(pending')
         /\ BagToSet(pending') = BagToSet(pending) \cup new
BY DEF IsABag, BagToSet, SetToBag, Start, (+)

\* Answering a call keeps the others and adds what is sent next.
LEMMA ContinueCalls ==
  ASSUME IsABag(pending), NEW c, NEW new, Continue(c, new)
  PROVE  /\ IsABag(pending')
         /\ BagToSet(pending') \subseteq BagToSet(pending) \cup new
         /\ BagToSet(pending) \ {c} \subseteq BagToSet(pending')
         /\ new \subseteq BagToSet(pending')
<1> DEFINE rest == pending (-) SetToBag({c})
<1>1. /\ IsABag(rest)
      /\ DOMAIN rest \subseteq DOMAIN pending
      /\ DOMAIN pending \ {c} \subseteq DOMAIN rest
  BY DEF IsABag, SetToBag, (-)
<1>2. pending' = rest (+) SetToBag(new)
  BY DEF Continue
<1> HIDE DEF rest
<1> QED
  BY <1>1, <1>2 DEF IsABag, BagToSet, SetToBag, (+)

\* The calls of the kinds ops are the same before and after.
SameCalls(ops) ==
  /\ \A c \in BagToSet(pending) : c.op \in ops =>
       c \in BagToSet(pending') /\ pending'[c] = pending[c]
  /\ \A c \in BagToSet(pending') : c.op \in ops => c \in BagToSet(pending)

\* How often a call is under way, before and after others are sent.
LEMMA StartCounts ==
  ASSUME IsABag(pending), NEW new, Start(new)
  PROVE  /\ \A c \in new \ BagToSet(pending) : pending'[c] = 1
         /\ \A c \in BagToSet(pending) \ new : pending'[c] = pending[c]
BY DEF IsABag, BagToSet, SetToBag, Start, (+)

\* And before and after one is answered.
LEMMA ContinueCounts ==
  ASSUME IsABag(pending), NEW c \in BagToSet(pending), NEW new, Continue(c, new)
  PROVE  /\ pending[c] = 1 /\ c \notin new => c \notin BagToSet(pending')
         /\ \A d \in new \ BagToSet(pending) : pending'[d] = 1
         /\ \A d \in BagToSet(pending) \ (new \cup {c}) : pending'[d] = pending[d]
<1> DEFINE rest == pending (-) SetToBag({c})
<1>1. /\ IsABag(rest)
      /\ DOMAIN rest \subseteq DOMAIN pending
      /\ pending[c] = 1 => c \notin DOMAIN rest
      /\ \A d \in DOMAIN pending \ {c} : d \in DOMAIN rest /\ rest[d] = pending[d]
  BY DEF IsABag, BagToSet, SetToBag, (-)
<1>2. pending' = rest (+) SetToBag(new)
  BY DEF Continue
<1> HIDE DEF rest
<1> QED
  BY <1>1, <1>2 DEF IsABag, BagToSet, SetToBag, (+)

\* Calls of other kinds are not affected by a request that sends calls,
LEMMA StartOthers ==
  ASSUME IsABag(pending), NEW new, Start(new),
         NEW ops, \A d \in new : d.op \notin ops
  PROVE  SameCalls(ops)
BY StartCalls, StartCounts DEF SameCalls

\* nor by an answer to a call and what is sent next.
LEMMA ContinueOthers ==
  ASSUME IsABag(pending), NEW c \in BagToSet(pending), NEW new, Continue(c, new),
         NEW ops, c.op \notin ops, \A d \in new : d.op \notin ops
  PROVE  SameCalls(ops)
BY ContinueCalls, ContinueCounts DEF SameCalls

\* The others of a call are those that are not it, and it if it is repeated.
LEMMA OthersAre ==
  ASSUME NEW calls, IsABag(calls), NEW c
  PROVE  BagToSet(calls (-) SetToBag({c})) =
           {d \in BagToSet(calls) : d # c \/ calls[d] > 1}
BY DEF IsABag, BagToSet, SetToBag, (-)

\* The others and what is sent are left when a call is answered.
LEMMA ContinueLeaves ==
  ASSUME IsABag(pending), NEW c, NEW new, Continue(c, new)
  PROVE  BagToSet(pending') = Others(c) \cup new
<1> DEFINE rest == pending (-) SetToBag({c})
<1>1. IsABag(rest)
  BY DEF IsABag, SetToBag, (-)
<1>2. pending' = rest (+) SetToBag(new) /\ Others(c) = BagToSet(rest)
  BY DEF Continue, Others
<1> HIDE DEF rest
<1> QED
  BY <1>1, <1>2 DEF IsABag, BagToSet, SetToBag, (+)

\* Nothing but the others is left when a call is answered.
LEMMA AnswerLeaves ==
  ASSUME IsABag(pending), NEW c, Continue(c, {})
  PROVE  BagToSet(pending') = Others(c)
<1> DEFINE rest == pending (-) SetToBag({c})
<1>1. IsABag(rest)
  BY DEF IsABag, SetToBag, (-)
<1>2. pending' = rest (+) SetToBag({}) /\ Others(c) = BagToSet(rest)
  BY DEF Continue, Others
<1> HIDE DEF rest
<1> QED
  BY <1>1, <1>2 DEF IsABag, BagToSet, SetToBag, (+)

\* A call that is sent beside an equal one is not alone.
LEMMA SentTwice ==
  ASSUME IsABag(pending), NEW new, NEW d \in new \cap BagToSet(pending),
         \/ Start(new)
         \/ \E c \in BagToSet(pending) : c # d /\ Continue(c, new)
  PROVE  pending'[d] > 1
<1>1. CASE Start(new)
  BY <1>1 DEF IsABag, BagToSet, SetToBag, Start, (+)
<1>2. ASSUME NEW c \in BagToSet(pending), c # d, Continue(c, new)
      PROVE  pending'[d] > 1
  <2> DEFINE rest == pending (-) SetToBag({c})
  <2>1. IsABag(rest) /\ d \in DOMAIN rest
    BY <1>2 DEF IsABag, BagToSet, SetToBag, (-)
  <2>2. pending' = rest (+) SetToBag(new)
    BY <1>2 DEF Continue
  <2> HIDE DEF rest
  <2> QED
    BY <2>1, <2>2 DEF IsABag, BagToSet, SetToBag, (+)
<1> QED
  BY <1>1, <1>2

\* A call that was under way once, or not at all, is once if it is sent.
LEMMA ContinueOnce ==
  ASSUME IsABag(pending), NEW c \in BagToSet(pending), NEW new, Continue(c, new),
         NEW d \in new, d \in BagToSet(pending) => d = c /\ pending[c] = 1
  PROVE  pending'[d] = 1
<1> DEFINE rest == pending (-) SetToBag({c})
<1>1. IsABag(rest) /\ d \notin DOMAIN rest
  BY DEF IsABag, BagToSet, SetToBag, (-)
<1>2. pending' = rest (+) SetToBag(new)
  BY DEF Continue
<1> HIDE DEF rest
<1> QED
  BY <1>1, <1>2 DEF IsABag, BagToSet, SetToBag, (+)

\* How often a call is under way.
Copies(c, calls) == IF c \in BagToSet(calls) THEN calls[c] ELSE 0

\* How many copies of a call are under way: one more of what is sent,
LEMMA StartCopies ==
  ASSUME IsABag(pending), NEW c, Start({c})
  PROVE  \A d : Copies(d, pending') = Copies(d, pending) + IF d = c THEN 1 ELSE 0
BY DEF IsABag, SetToBag, Start, (+), Copies, BagToSet

\* one less of what is answered.
LEMMA AnswerCopies ==
  ASSUME IsABag(pending), NEW c \in BagToSet(pending), Continue(c, {})
  PROVE  \A d : Copies(d, pending') = Copies(d, pending) - IF d = c THEN 1 ELSE 0
<1> DEFINE rest == pending (-) SetToBag({c})
<1>1. /\ IsABag(rest)
      /\ \A d : Copies(d, rest) = Copies(d, pending) - IF d = c THEN 1 ELSE 0
  BY DEF IsABag, BagToSet, SetToBag, (-), Copies
<1>2. pending' = rest (+) SetToBag({})
  BY DEF Continue
<1> HIDE DEF rest
<1> QED
  BY <1>1, <1>2 DEF IsABag, BagToSet, SetToBag, (+), Copies

LEMMA ContinueCopies ==
  ASSUME IsABag(pending), NEW c \in BagToSet(pending), NEW n, n # c, Continue(c, {n})
  PROVE  \A d : Copies(d, pending') =
           Copies(d, pending) - (IF d = c THEN 1 ELSE 0) + (IF d = n THEN 1 ELSE 0)
<1> DEFINE rest == pending (-) SetToBag({c})
<1>1. /\ IsABag(rest)
      /\ \A d : Copies(d, rest) = Copies(d, pending) - IF d = c THEN 1 ELSE 0
  BY DEF IsABag, BagToSet, SetToBag, (-), Copies
<1>2. pending' = rest (+) SetToBag({n})
  BY DEF Continue
<1>3. \A d : Copies(d, rest (+) SetToBag({n})) = Copies(d, rest) + IF d = n THEN 1 ELSE 0
  <2> HIDE DEF rest
  <2> QED
    BY <1>1 DEF IsABag, BagToSet, SetToBag, (+), Copies
<1> HIDE DEF rest
<1> QED
  BY <1>1, <1>2, <1>3
=============================================================================
