-------------------------------- MODULE Calls --------------------------------
(* The calls a process has sent and not seen answered, whether or not the   *)
(* request that sent them waits for them.  They are a bag: two equal calls   *)
(* are two calls, and any one of them may be answered next.                 *)
EXTENDS Naturals, Bags

VARIABLE pending

\* Calls are sent by a request that arrives.
Start(new) == pending' = pending (+) SetToBag(new)

\* The calls under way besides one of the calls c.
Others(c) == BagToSet(pending (-) SetToBag({c}))

\* A call is answered, and what waited for it sends others.
Continue(c, new) == pending' = (pending (-) SetToBag({c})) (+) SetToBag(new)
=============================================================================
