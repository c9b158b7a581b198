------------------------------ MODULE MCIngest ------------------------------
(***************************************************************************)
(* An instance of Ingest: two clients want the same lot, two send readings *)
(* that overlap, one of them disagrees with a third about a key.           *)
(***************************************************************************)
EXTENDS Ingest

Of(kind, code, batch) == [kind |-> kind, code |-> code, batch |-> batch]
Read(key, content) == [key |-> key, content |-> content]

MCWhat ==
  [publish |-> Of("publish", "A", <<>>),
   lot     |-> Of("lot", "A", <<>>),
   one     |-> Of("readings", "A", <<Read("k1", "x"), Read("k2", "y")>>),
   two     |-> Of("readings", "A", <<Read("k2", "y"), Read("k3", "x")>>),
   odd     |-> Of("readings", "A", <<Read("k3", "y")>>),
   twice   |-> Of("readings", "A", <<Read("k1", "x"), Read("k1", "x")>>),
   bad     |-> Of("readings", "A", <<Read("k4", "x"), Read("k5", "wrong")>>),
   close   |-> Of("close", "A", <<>>)]
MCAsks == DOMAIN MCWhat
MCAttempt == ((MCAsks \ {"twice"}) \X {1}) \cup ({"lot", "one"} \X {2})
=============================================================================
