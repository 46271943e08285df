---------------------------- MODULE MCBlockScan -----------------------------
EXTENDS BlockScan

MCTxId == {"fund", "spend", "mixed", "bare", "odd", "none", "later"}
MCAddr == {"mine", "shop", "friend"}
MCOwn == {"mine"}

Shape(bytes, shielded, outputs, vin, vout, paidBy) ==
  [bytes |-> bytes, shielded |-> shielded, outputs |-> outputs,
   vin |-> vin, vout |-> vout, paidBy |-> paidBy]
Out(kind, to) == [kind |-> kind, to |-> to]
P2PKH(to) == [form |-> "P2PKH", to |-> to]
P2SH(to) == [form |-> "P2SH", to |-> to]
Other(to) == [form |-> "other", to |-> to]

(* A deposit from the shielded pool to the account's transparent address;  *)
(* a payment from it with shielded change and a multisignature output; a   *)
(* shielded payment that also pays a transparent address; a payment        *)
(* without any shielded part; and transactions the code cannot read, gets  *)
(* no bytes of, or can read with another branch id only.                   *)
MCBody ==
  [t \in MCTxId |->
     CASE t = "fund"  -> Shape("plain", TRUE, {Out("Incoming", "mine")}, {},
                               <<P2PKH("mine")>>, FALSE)
       [] t = "spend" -> Shape("plain", TRUE, {Out("WalletInternal", "mine")},
                               {<<"fund", 1>>},
                               <<P2SH("shop"), Other("friend"), P2PKH("mine")>>, TRUE)
       [] t = "mixed" -> Shape("plain", TRUE, {Out("Outgoing", "friend")},
                               {<<"spend", 3>>}, <<P2PKH("shop")>>, TRUE)
       [] t = "bare"  -> Shape("plain", FALSE, {}, {<<"fund", 1>>}, <<P2PKH("shop")>>, TRUE)
       [] t = "odd"   -> Shape("odd", TRUE, {}, {}, <<>>, FALSE)
       [] t = "none"  -> Shape("none", TRUE, {}, {}, <<>>, FALSE)
       [] t = "later" -> Shape("newer", TRUE, {Out("Incoming", "mine")}, {}, <<>>, FALSE)]

MCContent ==
  [h \in Hashes |->
     CASE h = <<0, 1>> -> <<"none", "later">>
       [] h = <<1, 1>> -> <<"fund">>
       [] h = <<2, 1>> -> <<"spend", "mixed">>
       [] h = <<2, 2>> -> <<"bare">>
       [] h = <<3, 2>> -> <<"odd">>
       [] OTHER        -> <<>>]

(* Digests just under and just over targets whose exponent is below, at    *)
(* and above the size of the mantissa, and out of range.                   *)
Header(exp, mant, digest) ==
  [bits |-> [exp |-> exp, mant |-> mant],
   digest |-> [i \in 0 .. (Width - 1) |-> digest[i + 1]]]
MCWork ==
  [h \in Hashes |->
     CASE h[1] = 0     -> Header(1, 31, <<0, 0, 0, 0>>)
       [] h[1] = 1     -> Header(2, 31, <<2, 1, 0, 0>>)
       [] h = <<2, 1>> -> Header(3, 60, <<3, 2, 1, 0>>)
       [] h = <<2, 2>> -> Header(3, 27, <<0, 3, 1, 0>>)
       [] h = <<3, 1>> -> Header(4, 17, <<0, 3, 0, 0>>)
       [] OTHER        -> Header(5, 31, <<0, 0, 0, 0>>)]
=============================================================================
