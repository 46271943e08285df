---------------------------- MODULE MCScreening -----------------------------
EXTENDS Screening, TLC

(* Two images on one base, and a third on another.                         *)
MCMeasure == <<"m1", "m1", "m2">>

PolicyOf(network, start, end, expected) ==
  [network |-> network, start |-> start, end |-> end, sanctioned |-> {"bad"},
   expected |-> expected]
Key(name, prefixed, decodes) ==
  [name |-> name, prefixed |-> prefixed, decodes |-> decodes]
MCUfvk == {Key("clean", TRUE, TRUE), Key("dirty", TRUE, TRUE),
           Key("garbled", TRUE, FALSE), Key("foreign", FALSE, FALSE)}

Ask(ufvk, policy, expiry) ==
  [ufvk |-> ufvk, policy |-> policy, intent |-> [nonce |-> expiry, expiry |-> expiry]]

(* Two wallets and two deposits, one under a policy without a measurement, *)
(* and one under the policy of another base; ranges that end at, one above *)
(* and two above the tip, an inverted one, one of the other network, and   *)
(* keys that do not parse.                                                 *)
MCRequest ==
  {Ask(Key("clean", TRUE, TRUE), PolicyOf("main", 1, 2, "m1"), 0),
   Ask(Key("dirty", TRUE, TRUE), PolicyOf("main", 1, 2, None), 1),
   Ask(Key("dirty", TRUE, TRUE), PolicyOf("main", 2, 3, "m2"), 1),
   Ask(Key("clean", TRUE, TRUE), PolicyOf("main", 2, 4, "m1"), 1),
   Ask(Key("garbled", TRUE, FALSE), PolicyOf("main", 1, 2, "m1"), 1),
   Ask(Key("foreign", FALSE, FALSE), PolicyOf("main", 1, 2, "m1"), 1),
   Ask(Key("clean", TRUE, TRUE), PolicyOf("main", 2, 1, "m1"), 1),
   Ask(Key("clean", TRUE, TRUE), PolicyOf("test", 1, 2, "m1"), 1)}

Clients == Permutations(Client)

MCTx == {"pay", "both", "odd", "gone"}
MCPayee == {"shop", "bad"}
MCTxOf ==
  [h \in 0 .. MaxTip |->
     CASE h = 1 -> <<"pay">> [] h = 2 -> <<"both", "odd">> [] h = 3 -> <<"gone">>
       [] OTHER -> <<>>]
Paid(clean, dirty) ==
  [clean |-> clean, dirty |-> dirty, garbled |-> <<>>, foreign |-> <<>>]
MCFull ==
  [t \in MCTx |->
     CASE t = "pay"  -> [empty |-> FALSE, readable |-> TRUE, paid |-> Paid(<<"shop">>, <<>>)]
       [] t = "both" -> [empty |-> FALSE, readable |-> TRUE,
                         paid |-> Paid(<<"shop">>, <<"shop", "bad">>)]
       [] t = "odd"  -> [empty |-> FALSE, readable |-> FALSE, paid |-> Paid(<<"bad">>, <<"bad">>)]
       [] t = "gone" -> [empty |-> TRUE, readable |-> TRUE, paid |-> Paid(<<"bad">>, <<>>)]]
=============================================================================
