------------------------------ MODULE MCParsing ------------------------------
(***************************************************************************)
(* Instance of Parsing: amounts written in every combination of these      *)
(* conventions, each with its meaning, and alerts with up to three rules.  *)
(***************************************************************************)
EXTENDS Parsing

Grouped(digits, sep) ==
  LET n == Len(digits)
  IN  FoldLeftDomain(LAMBDA t, i : t \o (IF i > 1 /\ (n - i) % 3 = 2 THEN sep ELSE <<>>)
                                     \o <<digits[i]>>, <<>>, digits)

Wholes == {<<"0">>, <<"3", "0">>, <<"4", "2", "5">>, <<"1", "2", "3", "4">>,
           <<"1", "0", "0", "0", "5", "0", "0">>}

Fractions == {<<>>, <<"5">>, <<"0", "5">>}

(* Thousands and decimal separators that go together. *)
Separators == {<<<<>>, ".">>, <<<<>>, ",">>, <<<<",">>, ".">>, <<<<".">>, ",">>, <<<<" ">>, ",">>}

Number == {[text |-> Grouped(w, s[1]) \o (IF f = <<>> THEN <<>> ELSE <<s[2]>> \o f),
            minor |-> 100 * ValueOf(w) + ValueOf(f) * (IF Len(f) = 1 THEN 10 ELSE 1)]
             : w \in Wholes, f \in Fractions, s \in Separators}
          \cup {[text |-> <<"0", ".", "0", "0", "5">>, minor |-> 1],
                [text |-> <<"0", ",", "0", "0", "4">>, minor |-> 0]}

(* What goes before and after the number, what was captured as currency, and *)
(* what that means when the rule's default is USD, CAD or EUR.               *)
S(pre, post, group, usd, cad, eur) ==
  [pre |-> pre, post |-> post, group |-> group,
   means |-> [d \in {"USD", "CAD", "EUR"} |->
                CASE d = "USD" -> usd [] d = "CAD" -> cad [] OTHER -> eur]]

Styles ==
  {S(<<>>, <<>>, NoText, "USD", "CAD", "EUR"),
   S(<<"$">>, <<>>, NoText, "USD", "CAD", "USD"),
   S(<<>>, <<" ", "e">>, NoText, "EUR", "EUR", "EUR"),
   S(<<"C", "A", "$">>, <<>>, NoText, "CAD", "CAD", "CAD"),
   S(<<"A", "$">>, <<>>, NoText, "AUD", "AUD", "AUD"),
   S(<<"C", "A", "D", " ">>, <<>>, NoText, "CAD", "CAD", "CAD"),
   S(<<>>, <<" ", "E", "U", "R">>, NoText, "EUR", "EUR", "EUR"),
   S(<<"$">>, <<" ", "C", "A", "D">>, NoText, "CAD", "CAD", "CAD"),
   S(<<>>, <<>>, <<"U", "S", "$">>, "USD", "USD", "USD"),
   S(<<"$">>, <<>>, <<"C", "A", "D">>, "CAD", "CAD", "CAD")}

(* An amount, and how a refund of it is written. *)
Signed(n, st) ==
  LET all == st.pre \o n \o st.post
  IN  {[text |-> all, sign |-> 1],
       [text |-> <<"+">> \o all, sign |-> 1],
       [text |-> <<"-">> \o all, sign |-> -1],
       [text |-> st.pre \o <<"-">> \o n \o st.post, sign |-> -1],
       [text |-> st.pre \o n \o <<"-">> \o st.post, sign |-> -1],
       [text |-> <<"(">> \o all \o <<")">>, sign |-> -1],
       [text |-> st.pre \o <<"(">> \o n \o <<")">> \o st.post, sign |-> -1]}

Rule(id, priority, enabled, envelope, matches, baddate, amount, currency, default, card) ==
  [id |-> id, priority |-> priority, enabled |-> enabled, envelope |-> envelope,
   matches |-> matches, baddate |-> baddate, amount |-> amount, currency |-> currency, default |-> default,
   card |-> card]

MCAmounts ==
  UNION {UNION {
    {[rules |-> {Rule(1, 1, TRUE, TRUE, TRUE, FALSE, x.text, st.group, d, <<>>)},
      means |-> [amount |-> [ok |-> TRUE, minor |-> x.sign * n.minor, currency |-> st.means[d]],
                 card |-> NoCard]]
       : x \in Signed(n.text, st)}
    : n \in Number, st \in Styles} : d \in {"USD", "CAD", "EUR"}}

(* Captured: a mask and digits, more of them than the column takes, or none. *)
MCCards ==
  {[rules |-> {Rule(1, 1, TRUE, TRUE, TRUE, FALSE, <<"7">>, NoText, "USD", c[1])},
    means |-> [amount |-> NotRead, card |-> c[2]]]
     : c \in {<< <<"-", "1", "2", "3", "4">>, <<"1", "2", "3", "4">> >>,
              << <<"-", "1", "2", "3", "4", "5">>, <<"1", "2", "3", "4", "5">> >>,
              << <<"1", "2", " ", "3", "4", "5", "6">>, <<"1", "2", "3", "4", "5", "6">> >>,
              << <<"1", "2", "3">>, NoCard >>,
              << <<"9", "1", "2", "3", "4", "5", "6", "7", "8">>,
                 <<"1", "2", "3", "4", "5", "6", "7", "8">> >>}}

(* Three rules, each disabled, of another sender, without a match, with      *)
(* nothing to read, with a date out of range, or good; the priorities meet   *)
(* at times.                                                                 *)
MCRules(id) ==
  {Rule(id, p, k # "disabled", k # "other", k # "nomatch", k = "baddate",
        IF k = "garbage" THEN <<"A">> ELSE <<"7">>, NoText, "USD", <<>>)
     : p \in {1, 2}, k \in {"disabled", "other", "nomatch", "garbage", "baddate", "good"}}

MCEmails ==
  {[rules |-> {r1, r2, r3}, means |-> [amount |-> NotRead, card |-> NoCard]]
     : r1 \in MCRules(1), r2 \in MCRules(2), r3 \in MCRules(3)}

MCAlerts == MCAmounts \cup MCCards \cup MCEmails
=============================================================================
