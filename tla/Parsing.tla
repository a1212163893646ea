------------------------------ MODULE Parsing ------------------------------
(***************************************************************************)
(* What the parse rules read from an alert (services/parsing.py): which    *)
(* rule is taken, and the amount, currency and card of what it captured.   *)
(* Regular expressions are their outcome: a rule matches the envelope or   *)
(* not, and captures nothing or some groups. Amounts are read character by *)
(* character, as that is where the heuristics are; the texts they are      *)
(* checked on are those of the instance, amounts as people write them.     *)
(***************************************************************************)
EXTENDS Integers, Sequences, SequencesExt, FiniteSetsExt

CONSTANT Alerts    \* the inputs: the rules, and what the text of the alert means

(* The rules are rows of one table. *)
ASSUME ParsingAssumption ==
  \A a \in Alerts :
    /\ IsFiniteSet(a.rules)
    /\ \A r \in a.rules :
         r.id \in Nat /\ r.priority \in Int /\ {r.enabled, r.envelope} \subseteq BOOLEAN
    /\ \A r, q \in a.rules : r.id = q.id => r = q

VARIABLES alert, outcome

vars == <<alert, outcome>>

Digits == <<"0", "1", "2", "3", "4", "5", "6", "7", "8", "9">>

Digit == ToSet(Digits)

Letter == {"A", "C", "D", "E", "R", "S", "U"}

NoText == <<>>    \* a group that captured nothing, or only spaces

(* _CURRENCY_CODE_RE, _PREFIXED_DOLLAR and _SYMBOL_TO_CODE, a few of each;  *)
(* the prefixes by falling length.                                          *)
Codes == {<<"U", "S", "D">>, <<"C", "A", "D">>, <<"E", "U", "R">>}

PrefixTable ==
  << [text |-> <<"C", "A", "$">>, code |-> "CAD"], [text |-> <<"U", "S", "$">>, code |-> "USD"],
     [text |-> <<"A", "U", "$">>, code |-> "AUD"], [text |-> <<"C", "$">>, code |-> "CAD"],
     [text |-> <<"U", "$">>, code |-> "USD"],      [text |-> <<"A", "$">>, code |-> "AUD"],
     [text |-> <<"S", "$">>, code |-> "SGD"] >>

Symbols == << [text |-> "$", code |-> "USD"], [text |-> "e", code |-> "EUR"] >>

DollarCodes == {"USD", "CAD", "AUD", "SGD"}

NameOf(code) == FoldLeft(LAMBDA name, c : name \o c, "", code)

-----------------------------------------------------------------------------
(* Texts. *)

Strip(t) ==
  LET ink == {i \in DOMAIN t : t[i] # " "}
  IN  IF ink = {} THEN <<>> ELSE SubSeq(t, Min(ink), Max(ink))

Occurrences(s, t) ==
  {i \in 1..(Len(t) - Len(s) + 1) : SubSeq(t, i, i + Len(s) - 1) = s}

Without(t, i, n) == Strip(SubSeq(t, 1, i - 1) \o SubSeq(t, i + n, Len(t)))

Drop(t, c) == SelectSeq(t, LAMBDA x : x # c)

IsWord(t, i) == i \in DOMAIN t /\ t[i] \in Digit \cup Letter

(* \b(...)\b *)
Words(s, t) == {i \in Occurrences(s, t) : ~IsWord(t, i - 1) /\ ~IsWord(t, i + Len(s))}

-----------------------------------------------------------------------------
(* parse_amount *)

(* Mutant: a shorter prefix shadows a longer one. *)
PrefixShadowed(t) ==
  LET held == {k \in DOMAIN PrefixTable : Occurrences(PrefixTable[k].text, t) # {}}
  IN  IF held = {} THEN 0 ELSE Max(held)

(* The first prefix, in this order, that the text holds. *)
PrefixIn(t) ==
  LET held == {k \in DOMAIN PrefixTable : Occurrences(PrefixTable[k].text, t) # {}}
  IN  IF held = {} THEN 0 ELSE Min(held)

(* _detect_currency *)
DetectCurrency(t, default) ==
  LET found == {f \in (DOMAIN t) \X Codes : f[1] \in Words(f[2], t)}
      first == CHOOSE f \in found : \A g \in found : f[1] <= g[1]
      k == PrefixIn(t)
      marks == {j \in DOMAIN Symbols : Contains(t, Symbols[j].text)}
      mark == Symbols[Min(marks)]
  IN  CASE found # {} ->
             [rest |-> Without(t, first[1], Len(first[2])), code |-> NameOf(first[2])]
        [] found = {} /\ k # 0 ->
             [rest |-> Without(t, Min(Occurrences(PrefixTable[k].text, t)), Len(PrefixTable[k].text)),
              code |-> PrefixTable[k].code]
        [] found = {} /\ k = 0 /\ marks # {} ->
             [rest |-> Strip(Drop(t, mark.text)),
              code |-> IF mark.text = "$" /\ default \in DollarCodes THEN default ELSE mark.code]
        [] OTHER -> [rest |-> Strip(t), code |-> default]

(* Mutant: a leading zero is not looked at. *)
GroupsAnyThousands(num, sep) ==
  LET i == Min(Occurrences(<<sep>>, num))
  IN  Len(num) - i = 3 /\ i - 1 \in 1..3

(* A lone separator, three digits after it and one to three before it, the   *)
(* first of which is no zero.                                                *)
GroupsThousands(num, sep) ==
  LET i == Min(Occurrences(<<sep>>, num))
  IN  /\ Len(num) - i = 3
      /\ i - 1 \in 1..3
      /\ num[1] # "0"

(* _collapse_single_separator *)
Collapse(num, sep) ==
  IF Cardinality(Occurrences(<<sep>>, num)) > 1 \/ GroupsThousands(num, sep)
  THEN Drop(num, sep)
  ELSE ReplaceAll(num, sep, ".")

(* _parse_numeric: digits with a decimal point, or not a number *)
Cleaned(num) ==
  LET dots == Occurrences(<<".">>, num)
      commas == Occurrences(<<",">>, num)
  IN  CASE dots # {} /\ commas # {} ->
             IF Max(dots) > Max(commas) THEN Drop(num, ",")
             ELSE ReplaceAll(Drop(num, "."), ",", ".")
        [] dots # {} /\ commas = {} -> Collapse(num, ".")
        [] dots = {} /\ commas # {} -> Collapse(num, ",")
        [] OTHER -> num

IsNumber(num) == Cardinality(Occurrences(<<".">>, num)) <= 1

ValueOf(digits) ==
  FoldLeft(LAMBDA n, d : 10 * n + (CHOOSE i \in DOMAIN Digits : Digits[i] = d) - 1, 0, digits)

(* Hundredths, rounded half up. *)
Minor(num) ==
  LET point == Occurrences(<<".">>, num)
      scale == 10 ^ (IF point = {} THEN 0 ELSE Len(num) - Min(point))
      n == ValueOf(Drop(num, "."))
  IN  100 * (n \div scale) + (100 * (n % scale) + scale \div 2) \div scale

(* _BETWEEN_DIGITS_SPACE_RE *)
Joined(t) ==
  LET ink(S) == {i \in S : t[i] # " "}
      isGap(i) == /\ t[i] = " "
                  /\ ink(1..i) # {} /\ t[Max(ink(1..i))] \in Digit
                  /\ ink(i..Len(t)) # {} /\ t[Min(ink(i..Len(t)))] \in Digit
  IN  FoldLeftDomain(LAMBDA u, i : IF isGap(i) THEN u ELSE Append(u, t[i]), <<>>, t)

(* _NUMBER_RUN_RE: from the first place that starts one, as far as it goes  *)
Runs(t) ==
  {r \in (DOMAIN t) \X (DOMAIN t) :
     /\ r[1] <= r[2]
     /\ t[r[2]] \in Digit
     /\ \A k \in r[1]..r[2] : t[k] \in Digit \cup {".", ","}}

NotRead == [ok |-> FALSE, minor |-> 0, currency |-> ""]

(* The run found: of those that start first, the longest. *)
Longest(runs) ==
  CHOOSE r \in runs : \A q \in runs : r[1] < q[1] \/ (r[1] = q[1] /\ r[2] >= q[2])

AmountOf(num, negative, code) ==
  IF IsNumber(num)
  THEN [ok |-> TRUE, minor |-> IF negative THEN -Minor(num) ELSE Minor(num), currency |-> code]
  ELSE NotRead

ReadRun(text, run, negative, code) ==
  LET marked == run[1] > 1 /\ text[run[1] - 1] \in {"-", "("}
  IN  AmountOf(Cleaned(SubSeq(text, run[1], run[2])), negative \/ marked, code)

ReadRuns(text, runs, negative, code) ==
  IF runs = {} THEN NotRead ELSE ReadRun(text, Longest(runs), negative, code)

ReadText(text, negative, code) == ReadRuns(text, Runs(text), negative, code)

(* A sign after the number, then one before it. *)
ReadTrailing(t, negative, code) ==
  LET trailing == t # <<>> /\ Last(t) = "-"
  IN  ReadText(Joined(IF trailing THEN Strip(Front(t)) ELSE t), negative \/ trailing, code)

ReadSigned(found, negative) ==
  LET t == found.rest
      signed == t # <<>> /\ Head(t) \in {"-", "+"}
  IN  ReadTrailing(IF signed THEN Strip(Tail(t)) ELSE t,
                   negative \/ (signed /\ Head(t) = "-"), found.code)

ReadWhole(whole, default) ==
  LET bracketed == Len(whole) > 2 /\ Head(whole) = "(" /\ Last(whole) = ")"
      inner == IF bracketed THEN Strip(SubSeq(whole, 2, Len(whole) - 1)) ELSE whole
  IN  IF whole = <<>> THEN NotRead
      ELSE ReadSigned(DetectCurrency(inner, default), bracketed)

ParseAmount(raw, default) == ReadWhole(Strip(raw), default)

-----------------------------------------------------------------------------
(* Rules. *)

MaxCardEndingDigits == 8

NoCard == <<>>

(* Mutant: the last four digits. *)
CardLast4(raw) ==
  LET digits == SelectSeq(raw, LAMBDA c : c \in Digit)
  IN  IF Len(digits) >= 4 THEN SubSeq(digits, Len(digits) - 3, Len(digits)) ELSE NoCard

(* What the issuer showed of the card; the last digits, if too many. *)
CardEnding(raw) ==
  LET digits == SelectSeq(raw, LAMBDA c : c \in Digit)
      first == IF Len(digits) > MaxCardEndingDigits THEN Len(digits) - MaxCardEndingDigits + 1 ELSE 1
  IN  IF Len(digits) >= 4 THEN SubSeq(digits, first, Len(digits)) ELSE NoCard

(* apply_rule: what the body_regex captured, if it matched at all. A date    *)
(* that leaves datetime's range in its conversion to UTC raises, and fails   *)
(* the rule, whatever the amount.                                            *)
Apply(rule) ==
  LET default == IF rule.currency = NoText THEN rule.default
                 ELSE DetectCurrency(rule.currency, rule.default).code
      amount == ParseAmount(rule.amount, default)
  IN  [ok |-> rule.matches /\ amount.ok /\ ~rule.baddate,
       minor |-> amount.minor, currency |-> amount.currency, card |-> CardEnding(rule.card)]

Precedes(r, q) == r.priority < q.priority \/ (r.priority = q.priority /\ r.id < q.id)

NoRule == 0

Unread(id) == [rule |-> id, fields |-> [ok |-> FALSE]]

(* Mutant: only the first rule whose envelope matches is tried. *)
TriesOne(rules) ==
  LET matches == {i \in DOMAIN rules : rules[i].envelope}
      first == rules[Min(matches)]
  IN  IF matches = {} THEN Unread(NoRule)
      ELSE IF Apply(first).ok THEN [rule |-> first.id, fields |-> Apply(first)]
      ELSE Unread(first.id)

(* The loop over the rules, of which those of other senders are passed over. *)
Tries(rules) ==
  LET matches == {i \in DOMAIN rules : rules[i].envelope}
      reads == {i \in matches : Apply(rules[i]).ok}
  IN  IF matches = {} THEN Unread(NoRule)
      ELSE IF reads = {} THEN Unread(rules[Min(matches)].id)
      ELSE [rule |-> rules[Min(reads)].id, fields |-> Apply(rules[Min(reads)])]

(* sorted() by priority and id *)
Ordered(rules) ==
  CHOOSE s \in SetToSeqs(rules) : \A i, j \in DOMAIN s : i < j => Precedes(s[i], s[j])

ParseEmail(rules) == Tries(Ordered({r \in rules : r.enabled}))

Init == alert \in Alerts /\ outcome = <<>>

Parse ==
  /\ outcome = <<>>
  /\ outcome' = <<ParseEmail(alert.rules)>>
  /\ UNCHANGED alert

Next == Parse

Spec == Init /\ [][Next]_vars

-----------------------------------------------------------------------------
Read == outcome # <<>>

Fields == outcome[1].fields

(* An amount is read as what was written: its value to the hundredth, its   *)
(* sign and its currency, in the conventions of the instance for separators,*)
(* refunds and currencies.                                                  *)
AmountIsRead ==
  Read /\ alert.means.amount # NotRead => Fields.ok /\
    [ok |-> TRUE, minor |-> Fields.minor, currency |-> Fields.currency] = alert.means.amount

(* The card ending is what the issuer showed: test_amex.py wants five digits *)
(* where five were shown.                                                    *)
CardIsKept ==
  Read /\ Fields.ok => Fields.card = alert.means.card

Candidates == {r \in alert.rules : r.enabled /\ r.envelope}

(* The rule taken is the first, by priority and id, of those that match the  *)
(* envelope, read an amount and do not fail on their date; when none does,   *)
(* the first that matches.                                                   *)
FirstReadableWins ==
  LET readable == {r \in Candidates : Apply(r).ok}
      pool == IF readable = {} THEN Candidates ELSE readable
  IN  Read =>
        /\ Fields.ok <=> readable # {}
        /\ IF pool = {} THEN outcome[1].rule = NoRule
           ELSE \E r \in pool : /\ r.id = outcome[1].rule
                                /\ \A q \in pool \ {r} : Precedes(r, q)
=============================================================================
