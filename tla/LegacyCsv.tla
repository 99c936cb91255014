----------------------------- MODULE LegacyCsv ------------------------------
(***************************************************************************)
(* How the legacy exports are read: apps/api/src/modules/imports           *)
(* (csv-parser.util.ts, legacy-csv-header.mapper.ts,                       *)
(* legacy-csv-purchase.mapper.ts) and modules/cadeg (the monthly sums      *)
(* of the sales).                                                          *)
(*                                                                         *)
(* A row maps the headers its file has to the texts below them; "" is a    *)
(* blank.  A text that stands for an amount is a record: its digits before *)
(* and after the mark, how many of the latter, the mark, and whether dots  *)
(* group its thousands.  Amounts are in hundredths.                        *)
(***************************************************************************)
EXTENDS Integers, SequencesExt, Summation

Blank == ""

Text(int, frac, places, mark, dots) ==
    [int |-> int, frac |-> frac, places |-> places, mark |-> mark, dots |-> dots]

Whole(n) == Text(n, 0, 0, "none", FALSE)
NoText == Whole(0)

Texts ==
    [int: Int, frac: Nat, places: 0 .. 2, mark: {"none", "comma", "dot"}, dots: BOOLEAN]

Power == <<1, 10, 100>>     \* 10^0 to 10^2

(* Mutant: texts with dots in them change their mark too. *)
NormalizeEveryDecimal(t) == IF t.mark = "comma" THEN [t EXCEPT !.mark = "dot"] ELSE t

(* "12,50" becomes "12.50" when the row is parsed; a text with dots in it   *)
(* is left alone.                                                           *)
NormalizeDecimal(t) ==
    IF t.mark = "comma" /\ ~t.dots THEN [t EXCEPT !.mark = "dot"] ELSE t

(* Every dot goes, and what was a comma is the mark.  A blank, a zero and   *)
(* a text that is no number all give zero (parseBrDecimalOrZero).           *)
ParseBrDecimal(t) ==
    IF t.mark = "comma"
    THEN t.int * 100 + t.frac * Power[3 - t.places]
    ELSE (t.int * Power[t.places + 1] + t.frac) * 100

Amount(t) == ParseBrDecimal(NormalizeDecimal(t))

(* What the text says where the comma is the mark.                          *)
Denotes(t) == t.int * 100 + t.frac * Power[3 - t.places]

(* Headers whose lower-case form contains that of another label the code    *)
(* looks for.                                                               *)
Inside == {<<"Unidade NF", "NF">>, <<"Chave NFE", "NF">>}

(* The text under the first of the labels that has one; without any, what   *)
(* stands below the first header that merely contains the first label.      *)
CsvField(row, headers, labels) ==
    LET exact == SelectSeq(labels, LAMBDA l : l \in DOMAIN row /\ row[l] # Blank)
        near == SelectSeq(headers, LAMBDA k : k = labels[1] \/ <<k, labels[1]>> \in Inside)
    IN  IF exact # <<>> THEN row[exact[1]]
        ELSE IF near # <<>> THEN row[near[1]] ELSE Blank

Cell(row, header) == IF header \in DOMAIN row THEN row[header] ELSE Blank

(* Rows of a batch are told apart by invoice and line.  A header the file   *)
(* lacks is passed over, one that is there and blank is not.                *)
SalesRowKey(row) ==
    LET line == SelectSeq(<<"Item", "Cod. Prod", "Seq">>, LAMBDA h : h \in DOMAIN row)
    IN  <<Cell(row, "NF"), IF line = <<>> THEN Blank ELSE row[line[1]]>>

(* Sales of one product in one month: the rows that have a quantity.  A     *)
(* sale is [sku, period, qty, cost (of the line), unitCost, supplier]; the  *)
(* quantity and the costs are texts.                                        *)
SalesOf(sales, sku, period) ==
    {k \in DOMAIN sales :
        sales[k].sku = sku /\ sales[k].period = period /\ Amount(sales[k].qty) > 0}

(* Product of two amounts, in hundredths again.                             *)
Times(a, b) == (a * b) \div 100

LineCostFob(s) ==
    IF Amount(s.cost) > 0 THEN Amount(s.cost) ELSE Times(Amount(s.qty), Amount(s.unitCost))

TotalQtySold(sales, S) == SumOver([k \in S |-> Amount(sales[k].qty)], S)
TotalCostFob(sales, S) == SumOver([k \in S |-> LineCostFob(sales[k])], S)

(* The supplier most lines name, the first of them on a tie.                *)
TopSupplier(sales, S) ==
    LET named == {k \in S : sales[k].supplier # Blank}
        count(k) == Cardinality({j \in S : sales[j].supplier = sales[k].supplier})
        best == {k \in named : \A j \in named : count(j) <= count(k)}
    IN  IF best = {} THEN {} ELSE {sales[Min(best)].supplier}

(* n / d to the nearest, halves up.                                         *)
Round(n, d) == (2 * n + d) \div (2 * d)

(* What was bought for an amount, in ten-thousandths: the amount over the   *)
(* mean cost of what was sold, or the quantity sold.  {} when neither is    *)
(* known.                                                                   *)
DerivePurchaseQuantity(fob, sales, S) ==
    LET cost == TotalCostFob(sales, S)
        qty == TotalQtySold(sales, S)
    IN  IF cost > 0 THEN {Round(fob * qty * 100, cost)}
        ELSE IF qty > 0 THEN {qty * 100} ELSE {}
=============================================================================
