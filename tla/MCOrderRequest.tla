--------------------------- MODULE MCOrderRequest ---------------------------
(* Two parts and two customers in every spelling that matters, orders of up *)
(* to two items (and longer ones) and up to two units (and more).           *)
EXTENDS OrderRequest, SequencesExt

Id(form, name) == [form |-> form, name |-> name]
Item(form, name, quantity) == [partId |-> Id(form, name), quantity |-> quantity]
Value(text, padded) == [text |-> text, padded |-> padded]

Keys == {Value("r", FALSE), Value("o", FALSE), Value("o", TRUE), Value("", TRUE)}
MCEnvironments == [reader : Keys, operator : Keys]
MCApiKeys == {"", "r", "o", "x"}
MCIds == {Id("lower", 1), Id("upper", 1), Id("noVersion", 1), Id("text", 1)}

MCItems == {Item("lower", 1, 2), Item("upper", 1, 2), Item("lower", 1, 3), Item("lower", 1, 4),
            Item("lower", 2, 2), Item("lower", 2, 1), Item("upper", 2, 6),
            Item("noVersion", 1, 2), Item("text", 1, 2), Item("number", 1, 2), Item("missing", 1, 2)}
MCBodies ==
    [customerId : {Id("lower", 1), Id("upper", 1), Id("lower", 2), Id("number", 1)},
     items : SeqOf(MCItems, 2) \cup {<<Item("lower", 1, 2), Item("lower", 2, 2), Item("lower", 3, 2)>>}]
=============================================================================
