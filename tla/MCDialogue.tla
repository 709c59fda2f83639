----------------------------- MODULE MCDialogue -----------------------------
(***************************************************************************)
(* One dimension with two values, two aspects and four editions of a small *)
(* corpus.  The first has a window that depends on the category and a fee  *)
(* that does not.  The second rewrites the window so that it depends on    *)
(* nothing, which contradicts the section on the other category, and       *)
(* withdraws the fee.  In the third the manifest says the former of the    *)
(* old text, in the fourth that the old text on the fee is on the window.  *)
(***************************************************************************)
EXTENDS Dialogue

CONSTANTS x, y

MCDims == {"category"}
MCLimit == 2

For(values) == [d \in MCDims |-> values]

AFact(id, key, value, values) ==
  [id |-> id, key |-> key, value |-> value, scope |-> For(values),
   needs |-> IF values = {} THEN {} ELSE MCDims]

ASection(content, aspect, published, fact) ==
  [content |-> content, topic |-> "return", aspects |-> {aspect},
   published |-> published, facts |-> {fact}]

WindowX  == ASection("h1", "window", TRUE, AFact("f1", "days", 7, {x}))
Rewrote  == ASection("h4", "window", TRUE, AFact("f1", "days", 7, {}))
Relabel  == ASection("h1", "window", TRUE, AFact("f1", "days", 7, {}))
WindowY  == ASection("h2", "window", TRUE, AFact("f2", "days", 3, {y}))
Fee      == ASection("h3", "fee", TRUE, AFact("f3", "fee", 0, {}))
Retold   == ASection("h3", "window", TRUE, AFact("f3", "fee", 0, {}))
Withdrawn == ASection("h3", "fee", FALSE, AFact("f3", "fee", 0, {}))

MCEditions ==
  {{WindowX, WindowY, Fee}, {Rewrote, WindowY, Withdrawn}, {Relabel, WindowY, Fee},
   {WindowX, WindowY, Retold}}

AQuery(aspects, value) ==
  [topic |-> "return", aspects |-> aspects, known |-> For(value)]

MCQueries ==
  {AQuery({"window"}, Unknown), AQuery({"window"}, y), AQuery({"window", "fee"}, x)}

Said(intent, named, concerns, query) ==
  [intent |-> intent, named |-> named, concerns |-> concerns, query |-> query]

MCMessages ==
  {Said(i, FALSE, {}, NoQuery) : i \in {"unknown", "unsupported_write", "order_inquiry"}}
  \cup {Said("order_inquiry", TRUE, {}, NoQuery)}
  \cup {Said("policy_inquiry", FALSE, {}, q) : q \in MCQueries}
  \cup {Said("service_guidance", TRUE, {"order_status", "shipment_status"}, NoQuery)}
  \cup {Said("service_guidance", named, {"shipment_status", "refund_eligibility"}, q) :
          named \in BOOLEAN, q \in MCQueries}
=============================================================================
