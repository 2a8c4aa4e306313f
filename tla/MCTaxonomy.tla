------------------------------ MODULE MCTaxonomy ------------------------------
(* Small archives for Taxonomy: one for each group of requests. *)
EXTENDS Taxonomy

CONSTANTS d1, d2

MCDocs == {d1, d2}
MCCodes == {11, 12, 49}
MCTemplates == {{"correspondent", "storage_path"}, {"tag_list", "system"}, {"asn"}}

\* "life" and "family" mean the same by 11; "clients" means something else.
MCFilingSets ==
  [life    |-> [lane |-> 10, cats |-> (11 :> "identity"), keys |-> (11 :> "id")],
   family  |-> [lane |-> 10, cats |-> (11 :> "passports"), keys |-> (11 :> "id")],
   clients |-> [lane |-> 10, cats |-> (11 :> "quotes" @@ 12 :> "deals"),
                keys |-> (11 :> "quote" @@ 12 :> "deal")]]

Few == [names |-> 0, rules |-> 0, merge |-> 0, tree |-> 0, docs |-> 0, fields |-> 0,
        values |-> 0, preset |-> 0]

Plain == [live |-> TRUE, title |-> "x", cat |-> 49, layout |-> 0, asn |-> FALSE,
          senders |-> <<>>, tags |-> {}, mach |-> {}]

Filled == [corr |-> <<"x", "y", "-">>, tag |-> <<"x", "y", "-">>, layout |-> <<"x", "-", "-">>]

Archive(mode, uses1, docs, left1) ==
  [row |-> Filled, parent |-> <<0, 0, 0>>, uses |-> <<uses1, {}, {}>>,
   doc |-> docs, rules |-> [r \in Rules |-> [tag |-> 1, corr |-> 2, layout |-> 0]],
   tree |-> InboxOnly, system |-> [code |-> NoName, name |-> "x", mode |-> mode, sets |-> {}],
   left |-> left1]

\* d1 has a layout, both senders and both tags; d2 the default template.
Laid == (d1 :> [Plain EXCEPT !.layout = 1, !.senders = <<1, 2>>, !.tags = {1, 2}, !.mach = {1}])
        @@ (d2 :> [Plain EXCEPT !.senders = <<2>>])

NamesArchive(uses1, mode) ==
  Archive(mode, uses1, [Laid EXCEPT ![d2].live = mode = "flat"], [Few EXCEPT !.names = 1, !.docs = 1, !.merge = 1, !.rules = 1])

TreeArchive ==
  [Archive("jd", {"tag_list"}, Laid, [Few EXCEPT !.names = 1, !.tree = 3])
     EXCEPT !.row = [@ EXCEPT !.tag = <<"x", "y", "z">>]]

FieldArchive ==
  Archive("jd", {"asn"}, Laid, [Few EXCEPT !.fields = 3, !.values = 2])

\* Nothing chosen yet, and nothing filed.
BareArchive(mode, docs1) ==
  [Archive(mode, {"system"}, [d \in DocIds |-> Plain], [Few EXCEPT !.preset = 2, !.docs = docs1])
     EXCEPT !.rules = [r \in Rules |-> [tag |-> 0, corr |-> 0, layout |-> 0]]]

\* "life" chosen, and a document filed under it; another prints the archive's name.
LifeArchive ==
  [Archive("jd", {"system"}, (d1 :> [Plain EXCEPT !.cat = 11]) @@ (d2 :> [Plain EXCEPT !.layout = 1]),
           [Few EXCEPT !.preset = 2])
     EXCEPT !.tree = [@ EXCEPT ![11] = "identity"], !.system = [@ EXCEPT !.sets = {"life"}]]

MCStarts ==
  {NamesArchive({"correspondent", "storage_path"}, "jd"), NamesArchive({"tag_list", "asn"}, "flat"),
   TreeArchive, FieldArchive, BareArchive("jd", 1), BareArchive("flat", 0), LifeArchive}
=============================================================================
