---------------------------- MODULE MCCatalogCalls ----------------------------
(* Instances of CatalogCalls: the shapes of the bundled seed catalog, with  *)
(* a routed endpoint of one provider whose child belongs to another.        *)
EXTENDS CatalogCalls

Entry(p, a, c, ch) == [provider |-> p, access |-> a, cost |-> c, child |-> ch]

SeedCatalog ==
    [e \in Endpoint |->
        CASE e = "find"    -> Entry("hunter", "platform", 2, NoChild)
          [] e = "routed"  -> Entry("treg", "platform", 2, "find")
          [] e = "echo"    -> Entry("hunter", "anonymous", 0, NoChild)
          [] e = "private" -> Entry("hunter", "own_key_only", NoPrice, NoChild)]
=============================================================================
