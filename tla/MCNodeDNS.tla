------------------------------ MODULE MCNodeDNS ------------------------------
(* Small instances of NodeDNS for TLC.                                      *)
EXTENDS NodeDNS, TLC

CONSTANTS n1, n2

Both == ("both" :> {n1, n2}) @@ ("one" :> {n2})
AllAddresses == (Nodes \X {"external", "internal"}) \ {<<n1, "internal">>}
S(match, dns, addr, valid) == [match |-> match, dns |-> dns, addr |-> addr, valid |-> valid]
Plain == S("both", "z1", "external", TRUE)
OneSpec == {Plain}
Edits == {Plain, S("one", "z1", "external", TRUE), S("both", "z2", "external", TRUE),
          S("both", "z1", "external", FALSE)}
AddressEdit == {Plain, S("both", "z1", "internal", TRUE)}

Storms == {{"flip", "dns", "down"}, {"edit", "invalid", "flip"}, {"edit", "dns"}, {"delete", "create", "flip"},
           {"delete", "create", "tombstone"}, {"delete", "dns", "down"}, {"edit", "invalid", "down"},
           {"edit", "invalid", "early", "busy", "status"}}
=============================================================================
