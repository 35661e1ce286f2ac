-------------------------- MODULE MCFloatingIPPools --------------------------
(* Small instances of FloatingIPPools for TLC.                              *)
EXTENDS FloatingIPPools

S(criteria, region, dns, ips) ==
    [criteria |-> criteria, provider |-> "digitalocean", region |-> region, dns |-> dns, ips |-> ips]
Plain == S("a", "r1", "none", TRUE)
PlainOnly == {Plain}
Edits == {Plain, S("b", "r1", "none", TRUE), S("a", "r2", "cloudflare", TRUE),
          [S("a", "r1", "none", FALSE) EXCEPT !.provider = "cloudflare"]}
DNSEdits == {S("a", "r1", "default", TRUE), S("a", "r1", "cloudflare", TRUE)}
Unregistered == {S("a", "r1", "route53", TRUE)}

Changes == {{"edit", "down"}, {"region", "down"}, {"edit", "region"}, {"delete", "create", "edit"}, {"delete", "missed"},
            {"early", "down"}}
=============================================================================
