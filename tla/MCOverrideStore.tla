---------------------------- MODULE MCOverrideStore ----------------------------
(* TLC instance of OverrideStore: a domain, its parent, and three shipments. *)
EXTENDS OverrideStore

CONSTANTS Site, Host    \* Host is a subdomain of Site

MCDomain == {Site, Host}
MCParents == [d \in MCDomain |-> IF d = Host THEN <<Site>> ELSE <<>>]
MCOverrideEntry == {Exactly(Site), Below(Site), Exactly(Host)}

\* Nothing shipped; a file that opens Site and a later one that names Host; two
\* files that name the same domain with a category that has no policy row.
MCShipments ==
    {<<>>,
     <<[category |-> "blocked", entries |-> {Below(Site)}],
       [category |-> "dlp", entries |-> {Exactly(Host)}]>>,
     <<[category |-> "unlisted", entries |-> {Exactly(Site)}],
       [category |-> "blocked", entries |-> {Below(Site)}]>>}

MCPolicy ==
    [allow_admin |-> "allow", block_admin |-> "deny",
     blocked |-> "deny", dlp |-> "allow_with_dlp"]
=============================================================================
