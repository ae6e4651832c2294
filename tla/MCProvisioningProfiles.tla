----------------------- MODULE MCProvisioningProfiles -----------------------
EXTENDS ProvisioningProfiles

MCIgnored == {AppIdKey, GroupsKey}
MCSandbox == {"sandbox"}
MCMergeable == {AppIdKey, "get-task-allow"}

One(x) == [list |-> FALSE, v |-> <<x>>]
Many(S) == [list |-> TRUE, v |-> S]
Pattern(id, wildcard) == [id |-> id, wildcard |-> wildcard]

\* A profile that suits, and profiles that differ from it in one respect.
Good == [name |-> "good", readable |-> TRUE, team |-> "T", pattern |-> Pattern(<<"a">>, TRUE),
         expires |-> 9, platforms |-> {"ios"}, certs |-> {"x", "y"}, preferred |-> FALSE,
         entitlements |-> (AppIdKey :> One("T.a*")) @@ ("get-task-allow" :> One("yes"))
                          @@ ("groups" :> Many({"g", "h"}))]
Profiles == {Good,
  [Good EXCEPT !.name = "again"], [Good EXCEPT !.name = "preferred", !.preferred = TRUE],
  [Good EXCEPT !.name = "any", !.pattern = Pattern(<<>>, TRUE)],
  [Good EXCEPT !.name = "exact", !.pattern = Pattern(<<"a", "b">>, FALSE)],
  [Good EXCEPT !.name = "exact, expires", !.pattern = Pattern(<<"a", "b">>, FALSE), !.expires = 0],
  [Good EXCEPT !.name = "as long", !.pattern = Pattern(<<"a", "b">>, TRUE), !.preferred = TRUE],
  [Good EXCEPT !.name = "prefix", !.pattern = Pattern(<<"a">>, FALSE)],
  [Good EXCEPT !.name = "other team", !.team = "U"],
  [Good EXCEPT !.name = "exact, other certificate", !.pattern = Pattern(<<"a", "b">>, FALSE),
               !.certs = {"z"}],
  [Good EXCEPT !.name = "other certificate", !.certs = {"z"}],
  [Good EXCEPT !.name = "tv", !.platforms = {"tv"}],
  [Good EXCEPT !.name = "fewer groups", !.entitlements = [@ EXCEPT !["groups"] = Many({"h"})]],
  [Good EXCEPT !.name = "no ID", !.team = None],
  [Good EXCEPT !.name = "unreadable", !.readable = FALSE]}

Listings == {<<>>} \cup {<<p>> : p \in Profiles} \cup {<<p, q>> : p, q \in Profiles}
            \cup {<<p, q, r>> : p \in {f \in Profiles : f.name \in {"good", "exact", "any"}},
                                q \in {f \in Profiles : f.name \in {"again", "exact, expires", "tv"}},
                                r \in {f \in Profiles : f.name \in {"preferred", "as long", "any", "no ID"}}}

I(fingerprint, name) == [fingerprint |-> fingerprint, name |-> name, expired |-> FALSE]
Base == [files |-> <<>>, bundle |-> <<"a", "b">>, first |-> <<>>, broken |-> {}, platform |-> "ios", desktop |-> FALSE,
         identities |-> <<I("w", "W"), [I("z", "X") EXCEPT !.expired = TRUE], I("y", "Y"), I("x", "X")>>,
         wanted |-> None, hasEntitlements |-> FALSE, entitlements |-> <<>>,
         adhoc |-> FALSE, embed |-> FALSE, dir |-> TRUE, strict |-> FALSE, filter |-> FALSE,
         kind |-> "APPL", watch |-> FALSE, info |-> <<>>]
AdHoc == [Base EXCEPT !.adhoc = TRUE, !.embed = TRUE]
Info == InfoAppId :> [dict |-> FALSE, v |-> <<"S", <<"a", "b">>>>]
Declared == ("groups" :> Many({"g"})) @@ (AppIdKey :> One("T.ab"))

Requests == {Base, [Base EXCEPT !.strict = TRUE], [Base EXCEPT !.filter = TRUE],
  [Base EXCEPT !.strict = TRUE, !.filter = TRUE],
  [Base EXCEPT !.bundle = <<"b">>], [Base EXCEPT !.platform = None],
  [AdHoc EXCEPT !.wanted = "X"], [AdHoc EXCEPT !.wanted = "V"], AdHoc,
  [AdHoc EXCEPT !.embed = FALSE, !.dir = FALSE], [Base EXCEPT !.dir = FALSE], [Base EXCEPT !.identities = <<>>],
  [Base EXCEPT !.info = Info], [Base EXCEPT !.kind = "FMWK"], [Base EXCEPT !.watch = TRUE],
  [Base EXCEPT !.hasEntitlements = TRUE, !.entitlements = "groups" :> Many({"g"})],
  [Base EXCEPT !.hasEntitlements = TRUE, !.entitlements = Declared],
  [Base EXCEPT !.hasEntitlements = TRUE, !.first = <<"T", "k">>,
               !.entitlements = (GroupsKey :> Many({<<"T", "k">>, <<"k">>})) @@ ("groups" :> Many({"g"}))],
  [Base EXCEPT !.hasEntitlements = TRUE, !.first = <<"k">>,
               !.entitlements = GroupsKey :> Many({<<"T", "k">>, <<"k">>})],
  [Base EXCEPT !.hasEntitlements = TRUE, !.entitlements = GroupsKey :> Many({})],
  [Base EXCEPT !.broken = {"entitlements"}],
  [Base EXCEPT !.broken = {"entitlements"}, !.hasEntitlements = TRUE],
  [Base EXCEPT !.broken = {"filter"}, !.filter = TRUE],
  [Base EXCEPT !.broken = {"info"}], [Base EXCEPT !.broken = {"profiles"}],
  [Base EXCEPT !.broken = {"identities"}], [AdHoc EXCEPT !.wanted = "X", !.broken = {"identities"}],
  [Base EXCEPT !.hasEntitlements = TRUE, !.desktop = TRUE, !.entitlements = "sandbox" :> One("on")],
  [Base EXCEPT !.hasEntitlements = TRUE, !.entitlements = "sandbox" :> One("on")]}

MCCases == {[r EXCEPT !.files = l] : r \in Requests, l \in Listings}
=============================================================================
