------------------------ MODULE ProvisioningProfiles ------------------------
(***************************************************************************)
(* The choice of a provisioning profile and an identity to sign with: the  *)
(* Info.plist, the identities, all profiles of a directory and the         *)
(* entitlements are read, every profile is compared with what the app asks *)
(* for, one of the best matches taken and merged into the entitlements.    *)
(* Any of these steps may fail. The clock goes on while profiles are      *)
(* compared. Names are sequences of tokens that stand for characters. The  *)
(* names of this module differ from those of AppleBundle, so that one      *)
(* module can prove about both.                                            *)
(***************************************************************************)
EXTENDS Integers, FiniteSets, Functions, SequencesExt, Subsequences

CONSTANTS Cases,     \* what a selection may be asked for and find
          MaxTime,   \* bound: the clock
          Ignored,   \* entitlements whose mismatch is left to codesign
          Sandbox,   \* those that profiles for the desktop do not list
          Mergeable  \* those that are taken over from the profile

AppIdKey == "application-identifier"
GroupsKey == "keychain-access-groups"

\* Entitlements are lists or not: a list is a set, any other value a sequence.
Empty(value) == IF value.list THEN value.v = {} ELSE value.v = <<>>

\* The options; dir: there is a directory with profiles.
Arguments == [{"adhoc", "embed", "dir", "strict", "filter"} -> BOOLEAN]

\* What may fail: the Info.plist cannot be read, the command that lists the
\* identities or the listing of the directory fails, the entitlements cannot
\* be read, the filter is no regular expression.
MayFail == {"info", "identities", "profiles", "entitlements", "filter"}

\* files: the profiles in the order of the listing; first: the first keychain
\* group of the entitlements, if any; wanted: the common name of the ad hoc
\* identity, if any; info: keys that Info.plist has.
ASSUME CaseAssumption == \A c \in Cases :
  /\ Restrict(c, {"adhoc", "embed", "dir", "strict", "filter"}) \in Arguments
  /\ c.files \in Seq(Range(c.files)) /\ c.identities \in Seq(Range(c.identities))
  /\ c.bundle \in Seq(Range(c.bundle)) /\ {c.desktop, c.watch} \subseteq BOOLEAN
  /\ ~c.hasEntitlements => DOMAIN c.entitlements = {}
  /\ c.broken \subseteq MayFail /\ c.first \in Seq(Range(c.first))
  /\ IF c.first = <<>>
     THEN GroupsKey \in DOMAIN c.entitlements => Empty(c.entitlements[GroupsKey])
     ELSE /\ GroupsKey \in DOMAIN c.entitlements
          /\ c.entitlements[GroupsKey].list => c.first \in c.entitlements[GroupsKey].v
  /\ \A f \in Range(c.files) :
       f.expires \in Nat /\ f.certs # {} /\ f.pattern.id \in Seq(Range(f.pattern.id))

\* A profile may add the app ID.
ASSUME MergeableAssumption == AppIdKey \in Mergeable

\* Why a profile is passed over: the classes of diagnostics.
Reasons == {"team", "bundle", "expired", "platform", "entitlements", "certificate"}

InfoAppId == "ApplicationIdentifier"
None == "none"

VARIABLES
  case,      \* the request
  now,       \* the clock
  stage,
  ids,       \* the identities
  n,         \* number of the next profile
  matching,  \* <<profile, identity, match length>> of those that match
  mismatches,\* [why, file, length] of those that do not
  outcome,   \* what it ends with
  prepared,  \* the entitlements to sign with
  info       \* the keys of the Info.plist

selectionVars == <<case, now, stage, ids, n, matching, mismatches, outcome, prepared, info>>

SelectionInit ==
  /\ case \in Cases /\ now = 0 /\ stage = "start" /\ ids = <<>> /\ n = 1
  /\ matching = <<>> /\ mismatches = <<>> /\ outcome = [is |-> None] /\ prepared = <<>>
  /\ info = case.info

Tick == stage = "compare" /\ now < MaxTime /\ now' = now + 1
        /\ UNCHANGED <<case, stage, ids, n, matching, mismatches, outcome, prepared, info>>

End(o) == stage' = "ended" /\ outcome' = o /\ UNCHANGED <<case, now, matching, mismatches>>

-----------------------------------------------------------------------------
\* Ad hoc signatures need no profile, unless one is to be embedded.
SigningContext ==
  /\ stage = "start"
  /\ IF case.adhoc /\ ~case.embed
     THEN End([is |-> "ad-hoc", identity |-> IF case.wanted = None THEN "-" ELSE case.wanted])
     ELSE IF ~case.dir \/ (case.adhoc /\ case.wanted = None) THEN End([is |-> "refused"])
     ELSE IF "info" \in case.broken THEN End([is |-> "raised"])
     ELSE stage' = "identities" /\ UNCHANGED <<case, now, matching, mismatches, outcome>>
  /\ UNCHANGED <<ids, n, prepared, info>>

\* What the tool lists, a fingerprint and a common name each, and is no error.
Identities == Only(case.identities, {i \in Range(case.identities) : ~i.expired})

\* list_codesign_identities; ad hoc, the first with the common name.
Named == Only(Identities, {i \in Range(Identities) : i.name = case.wanted})
ListIdentities ==
  /\ stage = "identities"
  /\ IF "identities" \in case.broken THEN End([is |-> "raised"]) /\ UNCHANGED ids
     ELSE IF case.adhoc /\ Named = <<>> THEN End([is |-> "no-identity"]) /\ UNCHANGED ids
     ELSE /\ ids' = IF case.adhoc THEN <<Head(Named)>> ELSE Identities
          /\ stage' = "read" /\ UNCHANGED <<case, now, matching, mismatches, outcome>>
  /\ UNCHANGED <<n, prepared, info>>

\* The command that reads a profile ends well.
Readable(f) == f.readable

\* _read_provisioning_profiles: one profile that cannot be read fails them all.
ReadProfiles ==
  /\ stage = "read"
  /\ IF "profiles" \in case.broken \/ \E f \in Range(case.files) : ~Readable(f) THEN End([is |-> "raised"])
     ELSE IF case.files = <<>> THEN End([is |-> "no-profiles"])
     ELSE stage' = "entitlements" /\ UNCHANGED <<case, now, matching, mismatches, outcome>>
  /\ UNCHANGED <<ids, n, prepared, info>>

\* AppId: a team and a name. infer_from_entitlements takes the first keychain
\* group for one and raises if it is none.
IsAppId(id) == Len(id) = 2
NoAppId == case.first # <<>> /\ ~IsAppId(case.first)
Team == IF case.first = <<>> THEN None ELSE case.first[1]

\* _read_entitlements_file, and the team that the profile has to be of.
ReadEntitlements ==
  /\ stage = "entitlements"
  /\ IF (case.hasEntitlements /\ "entitlements" \in case.broken) \/ NoAppId THEN End([is |-> "raised"])
     ELSE stage' = "compare" /\ UNCHANGED <<case, now, matching, mismatches, outcome>>
  /\ UNCHANGED <<ids, n, prepared, info>>

-----------------------------------------------------------------------------
\* _bundle_match_length, with 0 for no match and 1 more than the code's length.
Bug_MatchLength(id, pattern) ==
  IF pattern.wildcard /\ IsPrefix(pattern.id, id) THEN Len(id) + 1
  ELSE IF id = pattern.id THEN Len(pattern.id) + 1 ELSE 0
MatchLength(id, pattern) ==
  IF pattern.wildcard THEN IF IsPrefix(pattern.id, id) THEN Len(pattern.id) + 1 ELSE 0
  ELSE IF id = pattern.id THEN Len(pattern.id) + 1 ELSE 0

\* _matches_or_array_is_subset_of: values are sets for lists, and functions
\* map the keys that are there.
Allows(ents, key, value) ==
  IF key \notin DOMAIN ents THEN case.desktop /\ key \in Sandbox
  ELSE IF value.list /\ ents[key].list THEN value.v \subseteq ents[key].v
  ELSE ents[key] = value

EntitlementsMatch(f) == \A key \in DOMAIN case.entitlements \ Ignored :
  Allows(f.entitlements, key, case.entitlements[key])

Certified(f) == Only(ids, {i \in Range(ids) : i.fingerprint \in f.certs})

\* Why a profile is passed over, in the order of the checks.
Mismatch(f) ==
  IF Team # None /\ Team # f.team THEN "team"
  ELSE IF MatchLength(case.bundle, f.pattern) = 0 THEN "bundle"
  ELSE IF now > f.expires THEN "expired"
  ELSE IF case.platform # None /\ case.platform \notin f.platforms THEN "platform"
  ELSE IF ~EntitlementsMatch(f) THEN "entitlements"
  ELSE IF Certified(f) = <<>> THEN "certificate" ELSE None

\* One round of the loop of select_best_provisioning_profile. A profile
\* without a proper app ID raises.
Compare ==
  /\ stage = "compare" /\ n <= Len(case.files) /\ n' = n + 1
  /\ LET f == case.files[n] why == Mismatch(f) length == MatchLength(case.bundle, f.pattern)
     IN  IF f.team = None THEN End([is |-> "raised"])
         ELSE /\ matching' = IF why # None THEN matching
                             ELSE Append(matching, <<f, Head(Certified(f)), length>>)
              /\ mismatches' = IF why = None THEN mismatches
                               ELSE Append(mismatches, [why |-> why, file |-> f, length |-> length])
              /\ UNCHANGED <<case, now, stage, outcome>>
  /\ UNCHANGED <<ids, prepared, info>>

\* Those of the best length; of several, those that the filter prefers.
Longest == Only(matching, {m \in Range(matching) : \A o \in Range(matching) : m[3] >= o[3]})
Candidates == IF Len(Longest) <= 1 \/ ~case.filter THEN Longest
              ELSE Only(Longest, {m \in Range(Longest) : m[1].preferred})

\* The latest of the checks that some profile did not pass; that of the team
\* and that of the name are told alike.
Of(why) == {m \in Range(mismatches) : m.why = why}
Latest == IF Of("certificate") # {} THEN "certificate"
          ELSE IF Of("entitlements") # {} THEN "entitlements"
          ELSE IF Of("platform") # {} THEN "platform"
          ELSE IF Of("expired") # {} THEN "expired" ELSE None

\* interpret_provisioning_profile_diagnostics: of the latest check that some
\* profile came to, the first of the longest matches.
Diagnosis ==
  IF Latest = None THEN [why |-> "bundle"]
  ELSE Head(Only(mismatches, {m \in Of(Latest) : \A o \in Of(Latest) : m.length >= o.length}))

\* Without a candidate there is an error, which needs a mismatch to report.
\* The filter is compiled only when there is something to choose from.
Select ==
  /\ stage = "compare" /\ n > Len(case.files)
  /\ IF Len(Longest) > 1 /\ case.filter /\ "filter" \in case.broken THEN End([is |-> "raised"])
     ELSE IF Candidates = <<>>
     THEN End(IF mismatches = <<>> THEN [is |-> "raised"] ELSE [is |-> "no-match", report |-> Diagnosis])
     ELSE IF Len(Candidates) > 1 /\ case.strict THEN End([is |-> "ambiguous"])
     ELSE /\ stage' = "prepare" /\ outcome' = [is |-> "selected", match |-> Last(Candidates)]
          /\ UNCHANGED <<case, now, matching, mismatches>>
  /\ UNCHANGED <<ids, n, prepared, info>>

-----------------------------------------------------------------------------
\* The dictionary own with what else there is in more.
With(own, more) == [k \in DOMAIN own \cup DOMAIN more |-> IF k \in DOMAIN own THEN own[k] ELSE more[k]]

\* prepare_code_signing_entitlements: the profile adds to the entitlements of
\* the app and never replaces one; without any the app ID is made up.
Bug_ProfileWins(own, f) == With(Restrict(f.entitlements, DOMAIN f.entitlements \cap Mergeable), own)
Merge(own, f) == With(own, Restrict(f.entitlements, DOMAIN f.entitlements \cap Mergeable))
AppId(f) == [list |-> FALSE, v |-> <<f.team, case.bundle>>]
MadeUp(f) == [k \in {AppIdKey, GroupsKey} |->
                IF k = AppIdKey THEN AppId(f) ELSE [list |-> TRUE, v |-> {AppId(f).v}]]

\* _merge_plist_dicts: a key that is there stays, but dictionaries are joined.
MergePlist(source, destination) ==
  [k \in DOMAIN source \cup DOMAIN destination |->
     IF k \notin DOMAIN destination THEN source[k]
     ELSE IF k \in DOMAIN source /\ source[k].dict /\ destination[k].dict
     THEN [dict |-> TRUE, v |-> With(source[k].v, destination[k].v)] ELSE destination[k]]
AdditionalKeys(f) ==
  [k \in {x \in {InfoAppId} : case.kind = "APPL" /\ ~case.watch} |-> [dict |-> FALSE, v |-> AppId(f).v]]

PrepareEntitlements ==
  /\ stage = "prepare" /\ stage' = "ended" /\ info' = MergePlist(AdditionalKeys(outcome.match[1]), info)
  /\ LET f == outcome.match[1]
     IN  prepared' = IF case.hasEntitlements THEN Merge(case.entitlements, f)
                     ELSE With(MadeUp(f), Merge(<<>>, f))
  /\ UNCHANGED <<case, now, ids, n, matching, mismatches, outcome>>

SelectionNext == Tick \/ SigningContext \/ ListIdentities \/ ReadProfiles \/ ReadEntitlements \/ Compare
                 \/ Select \/ PrepareEntitlements

SelectionSpec == SelectionInit /\ [][SelectionNext]_selectionVars

-----------------------------------------------------------------------------
(* Properties *)

\* What suits the app, said without the loop; true of fewer profiles as time goes on.
Suits(f) ==
  /\ f.readable /\ f.team # None /\ (Team = None \/ Team = f.team)
  /\ IF f.pattern.wildcard THEN IsPrefix(f.pattern.id, case.bundle) ELSE f.pattern.id = case.bundle
  /\ f.expires >= now /\ (case.platform = None \/ case.platform \in f.platforms)
  /\ EntitlementsMatch(f) /\ \E i \in Range(ids) : i.fingerprint \in f.certs

\* Patterns that match one name differ in length, or are the same but for the
\* wildcard: the code counts what stands before it.
MoreSpecific(f, g) == Len(f.pattern.id) > Len(g.pattern.id)

\* The match is with a profile that allows the entitlements and is of the team
\* that they name, and no profile that still suits is more specific; an
\* identity that is listed has a certificate in it, and of several profiles that are as good it is one that
\* the filter prefers.
IsBest(match) ==
  LET f == match[1]
      rivals == {g \in Range(case.files) : Suits(g)}
      equal == {i \in DOMAIN case.files : case.files[i] \in rivals
                  /\ ~MoreSpecific(f, case.files[i]) /\ ~MoreSpecific(case.files[i], f)}
  IN  /\ match[2].fingerprint \in f.certs /\ match[2] \in Range(ids)
      /\ f.team # None /\ (Team = None \/ Team = f.team) /\ EntitlementsMatch(f)
      /\ \A g \in rivals : ~MoreSpecific(g, f)
      /\ case.filter /\ Cardinality(equal) > 1 => f.preferred
      /\ case.strict /\ ~case.filter => Cardinality(equal) <= 1

\* The selection ends with one of the best (provisioning_profile_selection.py:197).
BestIsSelected == outcome.is = "selected" => IsBest(outcome.match)

\* A selection that is refused had no suitable profile left, or several that
\* the strict search or the filter makes no choice of; or something could not
\* be read: a profile, its app ID, the first keychain group of the app, or one
\* of the other inputs. An error about a mismatch names the profile that came
\* furthest.
RefusedForAReason ==
  /\ outcome.is \in {"no-match", "no-profiles"} =>
       \/ \A f \in Range(case.files) : ~Suits(f)
       \/ case.filter /\ Len(matching) > 1
  /\ outcome.is = "ambiguous" => case.strict /\ Len(matching) > 1
  /\ outcome.is = "raised" =>
       \/ case.broken # {} \/ NoAppId
       \/ \E f \in Range(case.files) : ~f.readable \/ f.team = None
       \/ case.filter /\ Len(matching) > 1
  /\ outcome.is = "refused" => ~case.dir \/ case.wanted = None
  /\ outcome.is = "no-identity" => case.adhoc /\ \A i \in Range(Identities) : i.name # case.wanted
  /\ \A m \in Range(mismatches) : m.why \in Reasons
  /\ outcome.is = "no-match" /\ outcome.report.why # "bundle" =>
       \A m \in Range(mismatches) : m.why = outcome.report.why => m.length <= outcome.report.length

\* What the app declares is what it is signed with, and nothing else comes in
\* but what profiles may add; without a declaration it gets an app ID. The
\* Info.plist keeps its keys, and names the app the same.
EntitlementsKept ==
  prepared # <<>> =>
    /\ \A key \in DOMAIN case.entitlements : prepared[key] = case.entitlements[key]
    /\ DOMAIN prepared \subseteq DOMAIN case.entitlements \cup Mergeable \cup {GroupsKey}
    /\ \A key \in DOMAIN case.info : info[key] = case.info[key]
    /\ InfoAppId \in DOMAIN info \ DOMAIN case.info =>
         info[InfoAppId].v = <<outcome.match[1].team, case.bundle>>
    /\ ~case.hasEntitlements => prepared[AppIdKey].v = <<outcome.match[1].team, case.bundle>>

\* What is chosen is the best, what is refused is refused for a reason
\* (provisioning_profile_selection.py:189-354), and the app is signed with what it
\* declares (prepare_code_signing_entitlements.py:32-108).
SelectionIsJust == BestIsSelected /\ RefusedForAReason /\ EntitlementsKept
=============================================================================
