--------------------------- MODULE BundleSigning ----------------------------
(***************************************************************************)
(* What code signing does to the tree of a bundle. Signing a directory     *)
(* signs its executable and seals what the directory holds; the dry run    *)
(* only writes the arguments into it, for somebody to sign it later.       *)
(* codesign itself is external: a signature names its identity, a seal     *)
(* what was there when it was made.                                        *)
(***************************************************************************)
EXTENDS BundleTree

InfoPlist == <<"Info.plist">>
Embedded == <<"embedded">>   \* ApplePlatform.embedded_provisioning_profile_path

Seal == "seal"               \* _CodeSignature
DryArgs == "args"            \* BUCK_code_sign_args.plist
DryEntitlements == "entitlements"

\* The tree with a file written at p, in the place of what was there.
Written(t, p, node) == [q \in DOMAIN t \cup {p} |-> IF q = p THEN node ELSE t[q]]

\* _find_executable_for_signed_path
Executable(t, p) == IF IsDir(t, p) THEN Append(p, "exe") ELSE p

\* What a seal has to cover: all that is inside but the seal itself.
Covered(t, p) == Restrict(t, {q \in Inside(t, p) : q # Append(p, Seal) /\ t[q].k # "dir"})

SignedBy(node, identity) == [k |-> node.k, v |-> node.v, by |-> identity]

Signed(t, p, identity) ==
  LET e == Executable(t, p)
      u == IF e \in DOMAIN t THEN Written(t, e, SignedBy(t[e], identity)) ELSE t
  IN  IF ~IsDir(t, p) THEN u
      ELSE Written(u, Append(p, Seal), [k |-> "seal", v |-> Covered(u, p), by |-> identity])

\* dry_codesign_tool, with the files that are to be signed on copy for the root.
DrySigned(t, p, identity, entitled, files) ==
  LET u == IF entitled THEN Written(t, Append(p, DryEntitlements), File("entitlements")) ELSE t
  IN  Written(u, Append(p, DryArgs), [k |-> "args", v |-> files, by |-> identity])

\* prepare_info_plist, with the keys of the platform and of the profile, and
\* _prepare_entitlements_and_info_plist, for the profile that was selected.
PreparedInfo(source, profile) == File(source \o profile)
Prepared(t, source, profile) ==
  Written(Written(t, Embedded, File(profile)), InfoPlist, PreparedInfo(source, profile))

-----------------------------------------------------------------------------
\* should_skip_adhoc_signing_path; linker: the digests of the binaries that have
\* their entitlements from the linker.
SkipsAdhoc(t, p, identity, entitled, linker) ==
  LET e == Executable(t, p)
  IN  /\ identity = "-" /\ "libclang_rt" \notin Range(p)
      /\ e \in DOMAIN t /\ t[e].by = "-"
      /\ entitled => t[e].v \in linker

\* A seal holds when nothing it covers has changed since.
SealHolds(t, p) ==
  /\ Append(p, Seal) \in DOMAIN t
  /\ t[Append(p, Seal)].v = Covered(t, p)
=============================================================================
