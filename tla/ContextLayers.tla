----------------------------- MODULE ContextLayers -----------------------------
(***************************************************************************)
(* What an instance of the protocol is bound to: the layered context hash, *)
(* the challenge behind its NUMS key, and the AD_core of its ciphertexts.  *)
(*                                                                         *)
(* All three concatenate fields into one byte string and hash it.  A field *)
(* of fixed width is one byte here, a length is a byte, the variable fields *)
(* are sequences; a digest is its domain tag with the bytes hashed, so two  *)
(* digests are equal exactly when tag and bytes are.                       *)
(***************************************************************************)
EXTENDS Naturals, Sequences

CONSTANT None   \* Option::None

Digest(tag, bytes) == <<tag, bytes>>

\* The path tags, by their initials: neither ends with the other.
PathBytes == [compute |-> <<99, 111>>, abort |-> <<97>>]

\* The tapleaf goes in with its version, or leaves nothing behind.
Tapleaf(b) == IF b.tapleaf = None THEN <<>> ELSE <<b.tapleaf, b.version>>

\* The bytes of ctx_core for a PvugcContextBuilder.
CtxCore(b) ==
    <<b.vk, b.x>> \o Tapleaf(b) \o b.template \o PathBytes[b.path]
                  \o <<b.ycols, b.nonce>>

ArmingPkgHash(arms) == Digest("PVUGC/ARM", arms)
PresigPkgHash(bytes) == Digest("PVUGC/PRESIG", bytes)

Layer(hash) == IF hash = None THEN <<>> ELSE <<hash>>

\* finalize: the core and whichever layers there are.
CtxHash(b, arming, presig) ==
    Digest("PVUGC/CTX",
           <<Digest("PVUGC/CTX_CORE", CtxCore(b))>> \o Layer(arming) \o Layer(presig))

\* compute_nums_challenge, from the builder's fields.
NumsChallenge(b) ==
    Digest("PVUGC/NUMS", <<b.vk, b.x>> \o Tapleaf(b) \o <<b.nonce>>)

--------------------------------------------------------------------------------
Prefixed(bytes) == <<Len(bytes)>> \o bytes

\* DEM_PROFILE_ID
Profile == 68

\* AdCore::serialize.  The tapleaf is always there, and so is every length.
Serialize(ad) ==
    <<Profile, ad.vk, ad.x, ad.ctx, ad.tapleaf, ad.version>>
        \o Prefixed(ad.template) \o Prefixed(PathBytes[ad.path])
        \o <<ad.share_index>>
        \o Prefixed(ad.t_i) \o Prefixed(ad.t_aggregate)
        \o Prefixed(ad.armed_bases) \o Prefixed(ad.armed_delta)
        \o <<ad.gs_digest>>

\* The position behind the length-prefixed field that starts at position i.
Behind(bytes, i) == i + 1 + bytes[i]

\* extract_t_from_ad_core: walk over the fields to t_i, then on to the end,
\* which must be the last byte.
ExtractT(bytes) ==
    LET path  == Behind(bytes, 7)
        t     == Behind(bytes, path) + 1
        bases == Behind(bytes, Behind(bytes, t))
        gs    == Behind(bytes, Behind(bytes, bases))
    IN  IF bytes[1] # Profile \/ gs # Len(bytes) THEN None
        ELSE SubSeq(bytes, t + 1, t + bytes[t])

================================================================================
