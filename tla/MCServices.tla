----------------------------- MODULE MCServices -----------------------------
(***************************************************************************)
(* The services around the messages for TLC: prekeys, registration and      *)
(* login, contacts, trust, the VEIL issuer, stickers, group streams, group  *)
(* topics and key packages, broadcast channels.  Each keeps its own rows    *)
(* and keys, so a behaviour follows one of them while the others stay as    *)
(* they began.                                                              *)
(***************************************************************************)
EXTENDS MCKeys, MCAccounts, MCContacts, MCTrust, MCVeil, MCStickers,
        MCGroupStream, MCChannels

VARIABLE part       \* the component this behaviour follows

\* A component that is not followed is asked nothing.
NoAccount == Blind(<<>>)
NoTrust == Sc(<<>>, 0, 0)
NoVeil == Case(<<>>, <<>>, 0, 0)
NoSticker == Show(<<>>, 0, 0)
ServiceAccounts == AccountPlans \cup {NoAccount}
ServiceContacts == ContactPlans \cup {<<>>}
ServiceTrust == MCTrustPlan \cup {NoTrust}
ServiceVeil == MCVeilPlan \cup {NoVeil}
ServiceStickers == MCStickerPlan \cup {NoSticker}
ServiceStreams == MCStreamPlans \cup {<<>>}
ServicePools == MCPoolPlans \cup {<<>>}
ServiceChannels == MCChanPlans \cup {<<>>}

ServicesInit ==
    /\ part \in {"keys", "accounts", "contacts", "trust", "veil", "stickers", "streams", "pools", "channels"}
    /\ KeysInit /\ (part = "keys" \/ \A c \in KeyCall : keyCall[c].req = (CHOOSE p \in KeyPlan : TRUE)[c])
    /\ AccountsInit /\ (part = "accounts" <=> acctPlan # NoAccount)
    /\ ContactsInit /\ (part = "contacts" <=> plan # <<>>)
    /\ TrustInit /\ (part = "trust" <=> trustPlan # NoTrust)
    /\ VeilInit /\ (part = "veil" <=> veilPlan # NoVeil)
    /\ StickersInit /\ (part = "stickers" <=> stickerPlan # NoSticker)
    /\ StreamInit /\ (part = "streams" <=> streamPlan # <<>>)
    /\ PoolInit /\ (part = "pools" <=> poolPlan # <<>>)
    /\ ChannelsInit /\ (part = "channels" <=> chanPlan # <<>>)

peopleVars == <<acctVars, contactVars, trustVars, veilVars>>
roomVars == <<streamVars, poolVars, chanVars>>

ServicesNext ==
    /\ UNCHANGED part
    /\ \/ part = "keys" /\ KeysNext /\ UNCHANGED <<peopleVars, stickerVars, roomVars>>
       \/ part = "accounts" /\ AccountsNext /\ UNCHANGED <<keyVars, contactVars, trustVars, veilVars, stickerVars, roomVars>>
       \/ part = "contacts" /\ ContactsNext /\ UNCHANGED <<keyVars, acctVars, trustVars, veilVars, stickerVars, roomVars>>
       \/ part = "trust" /\ TrustNext /\ UNCHANGED <<keyVars, acctVars, contactVars, veilVars, stickerVars, roomVars>>
       \/ part = "veil" /\ VeilNext /\ UNCHANGED <<keyVars, acctVars, contactVars, trustVars, stickerVars, roomVars>>
       \/ part = "stickers" /\ StickersNext /\ UNCHANGED <<keyVars, peopleVars, roomVars>>
       \/ part = "streams" /\ StreamNext /\ UNCHANGED <<keyVars, peopleVars, stickerVars, poolVars, chanVars>>
       \/ part = "pools" /\ PoolNext /\ UNCHANGED <<keyVars, peopleVars, stickerVars, streamVars, chanVars>>
       \/ part = "channels" /\ ChannelsNext /\ UNCHANGED <<keyVars, peopleVars, stickerVars, streamVars, poolVars>>

ServicesSpec ==
    ServicesInit /\ [][ServicesNext]_<<keyVars, peopleVars, stickerVars, roomVars, part>>

=============================================================================
