------------------------------- MODULE MC_Core -------------------------------
(* The core with a decoder that has two roles, an encoder, a name that only *)
(* begins like a registered one, and a name that is not registered.         *)
EXTENDS NX_Core

MCRequests == {<<"DECODER", "avc">>, <<"DECODER", "3gpp">>, <<"ENCODER", "avc">>,
               <<"ENCODER", "avc", "secure">>, <<"DECODER", "hevc">>}

\* The table has every registered name once and no role is lost:
\* OMX_GetRolesOfComponent gives all roles registered for the name, and
\* OMX_GetComponentsOfRole finds every component registered for the role.
ASSUME RegistrationsKept ==
  \A i \in DOMAIN RegisterAllComponents :
    LET r == RegisterAllComponents[i] IN
    /\ Cardinality({j \in DOMAIN BuildTable : BuildTable[j].strName = r.name}) = 1
    /\ r.role \in Range(RolesOfComponent(BuildTable, r.name))
    /\ r.name \in ComponentsOfRole(BuildTable, r.role)

=============================================================================
