----------------------------- MODULE MCRegistry -----------------------------
EXTENDS RegistryProps, HeartbeatProps

CONSTANTS cpu, disk, typo

MCNames     == {cpu, disk, typo}
MCFactories == {cpu, disk}

\* Both, none, and one with a name that no collector has
MCConfigs == {{cpu, disk}, {}, {cpu, typo}}

\* Five valid metrics in all, and a mount point whose name is too long.
MCGives == cpu :> <<TRUE, TRUE>> @@ disk :> <<TRUE, FALSE, TRUE, TRUE>>
=============================================================================
