---------------------------- MODULE MCSupportLevel ----------------------------
(* Programs for TLC: two that make all the calls between them and share the *)
(* disk, the flash device, the pager and the delay list; and two that read  *)
(* a sector.                                                                *)
EXTENDS SupportLevel

Mixed == <<{"SYS14", "SYS16"},
           {"TLB", "SYS11", "SYS12", "SYS13", "SYS15", "SYS18"}>>

Readers == <<{"SYS15"}, {"SYS15"}>>
=============================================================================
