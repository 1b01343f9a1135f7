------------------------------ MODULE MCVmSession ------------------------------
(* Instances of VmSession for TLC: one VM whose hardware the user may edit. *)
(* The fields that meet in one decision (guest, ISO, machine) have all      *)
(* combinations; the others have every value the native code tells apart.   *)
EXTENDS VmSession

Plain == [name |-> "linux", archType |-> "aarch64", isoPath |-> "iso", diskSizeGB |-> 2,
          machine |-> "", displayDevice |-> "", networkDevice |-> "", audioDevice |-> ""]

\* name, isoPath, machine, displayDevice, networkDevice, audioDevice
Rows == {<<"linux",   "iso", "virt",     "virtio-gpu", "e1000", "sb16">>,
         <<"linux",   "",    "virt",     "none",       "none",  "none">>,
         <<"windows", "iso", "virt",     "ramfb",      "",      "ich9-hda">>,
         <<"windows", "",    "virt",     "virtio-vga", "",      "hda">>,
         <<"linux",   "iso", "sbsa-ref", "",           "",      "ac97">>,
         <<"linux",   "",    "sbsa-ref", "virtio-gpu", "",      "virtio-sound-device">>,
         <<"windows", "iso", "sbsa-ref", "",           "",      "">>,
         <<"windows", "",    "sbsa-ref", "none",       "",      "">>}

MCHardware ==
    {[Plain EXCEPT !.name = r[1], !.isoPath = r[2], !.machine = r[3], !.displayDevice = r[4],
                   !.networkDevice = r[5], !.audioDevice = r[6]] : r \in Rows}
    \cup {[Plain EXCEPT !.archType = a] : a \in {"", "x86_64"}}

(* A disk with a table of references, one of the former built-in writer,    *)
(* one with a misplaced table, and a raw one.                               *)
MCImages == {Qcow2(16, 1, 0, 2), Qcow2(16, 1, 0, 0), Qcow2(16, 1, 1, 2), Raw(2)}

MCCores == {Required, Required \ {"init"}, Required \ {"mic"}}
=============================================================================
