------------------------ MODULE MCSeccompBlacklist ------------------------
(* The list of seccomp.go lines 202-284, and libseccomp releases that      *)
(* resolve all of it, or miss a recent call (kcmp, finit_module) or the    *)
(* 386-only vm86 calls.                                                    *)
EXTENDS SeccompBlacklist

MCList ==
    << "syslog", "uselib", "personality", "acct", "modify_ldt", "quotactl",
       "move_pages", "mbind", "get_mempolicy", "set_mempolicy",
       "migrate_pages", "unshare", "mount", "pivot_root", "perf_event_open",
       "ptrace", "umount2", "kexec_load", "open_by_handle_at",
       "name_to_handle_at", "create_module", "init_module", "finit_module",
       "delete_module", "iopl", "ioperm", "ioprio_set", "swapon", "swapoff",
       "process_vm_readv", "process_vm_writev", "sysfs", "_sysctl",
       "adjtimex", "clock_adjtime", "lookup_dcookie", "fanotify_init", "kcmp",
       "add_key", "request_key", "keyctl", "io_setup", "io_destroy",
       "io_getevents", "io_submit", "io_cancel", "remap_file_pages",
       "vmsplice", "chroot", "tuxcall", "reboot", "nfsservctl",
       "get_kernel_syms" >>

AllNames == Range(MCList) \cup {"vm86", "vm86old"}

MCResolvables ==
    { AllNames, AllNames \ {"kcmp"}, AllNames \ {"finit_module"},
      AllNames \ {"vm86", "vm86old"} }

=============================================================================
