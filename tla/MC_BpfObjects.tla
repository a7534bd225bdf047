---------------------------- MODULE MC_BpfObjects ----------------------------
(* The three programs and the events map of bpf_debugObjects; the first    *)
(* program's Close may fail.                                               *)
EXTENDS BpfObjects, TLC

CONSTANTS kprobe_do_task_dead, syscall_enter_execve, syscall_enter_execveat,
          events

MCProgramObjs == <<kprobe_do_task_dead, syscall_enter_execve,
                   syscall_enter_execveat>>
MCMapObjs == <<events>>
MCMayFail == {kprobe_do_task_dead}
=============================================================================
