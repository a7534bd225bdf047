\* bpf_debugObjects.Close when kprobe_do_task_dead's Close fails: the other
\* programs and the events map are never closed.
\* A closed or failed load is final: deadlock is not checked.
CHECK_DEADLOCK FALSE
CONSTANTS
  kprobe_do_task_dead = kprobe_do_task_dead
  syscall_enter_execve = syscall_enter_execve
  syscall_enter_execveat = syscall_enter_execveat
  events = events
  ProgramObjs <- MCProgramObjs
  MapObjs <- MCMapObjs
  MayFail <- MCMayFail
SPECIFICATION Spec
INVARIANT
  FailedCloseReleasesRest
