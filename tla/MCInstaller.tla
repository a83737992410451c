----------------------------- MODULE MCInstaller -----------------------------
(***************************************************************************)
(* Instances of the installer for TLC: a backend the run loop installs     *)
(* (MLX), two installed on demand (llama.cpp and vLLM, as on macOS), and a *)
(* few clients.                                                            *)
(***************************************************************************)
EXTENDS Installer, TLC

CONSTANTS llamacpp, mlx, vllm

MCBackends == {llamacpp, mlx, vllm}
OnDemand == {llamacpp, vllm}
LlamaCpp == {llamacpp}
Vllm == {vllm}
=============================================================================
