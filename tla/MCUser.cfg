SPECIFICATION Spec
CHECK_DEADLOCK FALSE
CONSTANTS
 NALLOC = 4
 HEAPMAX = 13
 Requests = {2, 3, 5}
 HDR = 1
 MEMORIA = 11
 Pedidos = {1, 2, 3}
 Fits = {"simples", "first", "worst", "best"}
 HS = 1
 MEMSIZE = 15
 Sizes = {1, 2, 3}
 t1 = t1
 t2 = t2
 t3 = t3
 l1 = l1
 l2 = l2
 l3 = l3
 w1 = w1
 w2 = w2
 Linhas = {t1, t2, t3}
 LIMITE = 4
 MAX_BUF = 3
 ITENS = 7
 Leitores = {l1, l2, l3}
 Redatores = {w1, w2}
 PHILOSOPHERS = 5
 NUM_TICKS = 2
 Passos <- MCPassos
 MAXARGS = 3
 Chars <- MCChars
 MaxLine = 5
 NINO = 12
 NFILE = 9
 NOFILE = 9
 NPIPE = 3
 NPROC = 8
 MAXFILE = 8
 PIPESIZE = 2
 PGSIZE = 2
 NPAGES = 7
 STACK = 4
 Few = 2
 NP = 3
 VAL = 5
INVARIANTS HeapsInv ThreadsInv ShellParses ProgramsInv
