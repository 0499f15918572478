SPECIFICATION Spec
CONSTANTS
  t1 = t1
  t2 = t2
  Threads = {t1, t2}
  Applications <- Demands
  RT_ALIGN_SIZE = 2
  SIZEOF_STRUCT_MEM = 2
  MIN_SIZE = 4
  mem_size_aligned = 24
  RT_MM_PAGE_SIZE = 256
  SIZEOF_MEMUSAGE = 4
  SIZEOF_SLAB_ZONE = 36
  ZoneSize = 1024
  ZALLOC_ZONE_LIMIT = 16384
  ZONE_RELEASE_THRESH = 1
  start_addr <- Starts
  pool_size <- PoolSizes
  RT_MEMHEAP_SIZE = 2
  RT_MEMHEAP_MINIALLOC = 4
INVARIANTS
  HeapIsSound
  SlabIsSound
  MemHeapIsSound
  UsedMemIsExact
PROPERTIES
  IsAllocator
  CallsReturn
